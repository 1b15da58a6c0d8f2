----------------------------- MODULE PortalCache -----------------------------
(***************************************************************************)
(* CommonInterceptor.preHandle: the headers and footers of a page come     *)
(* from memcached or else, one HTTP call each, from the portal.  Requests  *)
(* interleave between any two fragments; entries expire at any moment; the *)
(* portal (and memcached, both external) may be down for a while.          *)
(***************************************************************************)
EXTENDS Naturals, FiniteSets

CONSTANTS
  Threads,    \* the container's request threads
  Loads,      \* bound: the traffic considered, each a record of the threads that serve, the
              \* requests (a session and parameters) they get, and the fragments followed
  Null,       \* null, or no content
  Unset       \* an attribute preHandle has not set

VARIABLES
  load,     \* the traffic of this behavior
  req,      \* the request a thread handles, or Null
  at,       \* the fragment preHandle is at, by its position in Fragments
  early,    \* what lines 76-85 read from the cache
  attr,     \* the attributes set on the request
  cache,    \* memcached: what is stored under each key
  portal,   \* "up" or "down"
  sound     \* "yes" if the portal was up whenever this request called it

vars == <<load, req, at, early, attr, cache, portal, sound>>

\* In the order in which preHandle handles them
Fragments == <<"class", "school", "visitor", "visitorFooter", "header", "footer",
               "zoneHeader", "zoneFooter", "oneClass", "community">>
Names == {Fragments[i] : i \in 1..10}
EarlyNames == {"visitor", "header", "footer", "zoneHeader", "zoneFooter", "oneClass"}

\* A request: session and parameters, "" for those it does not have; platformCode is fixed
Params == [session: {"", "s1", "s2"}, groupId: {"", "g"}, schoolId: {"", "c"},
           userId: {"", "u"}, isOrgFlag: {"", "1"}, communityId: {"", "m"}]
ASSUME Known == \A l \in Loads : /\ l.threads \subseteq Threads
                                /\ l.requests \subseteq Params /\ l.followed \subseteq Names

Scope(f, r) ==
  CASE f = "class" -> r.groupId [] f = "school" -> r.schoolId [] f = "community" -> r.communityId
    [] f \in {"visitor", "visitorFooter"} -> r.userId [] OTHER -> ""

\* Which fragments preHandle handles at all (lines 87, 96, 109, 133, 138, 148)
Handled(f, r) ==
  f \in load.followed /\
  CASE f \in {"class", "school", "visitor", "visitorFooter", "community"} -> Scope(f, r) # ""
    [] f \in {"zoneHeader", "zoneFooter"} -> r.session # ""
    [] OTHER -> TRUE

\* The position of the next fragment that is handled for request r, from position i on
Following(i, r) == CHOOSE j \in i..11 : /\ j = 11 \/ Handled(Fragments[j], r)
                                        /\ \A k \in i..(j - 1) : ~Handled(Fragments[k], r)

\* What getCommonHtml asks the portal for, and gets if the portal is up
Content(f, r) ==
  [type |-> IF f = "visitorFooter" THEN "zoneFooter" ELSE f,
   session |-> r.session,
   scope |-> IF f = "visitorFooter" THEN "" ELSE Scope(f, r)]
Contents == {Content(f, r) : f \in Names, r \in load.requests}

\* What the portal answers is neither null nor a missing attribute
ASSUME RealContent == \A f \in Names, r \in Params : Content(f, r) \notin {Null, Unset}

\* Faulty variant: the session left out of the key
KeyNoSession(f, r) == <<f, "", Scope(f, r)>>

WriteKey(f, r) == <<f, r.session, Scope(f, r)>>

(* Lines 85 and 116: the visitor's footer is looked up without the session *)
(* under which line 119 stores it ("none" is no session).  Line 149 tests  *)
(* the community's header without having looked it up.                     *)
ReadKey(f, r) == IF f = "visitorFooter" THEN <<f, "none", Scope(f, r)>> ELSE WriteKey(f, r)

Keys == {WriteKey(f, r) : f \in load.followed, r \in load.requests}
Cached(key) == IF key \in Keys THEN cache[key] ELSE Null

TypeOK ==
  /\ load \in Loads
  /\ req \in [Threads -> load.requests \cup {Null}]
  /\ at \in [Threads -> 1..11]
  /\ early \in [Threads -> [EarlyNames -> Contents \cup {Null}]]
  /\ attr \in [Threads -> [Names -> Contents \cup {Null, Unset}]]
  /\ cache \in [Keys -> Contents \cup {Null}]
  /\ portal \in {"up", "down"} /\ sound \in [Threads -> {"yes", "no"}]

Init ==
  /\ load \in Loads
  /\ req = [t \in Threads |-> Null]
  /\ at = [t \in Threads |-> 11]
  /\ early = [t \in Threads |-> [f \in EarlyNames |-> Null]]
  /\ attr = [t \in Threads |-> [f \in Names |-> Unset]]
  /\ cache = [k \in Keys |-> Null]
  /\ portal = "up" /\ sound = [t \in Threads |-> "yes"]

Begin(t) ==
  /\ t \in load.threads /\ at[t] = 11
  /\ \E r \in load.requests :
       /\ req' = [req EXCEPT ![t] = r]
       /\ at' = [at EXCEPT ![t] = Following(1, r)]
       /\ early' = [early EXCEPT ![t] = [f \in EarlyNames |->
                      IF f = "zoneHeader" /\ r.isOrgFlag # "" THEN Null ELSE Cached(ReadKey(f, r))]]
  /\ attr' = [attr EXCEPT ![t] = [f \in Names |-> Unset]]
  /\ sound' = [sound EXCEPT ![t] = "yes"]
  /\ UNCHANGED <<load, cache, portal>>

\* What preHandle has in hand before it considers to call the portal
Found(t, f) ==
  CASE f \in EarlyNames -> early[t][f]
    [] f = "community" -> Null
    [] OTHER -> Cached(ReadKey(f, req[t]))

\* With isOrgFlag the school's header takes the place of the zone's (lines 102-106, 158-160)
SetAttrs(a, r, f, v) ==
  CASE f = "school" /\ r.isOrgFlag # "" -> [a EXCEPT !["zoneHeader"] = v]
    [] f = "zoneHeader" /\ r.isOrgFlag # "" -> a
    [] OTHER -> [a EXCEPT ![f] = v]

\* Faulty variant: the attribute is set after a call only
HandleSettingFetched(t) ==
  /\ at[t] < 11 /\ portal = "up"
  /\ LET f == Fragments[at[t]]  r == req[t] IN
       IF Found(t, f) # Null THEN UNCHANGED <<attr, cache>>
       ELSE /\ attr' = [attr EXCEPT ![t] = SetAttrs(@, r, f, Content(f, r))]
            /\ cache' = [cache EXCEPT ![WriteKey(f, r)] = Content(f, r)]
  /\ at' = [at EXCEPT ![t] = Following(@ + 1, req[t])]
  /\ UNCHANGED <<load, req, early, portal, sound>>

Handle(t) ==
  /\ at[t] < 11
  /\ LET f == Fragments[at[t]]  r == req[t]
         fetched == IF portal = "up" THEN Content(f, r) ELSE Null
     IN IF Found(t, f) # Null
        THEN attr' = [attr EXCEPT ![t] = SetAttrs(@, r, f, Found(t, f))] /\ UNCHANGED <<cache, sound>>
        ELSE /\ attr' = [attr EXCEPT ![t] = SetAttrs(@, r, f, fetched)]
             /\ cache' = [cache EXCEPT ![WriteKey(f, r)] = fetched]
             /\ sound' = [sound EXCEPT ![t] = IF portal = "up" THEN @ ELSE "no"]
  /\ at' = [at EXCEPT ![t] = Following(@ + 1, req[t])]
  /\ UNCHANGED <<load, req, early, portal>>

Expire == \E k \in Keys : /\ cache[k] # Null /\ cache' = [cache EXCEPT ![k] = Null]
                          /\ UNCHANGED <<load, req, at, early, attr, portal, sound>>

PortalChanges == /\ portal' = (IF portal = "up" THEN "down" ELSE "up")
                 /\ UNCHANGED <<load, req, at, early, attr, cache, sound>>

Next == (\E t \in Threads : Begin(t) \/ Handle(t)) \/ Expire \/ PortalChanges

Spec == Init /\ [][Next]_vars

-----------------------------------------------------------------------------
Done(t) == req[t] # Null /\ at[t] = 11

(* Lines 76-162: whoever filled the cache, a page shows the fragments of   *)
(* its own session and of the class, school, user or community it asked    *)
(* for, never those of another one; and a school's account that publishes  *)
(* a resource is not shown its zone's header but the school's (line 78).   *)
Wanted(f, r) == IF f = "zoneHeader" /\ r.isOrgFlag # "" THEN Content("school", r) ELSE Content(f, r)

OwnFragments ==
  \A t \in Threads : \A f \in Names : attr[t][f] \notin {Unset, Null} =>
    attr[t][f] = Wanted(f, req[t])

(* Lines 89-151 and 213-225: a failed call is not remembered: once the     *)
(* portal answers, a page has all its fragments whatever failed before.    *)
CompleteWhenUp ==
  \A t \in Threads : Done(t) /\ sound[t] = "yes" =>
    \A f \in Names : Handled(f, req[t]) =>
      \/ attr[t][f] \notin {Unset, Null}
      \/ req[t].isOrgFlag # "" /\ f \in {"school", "zoneHeader"}
=============================================================================
