-------------------------- MODULE WebRequestsProofs --------------------------
(***************************************************************************)
(* What stands before the controllers of the two web programs              *)
(* (WebRequests): the portal's interceptor and the gateway's check.        *)
(***************************************************************************)
EXTENDS PortalCache, CheckParams, TLAPS, WellFoundedInduction

(***************************************************************************)
(* PortalCache: whose fragments a page shows and whether it has them all,  *)
(* for any threads and traffic.  The cache is shared, so the invariant     *)
(* speaks of all that may ever be read from it: under each key there is    *)
(* nothing, or what the portal answers to whoever builds that key.         *)
(***************************************************************************)
\* preHandle comes to the next branch that handles its fragment, or to its end
LEMMA FollowingLemma ==
  ASSUME NEW i \in 1..11, NEW r
  PROVE  /\ Following(i, r) \in 1..11 /\ Following(i, r) \in i..11
         /\ \A k \in i..(Following(i, r) - 1) : ~Handled(Fragments[k], r)
  <1> DEFINE S == {j \in i..11 : j = 11 \/ Handled(Fragments[j], r)}
  <1>1. 11 \in S /\ S \subseteq Nat
    OBVIOUS
  <1>2. PICK j \in S : \A k \in S : ~(<<k, j>> \in OpToRel(<, Nat))
    BY <1>1, WFMin, NatLessThanWellFounded, Zenon
  <1>3. \A k \in i..(j - 1) : ~Handled(Fragments[k], r)
    <2> SUFFICES ASSUME NEW k \in i..(j - 1), Handled(Fragments[k], r) PROVE FALSE
      OBVIOUS
    <2>1. k \in S /\ k < j /\ k \in Nat /\ j \in Nat
      OBVIOUS
    <2> QED
      BY <1>2, <2>1 DEF OpToRel
  <1>4. j \in i..11 /\ (j = 11 \/ Handled(Fragments[j], r))
    BY <1>2
  <1>5. Following(i, r) \in i..11 /\ \A k \in i..(Following(i, r) - 1) : ~Handled(Fragments[k], r)
    BY <1>3, <1>4 DEF Following
  <1> QED
    BY <1>5

LEMMA NamesLemma ==
  /\ \A i \in 1..10 : Fragments[i] \in Names
  /\ EarlyNames \subseteq Names /\ {"school", "zoneHeader"} \subseteq Names
  <1>1. \A i \in 1..10 : Fragments[i] \in Names
    BY DEF Names
  <1>2. /\ Fragments[2] = "school" /\ Fragments[3] = "visitor" /\ Fragments[5] = "header"
        /\ Fragments[6] = "footer" /\ Fragments[7] = "zoneHeader" /\ Fragments[8] = "zoneFooter"
        /\ Fragments[9] = "oneClass"
    BY DEF Fragments
  <1> QED
    BY <1>1, <1>2 DEF EarlyNames

-----------------------------------------------------------------------------
\* A thread that is in preHandle has a request
Serving == \A t \in Threads : at[t] < 11 => req[t] \in load.requests

LEMMA CachedTyped ==
  ASSUME TypeOK, NEW key PROVE Cached(key) \in Contents \cup {Null}
  BY DEF Cached, TypeOK

LEMMA FoundTyped ==
  ASSUME TypeOK, NEW t \in Threads, NEW f
  PROVE  Found(t, f) \in Contents \cup {Null}
  <1>1. f \in EarlyNames => early[t][f] \in Contents \cup {Null}
    BY DEF TypeOK
  <1> QED
    BY <1>1, CachedTyped DEF Found

LEMMA SetAttrsTyped ==
  ASSUME NEW S, NEW a \in [Names -> S], NEW r, NEW f, NEW v \in S
  PROVE  SetAttrs(a, r, f, v) \in [Names -> S]
  BY DEF SetAttrs

LEMMA BeginTyped ==
  ASSUME TypeOK, NEW t \in Threads, Begin(t)
  PROVE  TypeOK' /\ (Serving => Serving')
  <1>1. PICK r \in load.requests :
          /\ req' = [req EXCEPT ![t] = r]
          /\ at' = [at EXCEPT ![t] = Following(1, r)]
          /\ early' = [early EXCEPT ![t] = [f \in EarlyNames |->
               IF f = "zoneHeader" /\ r.isOrgFlag # "" THEN Null ELSE Cached(ReadKey(f, r))]]
    BY DEF Begin
  <1>2. Following(1, r) \in 1..11
    BY FollowingLemma
  <1>3. [f \in EarlyNames |-> IF f = "zoneHeader" /\ r.isOrgFlag # "" THEN Null ELSE Cached(ReadKey(f, r))]
          \in [EarlyNames -> Contents \cup {Null}]
    BY CachedTyped
  <1>4. /\ load' = load /\ cache' = cache /\ portal' = portal
        /\ attr' = [attr EXCEPT ![t] = [f \in Names |-> Unset]]
        /\ sound' = [sound EXCEPT ![t] = "yes"]
    BY DEF Begin
  <1>5. Contents' = Contents /\ Keys' = Keys
    BY <1>4 DEF Contents, Keys
  <1>6. early' \in [Threads -> [EarlyNames -> Contents \cup {Null}]]
    BY <1>1, <1>3 DEF TypeOK
  <1>7. attr' \in [Threads -> [Names -> Contents \cup {Null, Unset}]]
    BY <1>4 DEF TypeOK
  <1>8. req' \in [Threads -> load.requests \cup {Null}] /\ at' \in [Threads -> 1..11]
    BY <1>1, <1>2 DEF TypeOK
  <1>9. TypeOK'
    BY <1>4, <1>5, <1>6, <1>7, <1>8 DEF TypeOK
  <1>10. Serving => Serving'
    BY <1>1, <1>4 DEF Serving, TypeOK
  <1> QED
    BY <1>9, <1>10

LEMMA HandleTyped ==
  ASSUME TypeOK, Serving, NEW t \in Threads, Handle(t)
  PROVE  TypeOK' /\ Serving'
  <1> DEFINE f == Fragments[at[t]]
             r == req[t]
             fetched == IF portal = "up" THEN Content(f, r) ELSE Null
             v == IF Found(t, f) # Null THEN Found(t, f) ELSE fetched
  <1>1. at[t] \in 1..10 /\ f \in Names /\ r \in load.requests
    BY NamesLemma DEF Handle, TypeOK, Serving
  <1>2. Content(f, r) \in Contents
    BY <1>1 DEF Contents
  <1>3. v \in Contents \cup {Null} /\ fetched \in Contents \cup {Null}
    BY <1>2, FoundTyped
  <1>4. /\ attr' = [attr EXCEPT ![t] = SetAttrs(@, r, f, v)]
        /\ cache' = cache \/ cache' = [cache EXCEPT ![WriteKey(f, r)] = fetched]
        /\ sound' = sound \/ sound' = [sound EXCEPT ![t] = IF portal = "up" THEN @ ELSE "no"]
        /\ at' = [at EXCEPT ![t] = Following(@ + 1, r)]
        /\ load' = load /\ req' = req /\ early' = early /\ portal' = portal
    BY DEF Handle
  <1>5. Contents' = Contents /\ Keys' = Keys
    BY <1>4 DEF Contents, Keys
  <1>6. Following(at[t] + 1, r) \in 1..11
    <2>1. at[t] + 1 \in 1..11
      BY <1>1
    <2> QED
      BY <2>1, FollowingLemma
  <1> HIDE DEF f, r, v, fetched
  <1>7. attr' \in [Threads -> [Names -> Contents \cup {Null, Unset}]]
    <2>1. attr[t] \in [Names -> Contents \cup {Null, Unset}] /\ v \in Contents \cup {Null, Unset}
      BY <1>3 DEF TypeOK
    <2>2. SetAttrs(attr[t], r, f, v) \in [Names -> Contents \cup {Null, Unset}]
      BY <2>1, SetAttrsTyped
    <2> QED
      BY <1>4, <2>2 DEF TypeOK
  <1>8. cache' \in [Keys -> Contents \cup {Null}]
    BY <1>3, <1>4 DEF TypeOK
  <1>9. at' \in [Threads -> 1..11]
    BY <1>4, <1>6 DEF TypeOK
  <1>10. sound' \in [Threads -> {"yes", "no"}]
    BY <1>4 DEF TypeOK
  <1>11. TypeOK'
    BY <1>4, <1>5, <1>7, <1>8, <1>9, <1>10 DEF TypeOK
  <1>12. Serving'
    BY <1>1, <1>4 DEF Serving, TypeOK, r
  <1> QED
    BY <1>11, <1>12

(* The interceptor's variables have their types, the cache has contents of *)
(* the portal or nothing under each key.                                   *)
THEOREM PortalTypeCorrect == Spec => [](TypeOK /\ Serving)
  <1>1. Init => TypeOK /\ Serving
    BY DEF Init, TypeOK, Serving
  <1>2. TypeOK /\ Serving /\ [Next]_vars => (TypeOK /\ Serving)'
    <2> SUFFICES ASSUME TypeOK, Serving, [Next]_vars PROVE (TypeOK /\ Serving)'
      OBVIOUS
    <2>1. ASSUME NEW t \in Threads, Begin(t) \/ Handle(t) PROVE (TypeOK /\ Serving)'
      BY <2>1, BeginTyped, HandleTyped
    <2>2. CASE Expire
      <3>1. Contents' = Contents /\ Keys' = Keys
        BY <2>2 DEF Expire, Contents, Keys
      <3> QED
        BY <2>2, <3>1 DEF Expire, TypeOK, Serving
    <2>3. CASE PortalChanges
      <3>1. Contents' = Contents /\ Keys' = Keys
        BY <2>3 DEF PortalChanges, Contents, Keys
      <3> QED
        BY <2>3, <3>1 DEF PortalChanges, TypeOK, Serving
    <2>4. CASE UNCHANGED vars
      <3>1. Contents' = Contents /\ Keys' = Keys
        BY <2>4 DEF vars, Contents, Keys
      <3> QED
        BY <2>4, <3>1 DEF vars, TypeOK, Serving
    <2> QED
      BY <2>1, <2>2, <2>3, <2>4 DEF Next
  <1> QED
    BY <1>1, <1>2, PTL DEF Spec

-----------------------------------------------------------------------------
\* What is read of the cache by whoever builds a key is what the portal would answer
CacheOwn ==
  \A f \in Names, r \in load.requests :
    WriteKey(f, r) \in Keys => cache[WriteKey(f, r)] \in {Null, Content(f, r)}

EarlyOwn ==
  \A t \in Threads, f \in EarlyNames :
    req[t] \in load.requests => early[t][f] \in {Null, Content(f, req[t])}

PortalInv == TypeOK /\ Serving /\ CacheOwn /\ EarlyOwn /\ OwnFragments

\* The key tells apart all that the content depends on
LEMMA KeyLemma ==
  ASSUME NEW f, NEW g, NEW r, NEW q, WriteKey(f, r) = WriteKey(g, q)
  PROVE  f = g /\ Content(f, r) = Content(g, q)
  <1>1. f = g /\ r.session = q.session /\ Scope(f, r) = Scope(g, q)
    BY DEF WriteKey
  <1> QED
    BY <1>1 DEF Content

\* The visitor's footer is looked up where nothing is ever stored
LEMMA ReadLemma ==
  ASSUME TypeOK, CacheOwn, NEW f \in Names, NEW r \in load.requests
  PROVE  Cached(ReadKey(f, r)) \in {Null, Content(f, r)}
  <1>1. CASE f = "visitorFooter"
    <2>1. ASSUME NEW g \in load.followed, NEW q \in load.requests, ReadKey(f, r) = WriteKey(g, q)
          PROVE  FALSE
      <3>1. q.session \in {"", "s1", "s2"}
        BY Known DEF TypeOK, Params
      <3> QED
        BY <1>1, <2>1, <3>1 DEF ReadKey, WriteKey
    <2> QED
      BY <2>1 DEF Cached, Keys
  <1>2. CASE f # "visitorFooter"
    BY <1>2 DEF ReadKey, Cached, CacheOwn
  <1> QED
    BY <1>1, <1>2

LEMMA FoundOwn ==
  ASSUME TypeOK, CacheOwn, EarlyOwn, NEW t \in Threads, req[t] \in load.requests, NEW f \in Names
  PROVE  Found(t, f) \in {Null, Content(f, req[t])}
  <1>1. f \in EarlyNames => early[t][f] \in {Null, Content(f, req[t])}
    BY DEF EarlyOwn
  <1>2. Cached(ReadKey(f, req[t])) \in {Null, Content(f, req[t])}
    BY ReadLemma
  <1> QED
    BY <1>1, <1>2 DEF Found

LEMMA BeginOwn ==
  ASSUME PortalInv, NEW t \in Threads, Begin(t)
  PROVE  CacheOwn' /\ EarlyOwn' /\ OwnFragments'
  <1>1. PICK r \in load.requests :
          /\ req' = [req EXCEPT ![t] = r]
          /\ early' = [early EXCEPT ![t] = [f \in EarlyNames |->
               IF f = "zoneHeader" /\ r.isOrgFlag # "" THEN Null ELSE Cached(ReadKey(f, r))]]
    BY DEF Begin
  <1>2. /\ load' = load /\ cache' = cache /\ attr' = [attr EXCEPT ![t] = [f \in Names |-> Unset]]
    BY DEF Begin
  <1>3. Keys' = Keys
    BY <1>2 DEF Keys
  <1>4. CacheOwn'
    BY <1>2, <1>3 DEF CacheOwn, PortalInv
  <1>5. EarlyOwn'
    <2>1. \A f \in EarlyNames : Cached(ReadKey(f, r)) \in {Null, Content(f, r)}
      BY NamesLemma, ReadLemma DEF PortalInv
    <2>2. \A f \in EarlyNames : early'[t][f] \in {Null, Content(f, r)}
      BY <1>1, <2>1 DEF PortalInv, TypeOK
    <2> QED
      BY <1>1, <1>2, <2>2 DEF EarlyOwn, PortalInv, TypeOK
  <1>6. OwnFragments'
    BY <1>1, <1>2 DEF OwnFragments, PortalInv, TypeOK
  <1> QED
    BY <1>4, <1>5, <1>6

LEMMA HandleOwn ==
  ASSUME PortalInv, NEW t \in Threads, Handle(t)
  PROVE  CacheOwn' /\ EarlyOwn' /\ OwnFragments'
  <1> DEFINE f == Fragments[at[t]]
             r == req[t]
             fetched == IF portal = "up" THEN Content(f, r) ELSE Null
             v == IF Found(t, f) # Null THEN Found(t, f) ELSE fetched
  <1>1. at[t] \in 1..10 /\ f \in Names /\ r \in load.requests
    BY NamesLemma DEF Handle, PortalInv, TypeOK, Serving
  <1>2. v \in {Null, Content(f, r)} /\ fetched \in {Null, Content(f, r)}
    BY <1>1, FoundOwn DEF PortalInv
  <1>3. /\ attr' = [attr EXCEPT ![t] = SetAttrs(@, r, f, v)]
        /\ cache' = cache \/ cache' = [cache EXCEPT ![WriteKey(f, r)] = fetched]
        /\ load' = load /\ req' = req /\ early' = early
    BY DEF Handle
  <1>4. Keys' = Keys
    BY <1>3 DEF Keys
  <1> HIDE DEF f, r, v, fetched
  <1>5. CacheOwn'
    <2> SUFFICES ASSUME NEW g \in Names, NEW q \in load.requests, WriteKey(g, q) \in Keys
                 PROVE  cache'[WriteKey(g, q)] \in {Null, Content(g, q)}
      BY <1>3, <1>4 DEF CacheOwn
    <2>1. cache[WriteKey(g, q)] \in {Null, Content(g, q)}
      BY DEF CacheOwn, PortalInv
    <2>2. cache'[WriteKey(g, q)] = cache[WriteKey(g, q)]
            \/ (WriteKey(g, q) = WriteKey(f, r) /\ cache'[WriteKey(g, q)] = fetched)
      <3>1. cache \in [Keys -> Contents \cup {Null}]
        BY DEF PortalInv, TypeOK
      <3>2. ASSUME NEW c, NEW D, NEW R, c \in [D -> R], NEW k \in D, NEW l, NEW w
            PROVE  [c EXCEPT ![l] = w][k] = c[k] \/ (k = l /\ [c EXCEPT ![l] = w][k] = w)
        BY <3>2
      <3> QED
        BY <1>3, <3>1, <3>2
    <2> QED
      BY <1>2, <2>1, <2>2, KeyLemma
  <1>6. EarlyOwn'
    BY <1>3 DEF EarlyOwn, PortalInv
  <1>7. OwnFragments'
    <2>1. attr[t] \in [Names -> Contents \cup {Null, Unset}]
      BY DEF PortalInv, TypeOK
    <2>2. \A g \in Names : attr[t][g] \notin {Unset, Null} => attr[t][g] = Wanted(g, r)
      BY DEF PortalInv, OwnFragments, r
    <2>3. \A g \in Names : attr'[t][g] \notin {Unset, Null} => attr'[t][g] = Wanted(g, r)
      <3>1. attr'[t] = SetAttrs(attr[t], r, f, v)
        BY <1>3 DEF PortalInv, TypeOK
      <3>2. \A g \in Names : SetAttrs(attr[t], r, f, v)[g] \notin {Unset, Null} =>
                               SetAttrs(attr[t], r, f, v)[g] = Wanted(g, r)
        <4>1. CASE f = "school" /\ r.isOrgFlag # ""
          BY <1>1, <1>2, <2>1, <2>2, <4>1 DEF SetAttrs, Wanted
        <4>2. CASE f = "zoneHeader" /\ r.isOrgFlag # ""
          BY <2>2, <4>2 DEF SetAttrs
        <4>3. CASE ~(f = "school" /\ r.isOrgFlag # "") /\ ~(f = "zoneHeader" /\ r.isOrgFlag # "")
          BY <1>1, <1>2, <2>1, <2>2, <4>3 DEF SetAttrs, Wanted
        <4> QED
          BY <4>1, <4>2, <4>3
      <3> QED
        BY <3>1, <3>2
    <2>4. \A s \in Threads \ {t} : attr'[s] = attr[s]
      BY <1>3 DEF PortalInv, TypeOK
    <2> QED
      BY <1>3, <2>3, <2>4 DEF PortalInv, OwnFragments, r
  <1> QED
    BY <1>5, <1>6, <1>7

(* Through one cache that every thread reads and fills and that may forget *)
(* anything at any time, a page never gets a fragment of another session,  *)
(* class, school, user or community.                                       *)
THEOREM OwnFragmentsHolds == Spec => []OwnFragments
  <1>1. Init => CacheOwn /\ EarlyOwn /\ OwnFragments
    BY DEF Init, CacheOwn, EarlyOwn, OwnFragments
  <1>2. PortalInv /\ (TypeOK /\ Serving)' /\ [Next]_vars => PortalInv'
    <2> SUFFICES ASSUME PortalInv, (TypeOK /\ Serving)', [Next]_vars
                 PROVE  CacheOwn' /\ EarlyOwn' /\ OwnFragments'
      BY DEF PortalInv
    <2>1. ASSUME NEW t \in Threads, Begin(t) \/ Handle(t) PROVE CacheOwn' /\ EarlyOwn' /\ OwnFragments'
      BY <2>1, BeginOwn, HandleOwn
    <2>2. CASE Expire
      <3>1. PICK k \in Keys : cache' = [cache EXCEPT ![k] = Null]
        BY <2>2 DEF Expire
      <3>2. load' = load /\ req' = req /\ early' = early /\ attr' = attr /\ Keys' = Keys
        BY <2>2 DEF Expire, Keys
      <3>3. CacheOwn'
        <4> SUFFICES ASSUME NEW g \in Names, NEW q \in load.requests, WriteKey(g, q) \in Keys
                     PROVE  cache'[WriteKey(g, q)] \in {Null, Content(g, q)}
          BY <3>2 DEF CacheOwn
        <4>1. cache[WriteKey(g, q)] \in {Null, Content(g, q)}
          BY DEF CacheOwn, PortalInv
        <4> QED
          BY <3>1, <4>1 DEF PortalInv, TypeOK
      <3> QED
        BY <3>2, <3>3 DEF EarlyOwn, OwnFragments, PortalInv
    <2>3. CASE PortalChanges \/ UNCHANGED vars
      <3>1. load' = load /\ req' = req /\ early' = early /\ attr' = attr /\ cache' = cache
        BY <2>3 DEF PortalChanges, vars
      <3> QED
        BY <3>1 DEF Keys, CacheOwn, EarlyOwn, OwnFragments, PortalInv
    <2> QED
      BY <2>1, <2>2, <2>3 DEF Next
  <1>3. PortalInv => OwnFragments
    BY DEF PortalInv
  <1> QED
    BY <1>1, <1>2, <1>3, PortalTypeCorrect, PTL DEF Spec, PortalInv

-----------------------------------------------------------------------------
(* What was missing when preHandle came by is there afterwards, as long as *)
(* no call of the portal failed.                                           *)
Shown(a, f, r) == a[f] \notin {Unset, Null} \/ (r.isOrgFlag # "" /\ f \in {"school", "zoneHeader"})

Complete ==
  \A t \in Threads : req[t] # Null /\ sound[t] = "yes" =>
    \A i \in 1..(at[t] - 1) : Handled(Fragments[i], req[t]) => Shown(attr[t], Fragments[i], req[t])

LEMMA BeginComplete ==
  ASSUME TypeOK, Complete, NEW t \in Threads, Begin(t)
  PROVE  Complete'
  <1>1. PICK r \in load.requests :
          req' = [req EXCEPT ![t] = r] /\ at' = [at EXCEPT ![t] = Following(1, r)]
    BY DEF Begin
  <1>2. load' = load /\ attr' = [attr EXCEPT ![t] = [f \in Names |-> Unset]]
        /\ sound' = [sound EXCEPT ![t] = "yes"]
    BY DEF Begin
  <1>3. \A f, q : Handled(f, q)' = Handled(f, q)
    BY <1>2 DEF Handled
  <1>4. \A k \in 1..(Following(1, r) - 1) : ~Handled(Fragments[k], r)
    BY FollowingLemma
  <1>5. req'[t] = r /\ at'[t] = Following(1, r)
        /\ \A s \in Threads \ {t} : req'[s] = req[s] /\ at'[s] = at[s] /\ attr'[s] = attr[s] /\ sound'[s] = sound[s]
    BY <1>1, <1>2 DEF TypeOK
  <1> SUFFICES ASSUME NEW s \in Threads, req'[s] # Null, sound'[s] = "yes",
                      NEW i \in 1..(at'[s] - 1), Handled(Fragments[i], req'[s])
               PROVE  Shown(attr'[s], Fragments[i], req'[s])
    BY <1>3 DEF Complete
  <1>6. CASE s = t
    BY <1>4, <1>5, <1>6
  <1>7. CASE s # t
    BY <1>5, <1>7 DEF Complete
  <1> QED
    BY <1>6, <1>7

LEMMA SetAttrsShows ==
  ASSUME NEW S, NEW a \in [Names -> S], NEW r, NEW f \in Names, NEW v \in S, v \notin {Unset, Null}
  PROVE  /\ Shown(SetAttrs(a, r, f, v), f, r)
         /\ \A g \in Names : Shown(a, g, r) => Shown(SetAttrs(a, r, f, v), g, r)
  <1>1. CASE r.isOrgFlag # "" /\ f = "school"
    BY <1>1, NamesLemma DEF SetAttrs, Shown
  <1>2. CASE r.isOrgFlag # "" /\ f = "zoneHeader"
    BY <1>2 DEF SetAttrs, Shown
  <1>3. CASE ~(r.isOrgFlag # "" /\ f \in {"school", "zoneHeader"})
    <2>1. SetAttrs(a, r, f, v) = [a EXCEPT ![f] = v]
      BY <1>3 DEF SetAttrs
    <2> QED
      BY <2>1 DEF Shown
  <1> QED
    BY <1>1, <1>2, <1>3

LEMMA HandleComplete ==
  ASSUME TypeOK, Serving, Complete, NEW t \in Threads, Handle(t)
  PROVE  Complete'
  <1> DEFINE f == Fragments[at[t]]
             r == req[t]
             fetched == IF portal = "up" THEN Content(f, r) ELSE Null
             v == IF Found(t, f) # Null THEN Found(t, f) ELSE fetched
  <1>1. at[t] \in 1..10 /\ f \in Names /\ r \in load.requests
    BY NamesLemma DEF Handle, TypeOK, Serving
  <1>2. \A c \in Contents : c \notin {Unset, Null}
    <2>1. load.requests \subseteq Params
      BY Known DEF TypeOK
    <2> QED
      BY <2>1, RealContent DEF Contents
  <1>3. Content(f, r) \in Contents
    BY <1>1 DEF Contents
  <1>4. sound'[t] = "yes" => sound[t] = "yes" /\ v \in Contents
    <2>1. Found(t, f) \in Contents \cup {Null}
      BY FoundTyped
    <2>2. CASE Found(t, f) # Null
      BY <2>1, <2>2 DEF Handle
    <2>3. CASE Found(t, f) = Null
      BY <1>3, <2>3 DEF Handle, TypeOK
    <2> QED
      BY <2>2, <2>3
  <1>5. /\ attr' = [attr EXCEPT ![t] = SetAttrs(@, r, f, v)]
        /\ at' = [at EXCEPT ![t] = Following(@ + 1, r)]
        /\ load' = load /\ req' = req
        /\ sound' = sound \/ sound' = [sound EXCEPT ![t] = IF portal = "up" THEN @ ELSE "no"]
    BY DEF Handle
  <1>6. \A g, q : Handled(g, q)' = Handled(g, q)
    BY <1>5 DEF Handled
  <1>7. at[t] + 1 \in 1..11
    BY <1>1
  <1>8. Following(at[t] + 1, r) \in 1..11
        /\ \A k \in (at[t] + 1)..(Following(at[t] + 1, r) - 1) : ~Handled(Fragments[k], r)
    BY <1>7, FollowingLemma
  <1> HIDE DEF f, r, v, fetched
  <1>9. /\ at'[t] = Following(at[t] + 1, r) /\ attr'[t] = SetAttrs(attr[t], r, f, v)
        /\ \A s \in Threads \ {t} : at'[s] = at[s] /\ attr'[s] = attr[s] /\ sound'[s] = sound[s]
    BY <1>5 DEF TypeOK
  <1> SUFFICES ASSUME NEW s \in Threads, req[s] # Null, sound'[s] = "yes",
                      NEW i \in 1..(at'[s] - 1), Handled(Fragments[i], req[s])
               PROVE  Shown(attr'[s], Fragments[i], req[s])
    BY <1>5, <1>6 DEF Complete
  <1>10. CASE s = t
    <2>1. attr[t] \in [Names -> Contents \cup {Null, Unset}] /\ v \in Contents \cup {Null, Unset}
          /\ v \notin {Unset, Null} /\ sound[t] = "yes" /\ req[t] = r
      BY <1>2, <1>4, <1>10 DEF TypeOK, r
    <2>2. Shown(attr'[t], f, r) /\ \A g \in Names : Shown(attr[t], g, r) => Shown(attr'[t], g, r)
      <3> DEFINE S == Contents \cup {Null, Unset}
      <3>1. attr[t] \in [Names -> S] /\ v \in S /\ v \notin {Unset, Null}
        BY <2>1
      <3> HIDE DEF S
      <3>2. /\ Shown(SetAttrs(attr[t], r, f, v), f, r)
            /\ \A g \in Names : Shown(attr[t], g, r) => Shown(SetAttrs(attr[t], r, f, v), g, r)
        BY <1>1, <3>1, SetAttrsShows, Zenon
      <3> QED
        BY <1>9, <3>2, Zenon
    <2>3. i \in 1..10 /\ i \notin (at[t] + 1)..(Following(at[t] + 1, r) - 1)
      BY <1>8, <1>9, <1>10, <2>1
    <2>4. CASE i = at[t]
      BY <1>10, <2>1, <2>2, <2>4 DEF f
    <2>5. CASE i # at[t]
      <3>1. i \in 1..(at[t] - 1)
        BY <1>1, <1>8, <1>9, <1>10, <2>3, <2>5
      <3>2. Shown(attr[t], Fragments[i], r)
        BY <1>10, <2>1, <3>1 DEF Complete
      <3>3. Fragments[i] \in Names
        BY <2>3, NamesLemma
      <3> QED
        BY <1>10, <2>1, <2>2, <3>2, <3>3
    <2> QED
      BY <2>4, <2>5
  <1>11. CASE s # t
    BY <1>9, <1>11 DEF Complete
  <1> QED
    BY <1>10, <1>11

(* Whatever failed before and whatever the cache forgot: a page for which  *)
(* every call of the portal was answered has all its fragments.            *)
THEOREM CompleteWhenUpHolds == Spec => []CompleteWhenUp
  <1>1. Init => Complete
    BY DEF Init, Complete
  <1>2. TypeOK /\ Serving /\ Complete /\ [Next]_vars => Complete'
    <2> SUFFICES ASSUME TypeOK, Serving, Complete, [Next]_vars PROVE Complete'
      OBVIOUS
    <2>1. ASSUME NEW t \in Threads, Begin(t) \/ Handle(t) PROVE Complete'
      BY <2>1, BeginComplete, HandleComplete
    <2>2. CASE Expire \/ PortalChanges \/ UNCHANGED vars
      <3>1. load' = load /\ req' = req /\ at' = at /\ attr' = attr /\ sound' = sound
        BY <2>2 DEF Expire, PortalChanges, vars
      <3> QED
        BY <3>1 DEF Complete, Handled
    <2> QED
      BY <2>1, <2>2 DEF Next
  <1>3. TypeOK /\ Complete => CompleteWhenUp
    <2> SUFFICES ASSUME TypeOK, Complete, NEW t \in Threads, Done(t), sound[t] = "yes",
                        NEW f \in Names, Handled(f, req[t])
                 PROVE  Shown(attr[t], f, req[t])
      BY DEF CompleteWhenUp, Shown
    <2>1. PICK i \in 1..10 : f = Fragments[i]
      BY DEF Names
    <2> QED
      BY <2>1 DEF Complete, Done
  <1> QED
    BY <1>1, <1>2, <1>3, PortalTypeCorrect, PTL DEF Spec

-----------------------------------------------------------------------------
(***************************************************************************)
(* CheckParams: what the gateway's check lets through, for any rules,      *)
(* types and bodies.  The loop's invariant: the rules before the current   *)
(* one were obeyed.                                                        *)
(***************************************************************************)
(* The verdict is one of those listed, and a body is accepted at the last  *)
(* rule only.                                                              *)
THEOREM CheckTypeCorrect == CheckSpec => []CheckTypeOK
  <1>1. CheckInit => CheckTypeOK
    BY RuleAttributes DEF CheckInit, CheckTypeOK
  <1>2. CheckTypeOK /\ [CheckNext]_checkVars => CheckTypeOK'
    <2> SUFFICES ASSUME CheckTypeOK, [CheckNext]_checkVars PROVE CheckTypeOK'
      OBVIOUS
    <2>1. CASE UNCHANGED checkVars
      BY <2>1 DEF CheckTypeOK, checkVars
    <2>2. CASE CheckRule
      <3>1. Verdict(atRule) \in {"ok", "missing", "wrongType", "tooLong", "crash"}
        BY DEF Verdict, RuleVerdict, LengthVerdict
      <3> QED
        BY <2>2, <3>1, RuleAttributes DEF CheckRule, CheckTypeOK
    <2> QED
      BY <2>1, <2>2 DEF CheckNext
  <1> QED
    BY <1>1, <1>2, PTL DEF CheckSpec

\* The rules the loop has passed
Passed == IF verdict = "accepted" THEN 1..NRules ELSE 1..(atRule - 1)

Obeyed == \A i \in Passed : Verdict(i) = "ok"

CrashExplained == verdict = "crash" => Verdict(atRule) = "crash"

LEMMA ObeyedHolds == CheckSpec => [](Obeyed /\ CrashExplained)
  <1>1. CheckInit => Obeyed /\ CrashExplained
    BY RuleAttributes DEF CheckInit, Obeyed, CrashExplained, Passed
  <1>2. CheckTypeOK /\ Obeyed /\ CrashExplained /\ [CheckNext]_checkVars => (Obeyed /\ CrashExplained)'
    <2> SUFFICES ASSUME CheckTypeOK, Obeyed, CrashExplained, [CheckNext]_checkVars
                 PROVE  (Obeyed /\ CrashExplained)'
      OBVIOUS
    <2>1. CASE UNCHANGED checkVars
      BY <2>1 DEF checkVars, Obeyed, CrashExplained, Passed, Verdict
    <2>2. CASE CheckRule
      <3> DEFINE v == Verdict(atRule)
      <3>1. /\ rules' = rules /\ body' = body /\ form' = form /\ verdict = "checking"
            /\ atRule \in Nat /\ NRules \in Nat /\ atRule >= 1 /\ atRule <= NRules
        BY <2>2, RuleAttributes DEF CheckRule, CheckTypeOK
      <3>2. CASE v = "ok" /\ atRule < NRules
        BY <2>2, <3>1, <3>2 DEF CheckRule, Obeyed, CrashExplained, Passed, Verdict
      <3>3. CASE v = "ok" /\ ~(atRule < NRules)
        BY <2>2, <3>1, <3>3 DEF CheckRule, Obeyed, CrashExplained, Passed, Verdict
      <3>4. CASE v # "ok"
        <4>1. v # "accepted"
          BY DEF Verdict, RuleVerdict, LengthVerdict
        <4>2. verdict' = v /\ atRule' = atRule
          BY <2>2, <3>4 DEF CheckRule
        <4> QED
          BY <3>1, <4>1, <4>2 DEF Obeyed, CrashExplained, Passed, Verdict
      <3> QED
        BY <3>2, <3>3, <3>4
    <2> QED
      BY <2>1, <2>2 DEF CheckNext
  <1> QED
    BY <1>1, <1>2, CheckTypeCorrect, PTL DEF CheckSpec

\* What one rule lets through
LEMMA RuleLemma ==
  ASSUME NEW rule \in Rules, NEW v \in Values, RuleVerdict(rule, v) = "ok"
  PROVE  /\ rule.isNull = 1 => v.kind # "absent" /\ MandatoryTypeOk(rule.type, v)
         /\ v.kind # "absent" /\ rule.maxLength # NoMaxLength /\ rule.maxLength >= 1 => v.len <= rule.maxLength
  <1>1. rule.isNull = 1 => v.kind # "absent" /\ MandatoryTypeOk(rule.type, v)
    BY DEF RuleVerdict
  <1>2. ASSUME v.kind # "absent" PROVE LengthVerdict(rule, v) = "ok"
    BY <1>2 DEF RuleVerdict, Rules
  <1>3. ASSUME v.kind # "absent", rule.maxLength # NoMaxLength, rule.maxLength >= 1
        PROVE  v.len <= rule.maxLength
    <2>1. rule.maxLength \in Nat
      BY <1>3, RuleAttributes DEF Rules
    <2>2. v.len \in Nat
      <3>1. CASE v \in {Absent, [kind |-> "null", len |-> 4]}
        BY <3>1 DEF Absent
      <3>2. CASE v \in [kind : {"number", "numeric", "text", "boolean", "object"} \cup ArrayKinds,
                        len : Lengths]
        BY <3>2, RuleAttributes
      <3> QED
        BY <3>1, <3>2 DEF Values
    <2> QED
      BY <1>2, <1>3, <2>1, <2>2 DEF LengthVerdict
  <1> QED
    BY <1>1, <1>3

(* Whatever the rules and the body are, a body that is let through is an   *)
(* object that obeys every rule.                                           *)
THEOREM AcceptedConformsHolds == CheckSpec => []AcceptedConforms
  <1>1. CheckTypeOK /\ Obeyed => AcceptedConforms
    <2> SUFFICES ASSUME CheckTypeOK, Obeyed, verdict = "accepted", NEW i \in 1..NRules
                 PROVE  form = "object" /\ LET rule == rules[i]  v == body[i] IN
                          /\ rule.isNull = 1 => v.kind # "absent" /\ MandatoryTypeOk(rule.type, v)
                          /\ v.kind # "absent" /\ rule.maxLength # NoMaxLength /\ rule.maxLength >= 1 =>
                               v.len <= rule.maxLength
      BY RuleAttributes DEF AcceptedConforms
    <2>1. form = "object" /\ RuleVerdict(rules[i], body[i]) = "ok" /\ rules[i] \in Rules /\ body[i] \in Values
      BY DEF CheckTypeOK, Obeyed, Passed, Verdict
    <2> QED
      BY <2>1, RuleLemma
  <1> QED
    BY <1>1, CheckTypeCorrect, ObeyedHolds, PTL

(* As long as all rules are documented ones, no JSON object makes the      *)
(* check fail with an exception of its own.                                *)
THEOREM DocumentedRulesNeverCrashHolds == CheckSpec => []DocumentedRulesNeverCrash
  <1>1. ASSUME NEW rule \in Rules, NEW v \in Values, rule.type \in Documented, rule.maxLength # NoMaxLength
        PROVE  RuleVerdict(rule, v) # "crash"
    <2>1. CASE v.kind = "absent"
      BY <2>1 DEF RuleVerdict
    <2>2. CASE v.kind # "absent" /\ rule.isNull = 1 /\ ~MandatoryTypeOk(rule.type, v)
      BY <2>2 DEF RuleVerdict
    <2>3. CASE v.kind # "absent" /\ rule.isNull = 0 /\ ~OptionalTypeOk(rule.type, v)
      BY <2>3 DEF RuleVerdict
    <2>4. CASE v.kind # "absent" /\ OptionalTypeOk(rule.type, v)
      <3>1. rule.type \in Scalars \/ v.kind \in ArrayKinds
        BY <1>1, <2>4 DEF OptionalTypeOk, MandatoryTypeOk, Documented, Scalars, ArrayKinds
      <3> QED
        BY <1>1, <2>4, <3>1 DEF RuleVerdict, LengthVerdict
    <2>5. MandatoryTypeOk(rule.type, v) => OptionalTypeOk(rule.type, v)
      BY DEF OptionalTypeOk
    <2> QED
      BY <2>1, <2>2, <2>3, <2>4, <2>5 DEF Rules
  <1>2. CheckTypeOK /\ CrashExplained => DocumentedRulesNeverCrash
    BY <1>1 DEF CheckTypeOK, CrashExplained, DocumentedRulesNeverCrash, Verdict
  <1> QED
    BY <1>2, CheckTypeCorrect, ObeyedHolds, PTL
=============================================================================
