--------------------------- MODULE MCPortalCache ---------------------------
(* Traffic for PortalCache: two threads that serve a school's account and  *)
(* one of its pages' readers, and one thread that serves a class page to   *)
(* two sessions, a visitor's and a community's page.                       *)
EXTENDS PortalCache

CONSTANTS t1, t2

Plain == [session |-> "", groupId |-> "", schoolId |-> "", userId |-> "", isOrgFlag |-> "",
          communityId |-> ""]

ClassOfTwo == {[Plain EXCEPT !.session = s, !.groupId = "g"] : s \in {"s1", "s2"}}
Publishing == [Plain EXCEPT !.session = "s1", !.schoolId = "c", !.isOrgFlag = "1"]
Reading == [Plain EXCEPT !.session = "s2", !.schoolId = "c"]
Visiting == [Plain EXCEPT !.session = "s2", !.userId = "u"]
Community == [Plain EXCEPT !.communityId = "m"]

MCThreads == {t1, t2}
MCLoads ==
  {[threads |-> {t1, t2}, requests |-> {Publishing, Reading},
    followed |-> {"school", "zoneHeader", "header"}],
   [threads |-> {t1}, requests |-> ClassOfTwo \cup {Publishing, Visiting, Community},
    followed |-> {"class", "visitor", "visitorFooter", "zoneHeader", "community"}]}
=============================================================================
