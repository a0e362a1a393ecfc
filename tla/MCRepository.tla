---------------------------- MODULE MCRepository ----------------------------
(***************************************************************************)
(* The metadata repository for TLC.  A behaviour is about one workload,    *)
(* which says what is asked for, by whom, whether callers give up, how     *)
(* often objects are invalidated in all, and whether the repository is     *)
(* retired: each kind of race is explored in full, and not all of them at  *)
(* once.                                                                   *)
(***************************************************************************)
EXTENDS RepositoryProperties

CONSTANTS fun, tab, alice, bob, carol

Modes3 == [p \in Principals |->
             CASE p = alice -> "auto" [] p = bob -> "optimizedOnly" [] OTHER -> "classic"]

VARIABLE workload

Workload == [lookups |-> Lookups, objects |-> {fun}, principals |-> {alice},
             aborts |-> FALSE, invalidations |-> 0, retires |-> FALSE]
Workloads == {
  \* a load shared or not by two calls, under an invalidation
  [Workload EXCEPT !.principals = {bob}, !.invalidations = 1],
  \* callers that give up and a retirement
  [Workload EXCEPT !.principals = {bob}, !.aborts = TRUE, !.retires = TRUE],
  \* two principals with different rights, one of which may fall back
  [Workload EXCEPT !.principals = {alice, carol}],
  \* two objects in a table of one epoch
  [Workload EXCEPT !.lookups = {CHOOSE l \in Lookups : TRUE}, !.objects = {fun, tab},
                   !.principals = {alice, carol}, !.invalidations = 1],
  \* all of it for one call and one object
  [Workload EXCEPT !.lookups = {CHOOSE l \in Lookups : TRUE},
                   !.invalidations = 1, !.aborts = TRUE, !.retires = TRUE]}

Within ==
  /\ \A l \in Lookups : Active(look[l]) =>
       /\ l \in workload.lookups /\ look[l].object \in workload.objects
       /\ look[l].principal \in workload.principals
  /\ ~workload.aborts => \A l \in Lookups : look[l].answer # "canceled"
  /\ \A o \in Objects :
       version[o] - 1 <= IF o \in workload.objects THEN workload.invalidations ELSE sweeps
  /\ state = "retired" => workload.retires

MCInit == workload \in Workloads /\ Init
MCNext == Next /\ UNCHANGED workload /\ Within'
MCSpec == MCInit /\ [][MCNext]_<<vars, workload>> /\ Fairness
=============================================================================
