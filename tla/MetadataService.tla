-------------------------- MODULE MetadataService --------------------------
(***************************************************************************)
(* What the metadata repository promises whoever calls it: a register for  *)
(* each object that can be superseded (invalidated) at any moment.  A read *)
(* may be refused, but it never returns a version that was superseded      *)
(* before the read began.  A closed service starts no read.                *)
(***************************************************************************)
EXTENDS Naturals

CONSTANTS Lookups, Objects

VARIABLES
  open,      \* are reads accepted?
  current,   \* the version of each object
  reads      \* each reader's read: is it asking, what, since which version,
             \* and what it got (0: nothing)
MSvars == <<open, current, reads>>

Reads == [asking : BOOLEAN, object : Objects, since : Nat, got : Nat]

Refused(o) == [asking |-> FALSE, object |-> o, since |-> 0, got |-> 0]

MSInit ==
  /\ open = TRUE
  /\ current = [o \in Objects |-> 1]
  /\ \E o \in Objects :
       reads = [l \in Lookups |-> Refused(o)]

Got(o, s, v) == [asking |-> FALSE, object |-> o, since |-> s, got |-> v]

\* A read that cannot even start is refused at once.
Ask(l, o) ==
  /\ open /\ ~reads[l].asking
  /\ \E read \in {Refused(o), [asking |-> TRUE, object |-> o,
                              since |-> current[o], got |-> 0]} :
       reads' = [reads EXCEPT ![l] = read]
  /\ UNCHANGED <<open, current>>

Return(l) ==
  /\ reads[l].asking
  /\ \E v \in reads[l].since .. current[reads[l].object] :
       reads' = [reads EXCEPT ![l] = Got(@.object, @.since, v)]
  /\ UNCHANGED <<open, current>>

Refuse(l) ==
  /\ reads[l].asking
  /\ reads' = [reads EXCEPT ![l] = Refused(reads[l].object)]
  /\ UNCHANGED <<open, current>>

Supersede(S) ==
  /\ current' = [o \in Objects |-> IF o \in S THEN current[o] + 1 ELSE current[o]]
  /\ UNCHANGED <<open, reads>>

Close ==
  /\ open' = FALSE
  /\ UNCHANGED <<current, reads>>

MSNext ==
  \/ \E l \in Lookups : \/ \E o \in Objects : Ask(l, o)
                        \/ Return(l) \/ Refuse(l)
  \/ \E S \in SUBSET Objects : Supersede(S)
  \/ Close

MSSpec == MSInit /\ [][MSNext]_MSvars
=============================================================================
