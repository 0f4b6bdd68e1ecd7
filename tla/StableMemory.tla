---------------------------- MODULE StableMemory ----------------------------
(***************************************************************************)
(* What the private Hive memory promises, with no database, ledger file,   *)
(* backup tool or crash in sight.  A claim is kept from the moment it is   *)
(* recorded until the owner erases it or acknowledges a gap; an erased     *)
(* claim never returns; a reader is answered from exactly the claims that  *)
(* are kept or is told "unknown", never from a subset of them.  A loss of  *)
(* the ledger falls back to the newest verified backup, and to nothing     *)
(* older.                                                                  *)
(***************************************************************************)
CONSTANT Claims

VARIABLES kept,     \* the claims the memory holds
          erased,   \* the claims purged for good
          saved,    \* [kept, erased] of the newest verified backup
          serving   \* {} while readers are told "unknown", else the one set they are
          \* answered from

vars == <<kept, erased, saved, serving>>

Answers == serving' \in {{}, {kept'}}

Init == /\ kept = {}
        /\ erased = {}
        /\ saved = [kept |-> {}, erased |-> {}]
        /\ serving = {}

\* Claims are recorded: one submit, or the claims a migration brings.
Record(S) == /\ S \subseteq Claims \ erased
             /\ kept' = kept \cup S
             /\ Answers
             /\ UNCHANGED <<erased, saved>>

\* A purge, by the owner or by retention.
Erase(S) == /\ kept' = kept \ S
            /\ erased' = erased \cup S
            /\ Answers
            /\ UNCHANGED saved

\* The operator names the last ledger number to accept the loss of G; what
\* retention owes by then is purged with it.
Forget(G, S) == /\ G \subseteq kept
                /\ kept' = kept \ (G \cup S)
                /\ erased' = erased \cup S
                /\ Answers
                /\ UNCHANGED saved

\* The service opens on, or closes to, its readers.
Answer == Answers /\ UNCHANGED <<kept, erased, saved>>

\* A backup is verified.  It may be older than the present, but it knows no
\* erasure that was not made and forgets none that an earlier backup knew.
Save == /\ saved' \in [kept: SUBSET Claims, erased: SUBSET Claims]
        /\ saved.erased \subseteq saved'.erased
        /\ saved'.erased \subseteq erased
        /\ UNCHANGED <<kept, erased, serving>>

\* The ledger is lost: what remains is the newest verified backup.
Lose == /\ kept' = saved.kept
        /\ erased' = saved.erased
        /\ serving' = {}
        /\ UNCHANGED saved

Next == \/ \E S \in SUBSET Claims : Record(S) \/ Erase(S)
        \/ \E G, S \in SUBSET Claims : Forget(G, S)
        \/ Answer \/ Save \/ Lose

Spec == Init /\ [][Next]_vars

=============================================================================
