---- MODULE MCWakeWatch ----
\* Two envelopes or mentions, two relays.
EXTENDS WakeWatch
CONSTANTS e1, e2, r1, r2

\* The grant on one relay only, ended on the other, or never made.
Policies3 == {[r \in Relays |-> IF r = r1 THEN {"grant"} ELSE s] : s \in {{}, {"end"}}}
               \cup {[r \in Relays |-> {}]}
NoTrouble == [e \in Ears |-> 0]
====
