-------------------------- MODULE HiveStore_proofs --------------------------
(***************************************************************************)
(* That the store of the Hive memory is the StableMemory it promises to    *)
(* be, and keeps every claim a writer was told is accepted: for every set  *)
(* of claims, however often and wherever a holder of the store stops, an   *)
(* append fails or is cut short, a file or the host is lost, backups and   *)
(* restores overlap.  Only an old database copied in by hand is left out.  *)
(*                                                                         *)
(* The ledger decides: it only grows, by lines that a commit staged, until *)
(* it is lost; then the newest verified backup stands for it, which was a  *)
(* prefix of it and is never ahead of the database.                        *)
(***************************************************************************)
EXTENDS HiveStore, HiveService, SequenceTheorems, TLAPS

\* No old database is copied over the one in use; a migration brings claims.
NoHandCopy == "copy" \notin Losses /\ Imports \subseteq Claims

-----------------------------------------------------------------------------
(* The operators of the ledger *)

Dropping(T) == \A i \in DOMAIN T : T[i].op \in {"purge", "gap"}
Under(s, t) == Len(s) <= Len(t) /\ \A i \in 1..Len(s) : s[i] = t[i]

\* What a line adds, and the claims a list of drops names.
Gains(l) == IF l.op \in {"submit", "cutover"} THEN l.ids ELSE {}
Gaps(T) == UNION {T[i].ids : i \in {j \in DOMAIN T : T[j].op = "gap"}}

LEMMA Folds ==
  ASSUME NEW L \in Seq(Line)
  PROVE  /\ Expected(L) \subseteq Claims /\ Purged(L) \subseteq Claims /\ Gaps(L) \subseteq Claims
         /\ DOMAIN L = 1..Len(L) /\ Len(L) \in Nat /\ \A i \in 1..Len(L) : L[i] \in Line
<1>1. DOMAIN L = 1..Len(L) /\ Len(L) \in Nat /\ \A i \in 1..Len(L) : L[i] \in Line
  OBVIOUS
<1>2. \A i \in DOMAIN L : L[i].ids \subseteq Claims
  BY <1>1 DEF Line
<1>3. Expected(L) \subseteq Claims
  BY DEF Expected
<1>4. Purged(L) \subseteq Claims /\ Gaps(L) \subseteq Claims
  BY <1>2 DEF Purged, Gaps
<1>5. QED
  BY <1>1, <1>3, <1>4

LEMMA EmptyFolds == Expected(<<>>) = {} /\ Purged(<<>>) = {}
BY DEF Expected, Purged

LEMMA Concat ==
  ASSUME NEW L \in Seq(Line), NEW T \in Seq(Line)
  PROVE  /\ L \o T \in Seq(Line) /\ Len(L \o T) = Len(L) + Len(T)
         /\ DOMAIN (L \o T) = 1 .. Len(L) + Len(T)
         /\ \A i \in 1..Len(L) : (L \o T)[i] = L[i]
         /\ \A i \in 1..Len(T) : (L \o T)[Len(L) + i] = T[i]
         /\ \A i \in 1 .. Len(L) + Len(T) : i \in 1..Len(L) \/ i - Len(L) \in 1..Len(T)
OBVIOUS

\* Dropped lines take their claims out of what is expected for good.
LEMMA FoldDrops ==
  ASSUME NEW L \in Seq(Line), NEW T \in Seq(Line), Dropping(T)
  PROVE  /\ Expected(L \o T) = Expected(L) \ (Purged(T) \cup Gaps(T))
         /\ Purged(L \o T) = Purged(L) \cup Purged(T)
         /\ Released(T) = Purged(T) \cup Gaps(T)
<1> DEFINE M == L \o T
<1>1. /\ DOMAIN M = 1 .. Len(L) + Len(T) /\ DOMAIN L = 1..Len(L) /\ DOMAIN T = 1..Len(T)
      /\ \A i \in 1..Len(L) : M[i] = L[i]
      /\ \A i \in 1..Len(T) : M[Len(L) + i] = T[i]
      /\ Len(L) \in Nat /\ Len(T) \in Nat
  BY Concat
<1>2. \A i \in DOMAIN M : i \in 1..Len(L) \/ (i - Len(L) \in 1..Len(T) /\ M[i] = T[i - Len(L)])
  <2> TAKE i \in DOMAIN M
  <2>1. i \in 1..Len(L) \/ i - Len(L) \in 1..Len(T)
    BY <1>1
  <2>2. i - Len(L) \in 1..Len(T) => Len(L) + (i - Len(L)) = i
    BY <1>1
  <2>3. QED
    BY <1>1, <2>1, <2>2
<1> HIDE DEF M
<1>3. Purged(M) = Purged(L) \cup Purged(T)
  <2>1. ASSUME NEW c \in Purged(M)
        PROVE  c \in Purged(L) \cup Purged(T)
    BY <1>1, <1>2, <2>1 DEF Purged
  <2>2. Purged(L) \subseteq Purged(M)
    <3>1. \A i \in DOMAIN L : i \in DOMAIN M /\ M[i] = L[i]
      BY <1>1
    <3>2. QED
      BY <3>1 DEF Purged
  <2>3. Purged(T) \subseteq Purged(M)
    <3>1. \A i \in DOMAIN T : Len(L) + i \in DOMAIN M /\ M[Len(L) + i] = T[i]
      BY <1>1
    <3>2. QED
      BY <3>1 DEF Purged
  <2>4. QED
    BY <2>1, <2>2, <2>3
<1>4. \A c : c \in Purged(T) \cup Gaps(T) <=> \E i \in DOMAIN T : c \in T[i].ids
  BY DEF Purged, Gaps, Dropping
<1>5. ASSUME NEW c \in Expected(M)
      PROVE  c \in Expected(L) \ (Purged(T) \cup Gaps(T))
  <2>1. PICK i \in DOMAIN M : Adds(M[i], c) /\ \A j \in DOMAIN M : j > i => ~Drops(M[j], c)
    BY <1>5 DEF Expected
  <2>2. i \in 1..Len(L)
    BY <1>1, <1>2, <2>1 DEF Dropping, Adds
  <2>3. c \in Expected(L)
    BY <1>1, <1>5, <2>1, <2>2 DEF Expected
  <2>4. ASSUME NEW k \in DOMAIN T, c \in T[k].ids
        PROVE  FALSE
    <3>1. Len(L) + k \in DOMAIN M /\ Len(L) + k > i /\ M[Len(L) + k] = T[k]
      BY <1>1, <2>2
    <3>2. Drops(T[k], c)
      BY <2>4 DEF Drops, Dropping
    <3>3. QED
      BY <2>1, <3>1, <3>2
  <2>5. QED
    BY <1>4, <2>3, <2>4
<1>6. ASSUME NEW c \in Expected(L), \A i \in DOMAIN T : c \notin T[i].ids
      PROVE  c \in Expected(M)
  <2>1. PICK i \in DOMAIN L : Adds(L[i], c) /\ \A j \in DOMAIN L : j > i => ~Drops(L[j], c)
    BY <1>6 DEF Expected
  <2>2. i \in DOMAIN M /\ Adds(M[i], c)
    BY <1>1, <2>1
  <2>3. ASSUME NEW j \in DOMAIN M, j > i
        PROVE  ~Drops(M[j], c)
    <3>1. CASE j \in 1..Len(L)
      BY <1>1, <2>1, <2>3, <3>1
    <3>2. CASE j - Len(L) \in 1..Len(T) /\ M[j] = T[j - Len(L)]
      BY <1>1, <1>6, <3>2 DEF Drops
    <3>3. QED
      BY <1>2, <3>1, <3>2
  <2>4. QED
    BY <1>6, <2>2, <2>3 DEF Expected
<1>7. Expected(M) = Expected(L) \ (Purged(T) \cup Gaps(T))
  BY <1>4, <1>5, <1>6
<1>8. Released(T) = Purged(T) \cup Gaps(T)
  BY DEF Released, Purged, Gaps
<1>9. QED
  BY <1>3, <1>7, <1>8 DEF M

LEMMA OneLine ==
  ASSUME NEW A \in Seq(Line), A # <<>>, Len(A) <= 1
  PROVE  Len(A) = 1 /\ A = <<A[1]>>
<1>1. Len(A) = 1
  <2>1. Len(A) \in Nat \ {0}
    BY EmptySeq
  <2>2. QED
    BY <2>1
<1>2. QED
  BY <1>1

\* A line that drops nothing adds its claims and takes none away.
LEMMA FoldAdd ==
  ASSUME NEW L \in Seq(Line), NEW l \in Line, l.op \notin {"purge", "gap"}
  PROVE  /\ Expected(L \o <<l>>) = Expected(L) \cup Gains(l)
         /\ Purged(L \o <<l>>) = Purged(L)
         /\ Released(<<l>>) = {}
<1> DEFINE M == L \o <<l>>
<1>1. /\ DOMAIN M = 1 .. Len(L) + 1 /\ DOMAIN L = 1..Len(L) /\ Len(L) \in Nat
      /\ \A i \in 1..Len(L) : M[i] = L[i]
      /\ M[Len(L) + 1] = l
  OBVIOUS
<1>2. \A i \in DOMAIN M : i \in 1..Len(L) \/ i = Len(L) + 1
  BY <1>1
<1>3. Released(<<l>>) = {}
  BY DEF Released
<1> HIDE DEF M
<1>4. Purged(M) = Purged(L)
  <2>1. Purged(M) \subseteq Purged(L)
    BY <1>1, <1>2 DEF Purged
  <2>2. Purged(L) \subseteq Purged(M)
    BY <1>1 DEF Purged
  <2>3. QED
    BY <2>1, <2>2
<1>5. ASSUME NEW c \in Expected(M)
      PROVE  c \in Expected(L) \cup Gains(l)
  <2>1. PICK i \in DOMAIN M : Adds(M[i], c) /\ \A j \in DOMAIN M : j > i => ~Drops(M[j], c)
    BY <1>5 DEF Expected
  <2>2. CASE i \in 1..Len(L)
    BY <1>1, <1>5, <2>1, <2>2 DEF Expected
  <2>3. CASE i = Len(L) + 1
    BY <1>1, <2>1, <2>3 DEF Adds, Gains
  <2>4. QED
    BY <1>2, <2>2, <2>3
<1>6. Expected(L) \subseteq Expected(M)
  <2> SUFFICES ASSUME NEW c \in Expected(L)
               PROVE  c \in Expected(M)
    OBVIOUS
  <2>1. PICK i \in DOMAIN L : Adds(L[i], c) /\ \A j \in DOMAIN L : j > i => ~Drops(L[j], c)
    BY DEF Expected
  <2>2. i \in DOMAIN M /\ Adds(M[i], c)
    BY <1>1, <2>1
  <2>3. \A j \in DOMAIN M : j > i => ~Drops(M[j], c)
    BY <1>1, <1>2, <2>1 DEF Drops
  <2>4. QED
    BY <2>2, <2>3 DEF Expected
<1>7. Gains(l) \subseteq Expected(M)
  <2> SUFFICES ASSUME NEW c \in Gains(l)
               PROVE  c \in Expected(M)
    OBVIOUS
  <2>1. c \in Claims /\ Adds(l, c)
    BY DEF Gains, Adds, Line
  <2>2. \A j \in DOMAIN M : ~(j > Len(L) + 1)
    BY <1>1
  <2>3. QED
    BY <1>1, <2>1, <2>2 DEF Expected
<1>8. QED
  BY <1>3, <1>4, <1>5, <1>6, <1>7 DEF M

-----------------------------------------------------------------------------
(* Prefixes *)

LEMMA UnderPurged ==
  ASSUME NEW s \in Seq(Line), NEW t \in Seq(Line), Under(s, t)
  PROVE  Purged(s) \subseteq Purged(t)
<1>1. /\ DOMAIN s = 1..Len(s) /\ DOMAIN t = 1..Len(t) /\ Len(s) \in Nat /\ Len(t) \in Nat
  OBVIOUS
<1>2. \A i \in DOMAIN s : i \in DOMAIN t /\ t[i] = s[i]
  BY <1>1 DEF Under
<1>3. QED
  BY <1>2 DEF Purged

LEMMA UnderGrows ==
  ASSUME NEW s \in Seq(Line), NEW t \in Seq(Line), NEW T \in Seq(Line), Under(s, t)
  PROVE  Under(s, t \o T)
BY Concat DEF Under

LEMMA UnderBoth ==
  ASSUME NEW s \in Seq(Line), NEW t \in Seq(Line), NEW u \in Seq(Line),
         Under(s, u), Under(t, u), Len(s) <= Len(t)
  PROVE  Under(s, t)
BY DEF Under

LEMMA UnderItself == \A s \in Seq(Line) : Under(s, s) /\ Under(<<>>, s)
BY DEF Under

LEMMA UnderPrefix ==
  ASSUME NEW s \in Seq(Line), NEW t \in Seq(Line), IsPrefixOf(s, t)
  PROVE  Under(s, t)
<1>1. Len(s) <= Len(t) /\ s = SubSeq(t, 1, Len(s)) /\ Len(s) \in Nat /\ Len(t) \in Nat
  BY DEF IsPrefixOf
<1>2. \A i \in 1..Len(s) : SubSeq(t, 1, Len(s))[i] = t[i]
  BY <1>1
<1>3. QED
  BY <1>1, <1>2 DEF Under

LEMMA UnderCut ==
  ASSUME NEW L \in Seq(Line), NEW k \in 0..Len(L)
  PROVE  LET C == SubSeq(L, 1, k) IN
         C \in Seq(Line) /\ Len(C) = k /\ Under(C, L) /\ \A i \in 1..k : C[i] = L[i]
BY DEF Under

\* One line, or lines that all drop: what a commit stages.  Cutting it short
\* leaves nothing of the one, and drops of the others.
Staging(T) == Len(T) = 1 \/ Dropping(T)

LEMMA StagingCut ==
  ASSUME NEW T \in Seq(Line), NEW m \in 1 .. Len(T) + 1, NEW n \in 0..Len(T)
  PROVE  LET R == SubSeq(T, m, n) IN
         /\ R \in Seq(Line) /\ Len(R) = (IF m <= n THEN n - m + 1 ELSE 0)
         /\ (Dropping(T) => Dropping(R))
         /\ (Len(T) = 1 => R \in {<<>>, T})
<1> DEFINE R == SubSeq(T, m, n)
<1>1. R \in Seq(Line) /\ Len(R) = (IF m <= n THEN n - m + 1 ELSE 0)
  OBVIOUS
<1>2. \A i \in 1..Len(R) : R[i] = T[m + i - 1] /\ m + i - 1 \in 1..Len(T)
  BY <1>1
<1>3. DOMAIN R = 1..Len(R) /\ DOMAIN T = 1..Len(T)
  BY <1>1
<1> HIDE DEF R
<1>4. Dropping(T) => Dropping(R)
  BY <1>2, <1>3 DEF Dropping
<1>5. Len(T) = 1 => R \in {<<>>, T}
  <2> SUFFICES ASSUME Len(T) = 1
               PROVE  R \in {<<>>, T}
    OBVIOUS
  <2>1. CASE Len(R) = 0
    BY <1>1, <2>1
  <2>2. CASE Len(R) # 0
    <3>1. m = 1 /\ n = 1 /\ Len(R) = 1
      BY <1>1, <2>2
    <3>2. R[1] = T[1]
      BY <1>2, <3>1
    <3>3. QED
      BY <1>1, <3>1, <3>2
  <2>3. QED
    BY <2>1, <2>2
<1>6. QED
  BY <1>1, <1>4, <1>5 DEF R

-----------------------------------------------------------------------------
(* The inductive invariant *)

Lines == ledger.lines

\* A database: absent, or with a staged list that has not been emptied.
IsDb(D) ==
  /\ DOMAIN D = {"rows", "seq", "pend", "pseq"}
  /\ Ids(D) \subseteq Claims /\ D.seq \in Nat /\ D.pend \in Seq(Line)
  /\ D = Absent \/ (D.seq > 0 /\ Staging(D.pend))

\* A verified backup: a database, and a ledger that is not empty.
IsCopy(b) == IsDb(b.db) /\ b.db.seq > 0 /\ b.cut \in Seq(Line) /\ b.cut # <<>>

IsLedger(l) == DOMAIN l = {"lines", "torn"} /\ l.lines \in Seq(Line)

Typed ==
  /\ IsLedger(ledger) /\ IsDb(db) /\ todo \in Seq(Line)
  /\ (\E S : repo \in Seq(S)) /\ \A i \in DOMAIN repo : IsCopy(repo[i])
  /\ DOMAIN backup = {"pc", "at", "db", "cut", "purge"}
  /\ backup.pc \in {"cut", "verify"} => IsDb(backup.db) /\ backup.db.seq > 0
  /\ backup.pc = "verify" => backup.cut \in Seq(Line) /\ backup.cut # <<>>

\* Every ledger there is, lost or kept, begins with the same line, and a
\* database of one commit staged that one.
GenesisOf(D, g) == D.seq = 1 => D.pend = <<g>>
GenesisIs(g) ==
  /\ GenesisOf(db, g)
  /\ Lines # <<>> => Lines[1] = g
  /\ \A i \in DOMAIN repo : GenesisOf(repo[i].db, g) /\ repo[i].cut[1] = g
  /\ backup.pc \in {"cut", "verify"} => GenesisOf(backup.db, g)
  /\ backup.pc = "verify" => backup.cut[1] = g
OneGenesis == \E g : GenesisIs(g)

\* The authority is behind the ledger, and both are behind the database.
Behind ==
  /\ Lines # <<>> => Under(Authority, Lines)
  /\ db # Absent => Len(Lines) <= db.seq /\ Len(Authority) <= db.seq

\* So is a backup in progress, and it is ahead of the one before it.
Backing ==
  /\ backup.pc # "idle" => db # Absent
  /\ backup.pc = "cut" => Len(Authority) <= backup.db.seq
  /\ backup.pc = "verify" => Len(Authority) <= Len(backup.cut) /\ Under(backup.cut, Lines)

\* What the database holds is what ledger L says.
Agrees(L) == /\ L # <<>> /\ Ids(db) = Expected(L) /\ db.seq = Len(L) /\ barred = Purged(L)

\* What each holder of the store has staged.
HeldBy(h) ==
  CASE h = "daemon"  -> /\ state = "READY" /\ Lines # <<>>
                        /\ Len(todo) = 1 /\ todo[1].op = "submit"
                        /\ todo[1].ids \cap Purged(Lines) = {}
                        /\ Agrees(Lines \o todo)
    [] h = "genesis" -> /\ Lines = <<>> /\ repo = <<>> /\ db.seq = 1 /\ todo = db.pend
                        /\ todo[1].op \in {"init", "cutover"}
                        /\ todo[1].op = "init" => todo[1].ids = {}
    [] OTHER         -> h \in {"purge", "restore"} /\ Lines # <<>> /\ Dropping(todo)

Holding ==
  IF todo = <<>>
    THEN holder \in {"daemon", "purge"} /\ state = "READY" => ~ledger.torn /\ Agrees(Lines)
    ELSE ~ledger.torn /\ db.seq = Len(Lines) + Len(todo) /\ HeldBy(holder)

Inv == Typed /\ OneGenesis /\ Behind /\ Backing /\ Holding /\ ToldIsKept

-----------------------------------------------------------------------------
(* Reconciliation *)

LEMMA AuthorityType ==
  ASSUME Typed
  PROVE  /\ Authority \in Seq(Line) /\ Len(Authority) \in Nat
         /\ repo # <<>> => Authority # <<>> /\ \E i \in DOMAIN repo : Authority = repo[i].cut
         /\ repo = <<>> => Authority = <<>>
<1>1. CASE repo = <<>>
  BY <1>1 DEF Authority
<1>2. CASE repo # <<>>
  <2>1. Len(repo) \in DOMAIN repo
    BY <1>2 DEF Typed
  <2>2. IsCopy(repo[Len(repo)]) /\ Authority = repo[Len(repo)].cut
    BY <1>2, <2>1 DEF Typed, Authority
  <2>3. QED
    BY <1>2, <2>1, <2>2 DEF IsCopy
<1>3. QED
  BY <1>1, <1>2

LEMMA KeptType ==
  ASSUME Typed
  PROVE  Kept \in Seq(Line) /\ Lines \in Seq(Line)
BY AuthorityType DEF Typed, IsLedger, Kept, Lines

\* What is replayed continues the ledger to where the database is.
LEMMA ReplayMeans ==
  ASSUME NEW D, IsDb(D), NEW L \in Seq(Line), NEW R, R = Replay(D, L)
  PROVE  /\ R \in Seq(Line)
         /\ R # <<>> =>
              /\ Len(L) + Len(R) = D.seq
              /\ WellShaped(L \o R)
              /\ Expected(L \o R) = Ids(D) /\ Ids(D) \cap Purged(L \o R) = {}
              /\ Dropping(R) \/ (Len(R) = 1 /\ R = D.pend)
              /\ L = <<>> => R = D.pend
<1>1. CASE R = <<>>
  BY <1>1
<1>2. CASE R # <<>>
  <2> DEFINE ahead == D.seq - Len(L)
             landed == Len(D.pend) - ahead
  <2>1. /\ ahead > 0 /\ landed >= 0 /\ landed <= Len(L)
        /\ R = SubSeq(D.pend, landed + 1, Len(D.pend))
        /\ WellShaped(L \o R) /\ Expected(L \o R) = Ids(D) /\ Ids(D) \cap Purged(L \o R) = {}
    BY <1>2 DEF Replay
  <2>2. /\ D.pend \in Seq(Line) /\ D.seq \in Nat /\ Len(L) \in Nat /\ Len(D.pend) \in Nat
        /\ Staging(D.pend) \/ D = Absent
    BY DEF IsDb
  <2>3. D # Absent
    BY <2>1, <2>2 DEF Absent
  <2>4. PICK P \in Seq(Line) : P = D.pend
    BY <2>2
  <2>5. PICK m \in 1 .. Len(P) + 1 : m = Len(P) - (D.seq - Len(L)) + 1
    BY <2>1, <2>2, <2>4
  <2> HIDE DEF ahead, landed
  <2>a. Len(P) \in 0..Len(P)
    BY <2>4
  <2>b. R = SubSeq(P, m, Len(P))
    BY <2>1, <2>4, <2>5 DEF ahead, landed
  <2>6. /\ R \in Seq(Line) /\ Len(R) = (IF m <= Len(P) THEN Len(P) - m + 1 ELSE 0)
        /\ (Dropping(P) => Dropping(R))
        /\ (Len(P) = 1 => R \in {<<>>, P})
    BY <2>a, <2>b, StagingCut
  <2>7. Len(R) = D.seq - Len(L)
    BY <2>1, <2>2, <2>4, <2>5, <2>6 DEF ahead
  <2>8. Len(L) + Len(R) = D.seq
    BY <2>2, <2>7
  <2>9. Dropping(R) \/ (Len(R) = 1 /\ R = D.pend)
    BY <1>2, <2>2, <2>3, <2>4, <2>6 DEF Staging
  <2>10. L = <<>> => R = D.pend
    <3>1. L = <<>> => m = 1
      BY <2>1, <2>2, <2>4, <2>5 DEF ahead, landed
    <3>2. SubSeq(P, 1, Len(P)) = P
      BY <2>4
    <3>3. QED
      BY <2>4, <2>b, <3>1, <3>2
  <2>11. QED
    BY <2>1, <2>6, <2>8, <2>9, <2>10
<1>3. QED
  BY <1>1, <1>2

LEMMA ReadyMeans ==
  ASSUME NEW D, IsDb(D), NEW L \in Seq(Line), NEW R, R = Replay(D, L), Verdict(D, L) = "READY"
  PROVE  L \o R # <<>> /\ Ids(D) = Expected(L \o R) /\ D.seq = Len(L \o R)
<1>1. R \in Seq(Line) /\ D.seq \in Nat
  BY ReplayMeans DEF IsDb
<1>2. Len(L \o R) \in Nat
  BY <1>1
<1>3. PICK full : full = L \o R
  OBVIOUS
<1>4. /\ full # <<>> /\ ~(D.seq > Len(full)) /\ ~(D.seq < Len(full))
      /\ Expected(full) \ Ids(D) = {} /\ Ids(D) \ Expected(full) = {}
  BY <1>3 DEF Verdict
<1>5. D.seq = Len(full) /\ Ids(D) = Expected(full)
  BY <1>1, <1>2, <1>3, <1>4
<1>6. QED
  BY <1>3, <1>4, <1>5

-----------------------------------------------------------------------------
(* The ledger grows *)

\* The lines that may be added: drops, or one line of claims that were never
\* purged; the first line of all is the one the database has staged.
Fit(T) ==
  \/ T = <<>>
  \/ Lines # <<>> /\ Dropping(T)
  \/ /\ Lines # <<>> /\ Len(T) = 1 /\ T[1].op \notin {"purge", "gap"}
     /\ T[1].ids \cap Purged(Lines) = {}
  \/ Lines = <<>> /\ T = db.pend /\ db.seq = 1 /\ T[1].op \notin {"purge", "gap"}

Grows(T) ==
  /\ Fit(T) /\ (T # <<>> => Len(Lines) + Len(T) <= db.seq)
  /\ ledger'.lines = Lines \o T
  /\ UNCHANGED <<db, repo, backup>>

\* What is kept grows by the same lines, unless the authority that stood for a
\* lost ledger was already the line it begins with again.
KeptGrows(T) ==
  \/ Kept' = Kept \o T /\ Dropping(T)
  \/ /\ Len(T) = 1 /\ T = <<T[1]>> /\ T[1] \in Line /\ T[1].op \notin {"purge", "gap"}
     /\ \/ Kept' = Kept \o T /\ T[1].ids \cap Purged(Kept) = {}
        \/ Kept' = Kept /\ Kept = T

\* An authority that is one line long is the line a database of one commit staged.
LEMMA FirstAuthority ==
  ASSUME Typed, OneGenesis, Behind, db # Absent, db.seq = 1
  PROVE  Len(db.pend) = 1 /\ Authority \in {<<>>, db.pend}
<1>1. PICK g : GenesisIs(g)
  BY DEF OneGenesis
<1>2. db.pend = <<g>>
  BY <1>1 DEF GenesisIs, GenesisOf
<1>3. CASE repo = <<>>
  BY <1>2, <1>3, AuthorityType
<1>4. CASE repo # <<>>
  <2>1. PICK A \in Seq(Line) : A = Authority
    BY AuthorityType
  <2>2. A # <<>> /\ A[1] = g
    BY <1>1, <1>4, <2>1, AuthorityType DEF GenesisIs
  <2>3. Len(A) <= 1
    BY <2>1 DEF Behind
  <2>a. A = <<A[1]>>
    BY <2>2, <2>3, OneLine
  <2>4. A = <<g>>
    BY <2>2, <2>a
  <2>5. QED
    BY <1>2, <2>1, <2>4
<1>5. QED
  BY <1>3, <1>4

LEMMA KeptGrowsToo ==
  ASSUME Typed, OneGenesis, Behind, NEW T \in Seq(Line), Grows(T)
  PROVE  KeptGrows(T)
<1>1. PICK L \in Seq(Line) : L = Lines
  BY KeptType
<1>2. PICK A \in Seq(Line) : A = Authority
  BY AuthorityType
<1>3. Authority' = A /\ Lines' = L \o T
  BY <1>1, <1>2 DEF Grows, Authority, Lines
<1>4. Kept = (IF L = <<>> THEN A ELSE L) /\ Kept' = (IF L \o T = <<>> THEN A ELSE L \o T)
  BY <1>1, <1>2, <1>3 DEF Kept, Lines
<1>5. CASE T = <<>>
  <2>1. L \o T = L /\ A \o T = A /\ Dropping(T)
    BY <1>5 DEF Dropping
  <2>2. QED
    BY <1>4, <2>1 DEF KeptGrows
<1>6. CASE L # <<>> /\ Dropping(T)
  <2>1. L \o T # <<>>
    BY <1>6
  <2>2. QED
    BY <1>4, <1>6, <2>1 DEF KeptGrows
<1>7. CASE /\ L # <<>> /\ Len(T) = 1 /\ T[1].op \notin {"purge", "gap"}
           /\ T[1].ids \cap Purged(L) = {}
  <2>1. L \o T # <<>> /\ T = <<T[1]>> /\ T[1] \in Line
    BY <1>7
  <2>2. QED
    BY <1>4, <1>7, <2>1 DEF KeptGrows
<1>8. CASE L = <<>> /\ T # <<>> /\ T = db.pend /\ db.seq = 1 /\ T[1].op \notin {"purge", "gap"}
  <2>1. db # Absent
    BY <1>8 DEF Absent
  <2>2. Len(T) = 1 /\ A \in {<<>>, T}
    BY <1>2, <1>8, <2>1, FirstAuthority
  <2>3. L \o T = T /\ T = <<T[1]>> /\ T[1] \in Line /\ A \o T = (IF A = <<>> THEN T ELSE A \o T)
    BY <1>8, <2>2
  <2>4. CASE A = <<>>
    BY <1>4, <1>8, <2>2, <2>3, <2>4, EmptyFolds DEF KeptGrows
  <2>5. CASE A = T
    BY <1>4, <1>8, <2>2, <2>3, <2>5 DEF KeptGrows
  <2>6. QED
    BY <2>2, <2>4, <2>5
<1>9. QED
  BY <1>1, <1>5, <1>6, <1>7, <1>8 DEF Grows, Fit

\* What is promised: claims leave with the lines that release them, and a line
\* of claims brings its own.
LEMMA ToldGrows ==
  ASSUME Typed, NEW T \in Seq(Line), KeptGrows(T), told \subseteq Expected(Kept)
  PROVE  /\ told \ Released(T) \subseteq Expected(Kept')
         /\ ~Dropping(T) => Gains(T[1]) \subseteq Expected(Kept')
<1>1. PICK K \in Seq(Line) : K = Kept
  BY KeptType
<1>2. CASE Kept' = K \o T /\ Dropping(T)
  BY <1>1, <1>2, FoldDrops
<1>3. CASE /\ Len(T) = 1 /\ T = <<T[1]>> /\ T[1] \in Line /\ T[1].op \notin {"purge", "gap"}
           /\ Kept' = K \o T
  <2>1. PICK l \in Line : l = T[1]
    BY <1>3
  <2>2. /\ Expected(K \o <<l>>) = Expected(K) \cup Gains(l) /\ Released(<<l>>) = {}
    BY <1>3, <2>1, FoldAdd
  <2>3. QED
    BY <1>1, <1>3, <2>1, <2>2
<1>4. CASE /\ Len(T) = 1 /\ T = <<T[1]>> /\ T[1] \in Line /\ T[1].op \notin {"purge", "gap"}
           /\ Kept' = K /\ K = T
  <2>1. PICK l \in Line : l = T[1]
    BY <1>4
  <2>a. <<>> \in Seq(Line)
    OBVIOUS
  <2>2. /\ Expected(<<>> \o <<l>>) = Expected(<<>>) \cup Gains(l) /\ Released(<<l>>) = {}
    BY <1>4, <2>1, <2>a, FoldAdd
  <2>3. <<>> \o <<l>> = T
    BY <1>4, <2>1
  <2>4. QED
    BY <1>1, <1>4, <2>1, <2>2, <2>3
<1>5. QED
  BY <1>1, <1>2, <1>3, <1>4 DEF KeptGrows

\* The memory records, or erases and forgets, or stays as it is.
LEMMA MemoryGrows ==
  ASSUME Typed, NEW T \in Seq(Line), KeptGrows(T), repo' = repo, Memory!Answers
  PROVE  Memory!Next
<1>1. PICK K \in Seq(Line) : K = Kept
  BY KeptType
<1>2. Authority' = Authority
  BY DEF Authority
<1>3. CASE Kept' = K \o T /\ Dropping(T)
  <2>1. /\ Expected(K \o T) = Expected(K) \ (Purged(T) \cup Gaps(T))
        /\ Purged(K \o T) = Purged(K) \cup Purged(T)
    BY <1>3, FoldDrops
  <2>2. PICK G \in SUBSET Claims : G = Gaps(T) \cap Expected(K)
    BY Folds
  <2>3. PICK S \in SUBSET Claims : S = Purged(T)
    BY Folds
  <2>4. Memory!Forget(G, S)
    BY <1>1, <1>2, <1>3, <2>1, <2>2, <2>3 DEF Memory!Forget
  <2>5. QED
    BY <2>4 DEF Memory!Next
<1>4. CASE /\ T = <<T[1]>> /\ T[1] \in Line /\ T[1].op \notin {"purge", "gap"}
           /\ Kept' = K \o T /\ T[1].ids \cap Purged(K) = {}
  <2>1. PICK l \in Line : l = T[1]
    BY <1>4
  <2>2. /\ Expected(K \o <<l>>) = Expected(K) \cup Gains(l) /\ Purged(K \o <<l>>) = Purged(K)
    BY <1>4, <2>1, FoldAdd
  <2>3. PICK S \in SUBSET Claims : S = Gains(l) /\ S \cap Purged(K) = {}
    BY <1>4, <2>1 DEF Gains, Line
  <2>4. Memory!Record(S)
    BY <1>1, <1>2, <1>4, <2>1, <2>2, <2>3 DEF Memory!Record
  <2>5. QED
    BY <2>4 DEF Memory!Next
<1>5. CASE Kept' = K
  BY <1>1, <1>2, <1>5 DEF Memory!Next, Memory!Answer
<1>6. QED
  BY <1>1, <1>3, <1>4, <1>5 DEF KeptGrows

\* The rest of the invariant holds of the longer ledger.
LEMMA GrowsKeeps ==
  ASSUME Typed, OneGenesis, Behind, Backing, NEW T \in Seq(Line), Grows(T)
  PROVE  OneGenesis' /\ Behind' /\ Backing'
<1>1. PICK L \in Seq(Line) : L = Lines
  BY KeptType
<1>2. PICK A \in Seq(Line) : A = Authority
  BY AuthorityType
<1>3. Authority' = A /\ Lines' = L \o T /\ Len(L \o T) = Len(L) + Len(T) /\ L \o T \in Seq(Line)
  BY <1>1, <1>2, Concat DEF Grows, Authority, Lines
<1>4. L = <<>> /\ T # <<>> => /\ T = db.pend /\ db.seq = 1 /\ Len(T) = 1 /\ A \in {<<>>, T}
                              /\ L \o T = T
  <2> SUFFICES ASSUME L = <<>>, T # <<>>
               PROVE  /\ T = db.pend /\ db.seq = 1 /\ Len(T) = 1 /\ A \in {<<>>, T}
                      /\ L \o T = T
    OBVIOUS
  <2>1. T = db.pend /\ db.seq = 1
    BY <1>1 DEF Grows, Fit
  <2>2. db # Absent
    BY <2>1 DEF Absent
  <2>3. QED
    BY <1>2, <2>1, <2>2, FirstAuthority
<1>5. OneGenesis'
  <2>1. PICK g : GenesisIs(g)
    BY DEF OneGenesis
  <2>2. L \o T # <<>> => (L \o T)[1] = g
    <3>1. CASE L # <<>>
      <4>1. L[1] = g /\ Len(L) \in Nat \ {0}
        BY <1>1, <2>1, <3>1, EmptySeq DEF GenesisIs
      <4>2. (L \o T)[1] = L[1]
        BY <4>1, Concat
      <4>3. QED
        BY <4>1, <4>2
    <3>2. CASE L = <<>> /\ T = <<>>
      BY <3>2
    <3>3. CASE L = <<>> /\ T # <<>>
      <4>1. T = <<g>>
        BY <1>4, <2>1, <3>3 DEF GenesisIs, GenesisOf
      <4>2. QED
        BY <1>4, <3>3, <4>1
    <3>4. QED
      BY <3>1, <3>2, <3>3
  <2>3. GenesisIs(g)'
    BY <1>3, <2>1, <2>2 DEF GenesisIs, GenesisOf, Grows
  <2>4. QED
    BY <2>3 DEF OneGenesis
<1>6. Behind'
  <2>1. L \o T # <<>> => Under(A, L \o T)
    <3>1. CASE L # <<>>
      BY <1>1, <1>2, <3>1, UnderGrows DEF Behind
    <3>2. CASE L = <<>> /\ T = <<>>
      BY <3>2
    <3>3. CASE L = <<>> /\ T # <<>>
      BY <1>4, <3>3, UnderItself
    <3>4. QED
      BY <3>1, <3>2, <3>3
  <2>2. db # Absent => Len(L \o T) <= db.seq
    <3>1. CASE T = <<>>
      <4>1. L \o T = L
        BY <3>1
      <4>2. QED
        BY <1>1, <4>1 DEF Behind
    <3>2. CASE T # <<>>
      BY <1>1, <1>3, <3>2 DEF Grows
    <3>3. QED
      BY <3>1, <3>2
  <2>3. QED
    BY <1>2, <1>3, <2>1, <2>2 DEF Behind, Grows
<1>7. Backing'
  <2>1. backup.pc = "verify" => Under(backup.cut, L \o T)
    <3> SUFFICES ASSUME backup.pc = "verify"
                 PROVE  Under(backup.cut, L \o T)
      OBVIOUS
    <3>1. PICK C \in Seq(Line) : C = backup.cut
      BY DEF Typed
    <3>2. Under(C, L)
      BY <1>1, <3>1 DEF Backing
    <3>3. QED
      BY <3>1, <3>2, UnderGrows
  <2>2. UNCHANGED <<db, backup>>
    BY DEF Grows
  <2>3. QED
    BY <1>2, <1>3, <2>1, <2>2 DEF Backing
<1>8. QED
  BY <1>5, <1>6, <1>7

\* Readers are answered from what is kept, or told that it is not known.
LEMMA AnswersHold ==
  ASSUME Holding'
  PROVE  Memory!Answers
<1>1. CASE Open("daemon")'
  <2>1. Agrees(Lines)'
    BY <1>1 DEF Open, Holding
  <2>2. Lines' # <<>> /\ Ids(db)' = Expected(Lines)'
    BY <2>1 DEF Agrees
  <2>3. Kept' = Lines'
    BY <2>2 DEF Kept, Lines
  <2>4. Expected(Kept)' = Expected(Lines)'
    BY <2>3 DEF Expected
  <2>5. QED
    BY <1>1, <2>2, <2>4 DEF Memory!Answers
<1>2. CASE ~Open("daemon")'
  BY <1>2 DEF Memory!Answers
<1>3. QED
  BY <1>1, <1>2

\* A step that adds the lines T to the ledger.
LEMMA StepGrows ==
  ASSUME Inv, NEW T \in Seq(Line), Grows(T), Typed', Holding',
         told' \subseteq (told \ Released(T)) \cup (IF Dropping(T) THEN {} ELSE Gains(T[1]))
  PROVE  Inv' /\ Memory!Next
<1>1. KeptGrows(T) /\ repo' = repo
  BY KeptGrowsToo DEF Inv, Grows
<1>2. OneGenesis' /\ Behind' /\ Backing'
  BY GrowsKeeps DEF Inv
<1>3. told \subseteq Expected(Kept)
  BY DEF Inv, ToldIsKept, Kept
<1>4. told' \subseteq Expected(Kept')
  BY <1>1, <1>3, ToldGrows DEF Inv
<1>5. ToldIsKept'
  BY <1>4 DEF ToldIsKept, Kept
<1>6. Memory!Next
  BY <1>1, AnswersHold, MemoryGrows DEF Inv
<1>7. QED
  BY <1>2, <1>5, <1>6 DEF Inv

\* A step that leaves what is kept as it was.
LEMMA StepQuiet ==
  ASSUME Inv, Kept' = Kept, repo' = repo, Typed', OneGenesis', Behind', Backing', Holding',
         told' \subseteq Expected(Kept)
  PROVE  Inv' /\ Memory!Next
<1>1. ToldIsKept'
  <2>1. told' \subseteq Expected(Kept')
    OBVIOUS
  <2>2. QED
    BY <2>1 DEF ToldIsKept, Kept
<1>2. Authority' = Authority
  BY DEF Authority
<1>3. Memory!Answer
  BY <1>2, AnswersHold DEF Memory!Answer
<1>4. QED
  BY <1>1, <1>3 DEF Inv, Memory!Next

\* And what the store and the backup hold, but for the holder.
LEMMA StepSame ==
  ASSUME Inv, UNCHANGED <<db, ledger, repo, backup>>, todo' \in Seq(Line), Holding',
         told' \subseteq Expected(Kept)
  PROVE  Inv' /\ Memory!Next
<1>1. Typed'
  BY DEF Inv, Typed
<1>2. OneGenesis'
  BY DEF Inv, OneGenesis, GenesisIs, Lines
<1>3. Behind' /\ Backing' /\ Kept' = Kept
  BY DEF Inv, Behind, Backing, Lines, Authority, Kept
<1>4. QED
  BY <1>1, <1>2, <1>3, StepQuiet

-----------------------------------------------------------------------------
(* Lines that are appended or replayed *)

LEMMA FitCut ==
  ASSUME Typed, OneGenesis, Behind, NEW T \in Seq(Line), Fit(T), NEW k \in 0..Len(T)
  PROVE  SubSeq(T, 1, k) \in Seq(Line) /\ Len(SubSeq(T, 1, k)) <= Len(T) /\ Fit(SubSeq(T, 1, k))
<1>1. PICK R : R = SubSeq(T, 1, k)
  OBVIOUS
<1>2. Len(T) \in Nat
  OBVIOUS
<1>3. 1 \in 1 .. Len(T) + 1
  BY <1>2
<1>4. /\ R \in Seq(Line) /\ Len(R) = (IF 1 <= k THEN k - 1 + 1 ELSE 0)
      /\ (Dropping(T) => Dropping(R)) /\ (Len(T) = 1 => R \in {<<>>, T})
  BY <1>1, <1>3, StagingCut
<1>5. Len(R) <= Len(T)
  BY <1>2, <1>4
<1>6. T = <<>> => R = <<>>
  BY <1>4, <1>5
<1>7. Lines = <<>> /\ T = db.pend /\ db.seq = 1 => Len(T) = 1
  BY FirstAuthority DEF Absent
<1>8. Fit(R)
  BY <1>4, <1>6, <1>7 DEF Fit
<1>9. QED
  BY <1>1, <1>4, <1>5, <1>8

\* What LandsPartly leaves of the lines it was given.
LEMMA Lands ==
  ASSUME NEW file, IsLedger(file), ~file.torn, NEW T \in Seq(Line), LandsPartly(file, T)
  PROVE  \E k \in 0..Len(T) : /\ ledger'.lines = file.lines \o SubSeq(T, 1, k)
                              /\ IsLedger(ledger')
                              /\ told' = told \ Released(SubSeq(T, 1, k))
<1>1. PICK k \in 0..Len(T), t \in BOOLEAN :
        LET down == SubSeq(T, 1, k)
        IN  /\ ledger' = IF k = 0 THEN [file EXCEPT !.torn = @ \/ t]
                                  ELSE [Appended(file, down) EXCEPT !.torn = t]
            /\ told' = told \ Released(down)
  BY DEF LandsPartly
<1>2. PICK R : R = SubSeq(T, 1, k)
  OBVIOUS
<1>3. R \in Seq(Line)
  BY <1>2
<1>4. PICK L \in Seq(Line) : L = file.lines
  BY DEF IsLedger
<1>6. CASE k = 0
  <2>1. ledger'.lines = L /\ DOMAIN ledger' = {"lines", "torn"}
    BY <1>1, <1>4, <1>6 DEF IsLedger
  <2>2. R = <<>>
    BY <1>2, <1>6
  <2>3. L \o R = L
    BY <2>2
  <2>4. ledger'.lines = L \o R /\ IsLedger(ledger')
    BY <2>1, <2>3 DEF IsLedger
  <2>5. QED
    BY <1>1, <1>2, <1>4, <2>4
<1>7. CASE k # 0
  <2>1. ledger'.lines = L \o R /\ DOMAIN ledger' = {"lines", "torn"}
    BY <1>1, <1>2, <1>4, <1>7 DEF Appended
  <2>2. L \o R \in Seq(Line)
    BY <1>3
  <2>3. ledger'.lines = L \o R /\ IsLedger(ledger')
    BY <2>1, <2>2 DEF IsLedger
  <2>4. QED
    BY <1>1, <1>2, <1>4, <2>3
<1>8. QED
  BY <1>6, <1>7

LEMMA ReplayFits ==
  ASSUME Typed, NEW R, R = Replay(db, Lines)
  PROVE  R \in Seq(Line) /\ Fit(R) /\ (R # <<>> => Len(Lines) + Len(R) <= db.seq)
<1>1. PICK L \in Seq(Line) : L = Lines
  BY KeptType
<1>2. IsDb(db) /\ db.seq \in Nat
  BY DEF Typed, IsDb
<1>3. /\ R \in Seq(Line)
      /\ R # <<>> =>
           /\ Len(L) + Len(R) = db.seq
           /\ WellShaped(L \o R)
           /\ Expected(L \o R) = Ids(db) /\ Ids(db) \cap Purged(L \o R) = {}
           /\ Dropping(R) \/ (Len(R) = 1 /\ R = db.pend)
           /\ L = <<>> => R = db.pend
  BY <1>1, <1>2, ReplayMeans
<1>4. R = <<>> => Fit(R)
  BY DEF Fit
<1>5. ASSUME R # <<>>, L # <<>>
      PROVE  Fit(R)
  <2>1. CASE Dropping(R)
    BY <1>1, <1>5, <2>1 DEF Fit
  <2>2. CASE ~Dropping(R)
    <3>1. Len(R) = 1
      BY <1>3, <1>5, <2>2
    <3>2. PICK l \in Line : l = R[1] /\ R = <<l>>
      BY <1>3, <3>1
    <3>3. l.op \notin {"purge", "gap"}
      <4>1. DOMAIN R = {1}
        BY <3>2
      <4>2. QED
        BY <2>2, <3>2, <4>1 DEF Dropping
    <3>4. Len(L) \in Nat \ {0}
      BY <1>5, EmptySeq
    <3>5. Len(L) + 1 \in DOMAIN (L \o R) /\ (L \o R)[Len(L) + 1] = l /\ Len(L) + 1 # 1
      BY <3>2, <3>4
    <3>6. l.op \notin {"init", "cutover"}
      BY <1>3, <1>5, <3>5 DEF WellShaped
    <3>7. Gains(l) = l.ids
      BY <3>2, <3>3, <3>6 DEF Gains, Line, Ops
    <3>8. Expected(L \o R) = Expected(L) \cup Gains(l) /\ Purged(L \o R) = Purged(L)
      BY <3>2, <3>3, FoldAdd
    <3>9. l.ids \cap Purged(L) = {}
      BY <1>3, <1>5, <3>7, <3>8
    <3>10. QED
      BY <1>1, <1>5, <3>1, <3>2, <3>3, <3>9 DEF Fit
  <2>3. QED
    BY <2>1, <2>2
<1>6. ASSUME R # <<>>, L = <<>>
      PROVE  Fit(R)
  <2>1. L \o R = R
    BY <1>3, <1>6
  <2>2. WellShaped(R) /\ R = db.pend
    BY <1>3, <1>6, <2>1
  <2>3. 1 \in DOMAIN R
    <3>1. Len(R) \in Nat \ {0}
      BY <1>3, <1>6, EmptySeq
    <3>2. QED
      BY <1>3, <3>1
  <2>4. R[1].op \in {"init", "cutover"}
    BY <2>2, <2>3 DEF WellShaped
  <2>5. ~Dropping(R)
    BY <2>3, <2>4 DEF Dropping
  <2>6. Len(R) = 1 /\ Len(L) = 0
    BY <1>3, <1>6, <2>5
  <2>7. db.seq = 1
    BY <1>2, <1>3, <1>6, <2>6
  <2>8. QED
    BY <1>1, <1>6, <2>2, <2>4, <2>7 DEF Fit
<1>7. Len(L) + Len(R) = db.seq => Len(L) + Len(R) <= db.seq
  BY <1>2
<1>8. QED
  BY <1>1, <1>3, <1>4, <1>5, <1>6, <1>7

\* Whoever opens the store mends the ledger, or dies mending it.
LEMMA Reconciles ==
  ASSUME Inv, Reconcile, todo = <<>>, UNCHANGED <<db, repo, todo, backup>>
  PROVE  Inv' /\ Memory!Next
<1>1. PICK R : R = Replay(db, Lines)
  OBVIOUS
<1>2. R \in Seq(Line) /\ Fit(R) /\ (R # <<>> => Len(Lines) + Len(R) <= db.seq)
  BY <1>1, ReplayFits DEF Inv
<1>3. PICK L \in Seq(Line) : L = Lines
  BY KeptType DEF Inv
<1>4. PICK v : v = Verdict(db, Lines)
  OBVIOUS
<1>5. PICK read \in BOOLEAN : read = (v \notin {"DB_MISSING_OR_UNINITIALIZED", "LEDGER_CORRUPT"})
  OBVIOUS
<1>6. /\ ledger.lines = L /\ IsLedger(ledger)
      /\ IsDb(db) /\ db.seq \in Nat /\ (\E S : repo \in Seq(S))
  BY <1>3 DEF Inv, Typed, IsLedger, IsDb, Lines
<1>7. CASE /\ state' = v
           /\ ledger' = IF read THEN [lines |-> L \o R, torn |-> FALSE] ELSE ledger
           /\ told' = told \ Released(R)
           /\ barred' = IF v = "READY" THEN Barred(L \o R) ELSE {}
  <2>1. PICK T : T = IF read THEN R ELSE <<>>
    OBVIOUS
  <2>2. T \in Seq(Line) /\ Fit(T) /\ (T # <<>> => Len(Lines) + Len(T) <= db.seq)
    BY <1>2, <2>1 DEF Fit
  <2>3. ledger'.lines = L \o T /\ L \o T \in Seq(Line) /\ IsLedger(ledger')
    <3>1. L \o <<>> = L /\ L \o R \in Seq(Line)
      BY <1>2
    <3>2. CASE read
      BY <1>7, <2>1, <3>1, <3>2 DEF IsLedger
    <3>3. CASE ~read
      BY <1>3, <1>6, <1>7, <2>1, <3>1, <3>3 DEF IsLedger
    <3>4. QED
      BY <3>2, <3>3
  <2>4. Grows(T)
    BY <1>3, <2>2, <2>3 DEF Grows
  <2>5. Typed'
    BY <2>3 DEF Inv, Typed
  <2>6. Holding'
    <3>1. SUFFICES ASSUME state' = "READY"
                   PROVE  ~ledger'.torn /\ Agrees(Lines)'
      BY DEF Holding
    <3>2. v = "READY" /\ read
      BY <1>5, <1>7, <3>1
    <3>3. ledger' = [lines |-> L \o R, torn |-> FALSE] /\ barred' = Purged(L \o R)
      BY <1>7, <3>2 DEF Barred
    <3>4. L \o R # <<>> /\ Ids(db) = Expected(L \o R) /\ db.seq = Len(L \o R)
      BY <1>1, <1>3, <1>4, <1>6, <3>2, ReadyMeans
    <3>5. Lines' = L \o R
      BY <3>3 DEF Lines
    <3>6. QED
      BY <3>3, <3>4, <3>5 DEF Agrees
  <2>7. told' \subseteq told \ Released(T)
    <3>1. Released(<<>>) = {}
      BY DEF Released
    <3>2. QED
      BY <1>7, <2>1, <3>1
  <2>8. QED
    BY <2>2, <2>4, <2>5, <2>6, <2>7, StepGrows
<1>8. CASE /\ state' = "LEDGER_IO_ERROR"
           /\ LandsPartly([ledger EXCEPT !.torn = FALSE], R)
  <2>1. PICK file : file = [ledger EXCEPT !.torn = FALSE]
    OBVIOUS
  <2>2. file.lines = L /\ ~file.torn /\ IsLedger(file)
    BY <1>3, <1>6, <2>1 DEF IsLedger, Lines
  <2>3. PICK k \in 0..Len(R) : /\ ledger'.lines = L \o SubSeq(R, 1, k)
                               /\ IsLedger(ledger')
                               /\ told' = told \ Released(SubSeq(R, 1, k))
    <3>1. LandsPartly(file, R)
      BY <1>8, <2>1
    <3>2. QED
      BY <1>2, <2>2, <3>1, Lands
  <2>4. PICK T : T = SubSeq(R, 1, k)
    OBVIOUS
  <2>5. T \in Seq(Line) /\ Len(T) <= Len(R) /\ Fit(T)
    BY <1>2, <2>4, FitCut DEF Inv
  <2>6. T # <<>> => Len(Lines) + Len(T) <= db.seq
    <3>1. R = <<>> => T = <<>>
      BY <2>4, <2>5
    <3>2. Len(Lines) \in Nat /\ Len(R) \in Nat /\ Len(T) \in Nat
      BY <1>2, <1>3, <2>5
    <3>3. QED
      BY <1>2, <1>6, <2>5, <3>1, <3>2
  <2>7. Grows(T)
    BY <1>3, <2>3, <2>4, <2>5, <2>6 DEF Grows
  <2>8. Typed'
    BY <2>3 DEF Inv, Typed
  <2>9. Holding'
    BY <1>8 DEF Holding
  <2>10. QED
    BY <2>3, <2>4, <2>5, <2>7, <2>8, <2>9, StepGrows
<1>9. QED
  BY <1>1, <1>3, <1>4, <1>5, <1>7, <1>8 DEF Reconcile, Lines

-----------------------------------------------------------------------------
(* Opening and closing the store *)

LEMMA Idle ==
  ASSUME Holding, holder = "none"
  PROVE  todo = <<>>
BY DEF Holding, HeldBy

LEMMA ToldNow ==
  ASSUME Inv
  PROVE  told \subseteq Expected(Kept)
BY DEF Inv, ToldIsKept, Kept

LEMMA StartStep ==
  ASSUME Inv, NEW h, Start(h)
  PROVE  Inv' /\ Memory!Next
<1>1. todo = <<>>
  BY Idle DEF Inv, Start
<1>2. QED
  BY <1>1, Reconciles DEF Start

LEMMA GoodConfigStep ==
  ASSUME Inv, GoodConfig
  PROVE  Inv' /\ Memory!Next
BY Reconciles DEF GoodConfig

LEMMA BadConfigStep ==
  ASSUME Inv, BadConfig
  PROVE  Inv' /\ Memory!Next
<1>1. Holding'
  BY DEF BadConfig, Holding
<1>2. UNCHANGED <<db, ledger, repo, backup, told>> /\ todo' \in Seq(Line)
  BY DEF BadConfig, store, hist, Inv, Typed
<1>3. QED
  BY <1>1, <1>2, ToldNow, StepSame

LEMMA StopStep ==
  ASSUME Inv, Stop
  PROVE  Inv' /\ Memory!Next
<1>1. Holding'
  BY DEF Stop, Unheld, Holding
<1>2. UNCHANGED <<db, ledger, repo, backup, told>> /\ todo' \in Seq(Line)
  BY DEF Stop, Unheld, store, hist
<1>3. QED
  BY <1>1, <1>2, ToldNow, StepSame

LEMMA HoldingSame ==
  ASSUME Holding, UNCHANGED <<db, ledger, repo, proc>>
  PROVE  Holding'
<1>1. UNCHANGED <<db, ledger, repo, holder, state, barred, todo>>
  BY DEF proc
<1>2. QED
  BY <1>1 DEF Holding, HeldBy, Agrees, Lines

\* A claim that is answered "accepted" again is in the database of an open store.
LEMMA ResubmitStep ==
  ASSUME Inv, NEW c \in Claims, Resubmit(c)
  PROVE  Inv' /\ Memory!Next
<1>1. UNCHANGED <<db, ledger, repo, backup, proc>> /\ todo' \in Seq(Line)
  BY DEF Resubmit, store, proc, Inv, Typed
<1>2. Holding'
  BY <1>1, HoldingSame DEF Inv
<1>3. Agrees(Lines) /\ c \in Ids(db)
  BY DEF Resubmit, Open, Inv, Holding
<1>4. c \in Expected(Kept)
  BY <1>3 DEF Agrees, Kept, Lines
<1>5. told' = told \cup {c}
  BY DEF Resubmit
<1>6. QED
  BY <1>1, <1>2, <1>4, <1>5, ToldNow, StepSame

LEMMA TickStep ==
  ASSUME Inv, Tick
  PROVE  Inv' /\ Memory!Next
<1>1. UNCHANGED <<db, ledger, repo, backup, proc, told>> /\ todo' \in Seq(Line)
  BY DEF Tick, store, proc, hist, Inv, Typed
<1>2. Holding'
  BY <1>1, HoldingSame DEF Inv
<1>3. QED
  BY <1>1, <1>2, ToldNow, StepSame

-----------------------------------------------------------------------------
(* Backups *)

\* A step of the backup tool, which writes neither file of the store.
LEMMA StepBackup ==
  ASSUME Inv, UNCHANGED <<db, ledger, repo, proc, told>>,
         DOMAIN backup' = {"pc", "at", "db", "cut", "purge"},
         backup'.pc \in {"cut", "verify"} =>
           /\ IsDb(backup'.db) /\ backup'.db.seq > 0
           /\ \A g : GenesisIs(g) => GenesisOf(backup'.db, g),
         backup'.pc = "verify" =>
           /\ backup'.cut \in Seq(Line) /\ backup'.cut # <<>>
           /\ \A g : GenesisIs(g) => backup'.cut[1] = g,
         Backing'
  PROVE  Inv' /\ Memory!Next
<1>1. Typed'
  BY DEF Inv, Typed, proc
<1>2. PICK g : GenesisIs(g)
  BY DEF Inv, OneGenesis
<1>3. GenesisIs(g)'
  BY <1>2 DEF GenesisIs, GenesisOf, Lines
<1>4. OneGenesis'
  BY <1>3 DEF OneGenesis
<1>5. Behind' /\ Kept' = Kept
  BY DEF Inv, Behind, Authority, Kept, Lines
<1>6. Holding'
  BY HoldingSame DEF Inv
<1>7. QED
  BY <1>1, <1>4, <1>5, <1>6, ToldNow, StepQuiet

LEMMA BackupStartStep ==
  ASSUME Inv, BackupStart
  PROVE  Inv' /\ Memory!Next
<1>1. UNCHANGED <<db, ledger, repo, proc, told>> /\ db # Absent
  BY DEF BackupStart, store, hist
<1>2. backup'.pc = "copy" /\ DOMAIN backup' = {"pc", "at", "db", "cut", "purge"}
  BY DEF BackupStart, NoBackup
<1>3. Backing'
  BY <1>1, <1>2 DEF Backing
<1>4. QED
  BY <1>1, <1>2, <1>3, StepBackup

LEMMA BackupCopyStep ==
  ASSUME Inv, BackupCopy
  PROVE  Inv' /\ Memory!Next
<1>1. UNCHANGED <<db, ledger, repo, proc, told>> /\ backup.pc = "copy"
  BY DEF BackupCopy, store, hist
<1>2. backup'.pc = "cut" /\ backup'.db = db /\ DOMAIN backup' = {"pc", "at", "db", "cut", "purge"}
  BY DEF BackupCopy, Inv, Typed
<1>3. db # Absent /\ IsDb(db) /\ db.seq > 0 /\ Len(Authority) <= db.seq
  BY <1>1 DEF Inv, Backing, Behind, Typed, IsDb
<1>4. Authority' = Authority
  BY <1>1 DEF Authority
<1>5. Backing'
  BY <1>1, <1>2, <1>3, <1>4 DEF Backing
<1>6. \A g : GenesisIs(g) => GenesisOf(backup'.db, g)
  BY <1>2 DEF GenesisIs
<1>7. QED
  BY <1>1, <1>2, <1>3, <1>5, <1>6, StepBackup

LEMMA BackupCutStep ==
  ASSUME Inv, BackupCut
  PROVE  Inv' /\ Memory!Next
<1>1. UNCHANGED <<db, ledger, repo, proc, told>> /\ backup.pc = "cut"
  BY DEF BackupCut, store, hist
<1>2. PICK L \in Seq(Line) : L = Lines
  BY KeptType DEF Inv
<1>3. PICK n : n = backup.db.seq
  OBVIOUS
<1>4. IsDb(backup.db) /\ n \in Nat /\ n > 0 /\ Len(Authority) <= n /\ db # Absent
  BY <1>1, <1>3 DEF Inv, Typed, Backing, IsDb
<1>5. CASE backup' = NoBackup
  <2>1. backup'.pc = "idle" /\ DOMAIN backup' = {"pc", "at", "db", "cut", "purge"}
    BY <1>5 DEF NoBackup
  <2>2. QED
    BY <1>1, <2>1, StepBackup DEF Backing
<1>6. CASE /\ ~(Len(L) < n)
           /\ backup' = [backup EXCEPT !.pc = "verify", !.cut = SubSeq(L, 1, n),
                           !.purge = LastPurgeSeq(SubSeq(L, 1, n)) > receipt.seq]
  <2>1. PICK C : C = SubSeq(L, 1, n)
    OBVIOUS
  <2>2. n \in 0..Len(L)
    BY <1>2, <1>4, <1>6
  <2>3. C \in Seq(Line) /\ Len(C) = n /\ Under(C, L) /\ \A i \in 1..n : C[i] = L[i]
    BY <2>1, <2>2, UnderCut
  <2>4. C # <<>> /\ C[1] = L[1] /\ L # <<>>
    <3>1. 1 \in 1..n /\ n # 0 /\ Len(L) # 0
      BY <1>4, <2>2
    <3>2. QED
      BY <2>3, <3>1
  <2>5. /\ backup'.pc = "verify" /\ backup'.db = backup.db /\ backup'.cut = C
        /\ DOMAIN backup' = {"pc", "at", "db", "cut", "purge"}
    BY <1>6, <2>1 DEF Inv, Typed
  <2>6. \A g : GenesisIs(g) => GenesisOf(backup'.db, g) /\ backup'.cut[1] = g
    BY <1>1, <1>2, <2>4, <2>5 DEF GenesisIs
  <2>7. Authority' = Authority /\ Lines' = L
    BY <1>1, <1>2 DEF Authority, Lines
  <2>8. Backing'
    BY <1>1, <1>4, <2>3, <2>5, <2>7 DEF Backing
  <2>9. QED
    BY <1>1, <1>3, <1>4, <2>3, <2>4, <2>5, <2>6, <2>8, StepBackup
<1>7. QED
  BY <1>2, <1>3, <1>5, <1>6 DEF BackupCut, Lines

LEMMA RecordVerifiedStep ==
  ASSUME Inv, RecordVerified \/ BackupFails
  PROVE  Inv' /\ Memory!Next
<1>1. UNCHANGED <<db, ledger, repo, proc, told>> /\ backup' = NoBackup
  BY DEF RecordVerified, BackupFails, store, hist
<1>2. backup'.pc = "idle" /\ DOMAIN backup' = {"pc", "at", "db", "cut", "purge"}
  BY <1>1 DEF NoBackup
<1>3. QED
  BY <1>1, <1>2, StepBackup DEF Backing

\* A verified backup becomes the authority: it is as long as the one before it,
\* and both begin the ledger.
LEMMA BackupVerifyStep ==
  ASSUME Inv, BackupVerify
  PROVE  Inv' /\ Memory!Next
<1>1. /\ backup.pc = "verify" /\ UNCHANGED <<db, ledger, proc, told>>
      /\ repo' = Append(repo, [db |-> backup.db, cut |-> backup.cut, purge |-> backup.purge])
  BY DEF BackupVerify, hist
<1>2. backup'.pc = "record" /\ DOMAIN backup' = {"pc", "at", "db", "cut", "purge"}
  BY DEF BackupVerify, Inv, Typed
<1>3. PICK L \in Seq(Line) : L = Lines
  BY KeptType DEF Inv
<1>4. PICK A \in Seq(Line) : A = Authority
  BY AuthorityType DEF Inv
<1>5. PICK C \in Seq(Line) : C = backup.cut /\ C # <<>>
  BY <1>1 DEF Inv, Typed
<1>6. Under(C, L) /\ Len(A) <= Len(C) /\ db # Absent
  BY <1>1, <1>3, <1>4, <1>5 DEF Inv, Backing
<1>7. L # <<>>
  <2>1. Len(C) \in Nat \ {0} /\ Len(C) <= Len(L)
    BY <1>5, <1>6, EmptySeq DEF Under
  <2>2. Len(<<>>) = 0
    OBVIOUS
  <2>3. QED
    BY <2>1, <2>2
<1>8. Under(A, C)
  BY <1>3, <1>4, <1>6, <1>7, UnderBoth DEF Inv, Behind
<1>9. PICK b : b = [db |-> backup.db, cut |-> backup.cut, purge |-> backup.purge]
  OBVIOUS
<1>10. b.db = backup.db /\ b.cut = C /\ IsCopy(b)
  BY <1>1, <1>5, <1>9 DEF Inv, Typed, IsCopy
<1>11. PICK S : repo \in Seq(S)
  BY DEF Inv, Typed
<1>12. /\ repo \in Seq(S \cup {b}) /\ repo' \in Seq(S \cup {b}) /\ repo' # <<>>
       /\ repo'[Len(repo')] = b
       /\ \A i \in DOMAIN repo' : (i \in DOMAIN repo /\ repo'[i] = repo[i]) \/ repo'[i] = b
  <2>1. repo' = Append(repo, b)
    BY <1>1, <1>9
  <2>2. repo \in Seq(S \cup {b})
    BY <1>11
  <2>3. QED
    BY <2>1, <2>2
<1>13. Typed'
  BY <1>1, <1>2, <1>10, <1>12 DEF Inv, Typed, proc
<1>14. Authority' = C /\ Lines' = L
  BY <1>1, <1>3, <1>10, <1>12 DEF Authority, Lines
<1>15. Kept' = L /\ Kept = L
  BY <1>3, <1>7, <1>14 DEF Kept, Lines
<1>16. OneGenesis'
  <2>1. PICK g : GenesisIs(g)
    BY DEF Inv, OneGenesis
  <2>2. GenesisOf(b.db, g) /\ b.cut[1] = g
    BY <1>1, <1>5, <1>10, <2>1 DEF GenesisIs
  <2>3. \A i \in DOMAIN repo' : GenesisOf(repo'[i].db, g) /\ repo'[i].cut[1] = g
    BY <1>12, <2>1, <2>2 DEF GenesisIs
  <2>4. GenesisIs(g)'
    BY <1>1, <1>2, <2>1, <2>3 DEF GenesisIs, GenesisOf, Lines
  <2>5. QED
    BY <2>4 DEF OneGenesis
<1>17. Behind'
  <2>1. Len(L) <= db.seq /\ db.seq \in Nat
    BY <1>3, <1>6 DEF Inv, Behind, Typed, IsDb
  <2>2. Len(C) <= db.seq
    BY <1>6, <2>1 DEF Under
  <2>3. QED
    BY <1>1, <1>6, <1>14, <2>1, <2>2 DEF Behind
<1>18. Backing'
  BY <1>1, <1>2, <1>6 DEF Backing
<1>19. Holding'
  <2>1. UNCHANGED <<db, ledger, holder, state, barred, todo>> /\ Lines # <<>>
    BY <1>1, <1>3, <1>7 DEF proc
  <2>2. HeldBy(holder) => HeldBy(holder)'
    BY <2>1 DEF HeldBy, Agrees, Lines
  <2>3. QED
    BY <2>1, <2>2 DEF Inv, Holding, Agrees, Lines
<1>20. ToldIsKept'
  BY <1>1, <1>15 DEF Inv, ToldIsKept, Kept
<1>21. Memory!Save
  <2>1. Purged(A) \subseteq Purged(C) /\ Purged(C) \subseteq Purged(L)
    BY <1>6, <1>8, UnderPurged
  <2>2. Expected(C) \subseteq Claims /\ Purged(C) \subseteq Claims
    BY Folds
  <2>3. Open("daemon")' = Open("daemon")
    BY <1>1 DEF Open, proc
  <2>4. QED
    BY <1>1, <1>4, <1>14, <1>15, <2>1, <2>2, <2>3 DEF Memory!Save
<1>22. QED
  BY <1>13, <1>16, <1>17, <1>18, <1>19, <1>20, <1>21 DEF Inv, Memory!Next

\* After a loss of the ledger the authority becomes it, which it stood for.
LEMMA InstallLedgerStep ==
  ASSUME Inv, InstallLedger
  PROVE  Inv' /\ Memory!Next
<1>1. /\ holder = "none" /\ repo # <<>> /\ Lines = <<>>
      /\ ledger' = [lines |-> Authority, torn |-> FALSE]
      /\ UNCHANGED <<db, repo, proc, backup, told>>
  BY DEF InstallLedger, AuthorityHolds, Lines, hist
<1>2. PICK A \in Seq(Line) : A = Authority /\ A # <<>>
  BY <1>1, AuthorityType DEF Inv
<1>3. Lines' = A /\ Authority' = A /\ Kept = A /\ Kept' = A
  BY <1>1, <1>2 DEF Lines, Authority, Kept
<1>4. Typed'
  <2>1. IsLedger(ledger')
    BY <1>1, <1>2 DEF IsLedger
  <2>2. QED
    BY <1>1, <2>1 DEF Inv, Typed, proc
<1>5. OneGenesis'
  <2>1. PICK g : GenesisIs(g)
    BY DEF Inv, OneGenesis
  <2>2. A[1] = g
    BY <1>1, <1>2, <2>1, AuthorityType DEF Inv, GenesisIs
  <2>3. GenesisIs(g)'
    BY <1>1, <1>3, <2>1, <2>2 DEF GenesisIs, GenesisOf
  <2>4. QED
    BY <2>3 DEF OneGenesis
<1>6. Behind'
  BY <1>1, <1>2, <1>3, UnderItself DEF Inv, Behind
<1>7. Backing'
  <2>1. ASSUME backup.pc = "verify"
        PROVE  FALSE
    <3>1. PICK C \in Seq(Line) : C = backup.cut /\ C # <<>>
      BY <2>1 DEF Inv, Typed
    <3>2. Len(C) \in Nat \ {0} /\ Len(C) <= Len(<<>>)
      BY <1>1, <2>1, <3>1, EmptySeq DEF Inv, Backing, Under
    <3>3. Len(<<>>) = 0
      OBVIOUS
    <3>4. QED
      BY <3>2, <3>3
  <2>2. QED
    BY <1>1, <1>2, <1>3, <2>1 DEF Inv, Backing
<1>8. todo' = <<>> /\ holder' = "none"
  BY <1>1, Idle DEF Inv, proc
<1>9. Holding'
  BY <1>8 DEF Holding
<1>10. QED
  BY <1>1, <1>3, <1>4, <1>5, <1>6, <1>7, <1>9, ToldNow, StepQuiet

-----------------------------------------------------------------------------
(* Commits and what follows them *)

LEMMA LineType ==
  ASSUME NEW op \in Ops, NEW n \in Nat, NEW S \in SUBSET Claims
  PROVE  [op |-> op, seq |-> n, ids |-> S] \in Line
BY DEF Line

\* A step that puts another database beside the ledger that is there.
LEMMA StepCommit ==
  ASSUME Inv, Lines # <<>>, Lines' = Lines, IsLedger(ledger'), UNCHANGED <<repo, backup, told>>,
         IsDb(db'), db'.seq > 0, Len(Lines) <= db'.seq,
         \A g : GenesisIs(g) => GenesisOf(db', g),
         todo' \in Seq(Line), Holding'
  PROVE  Inv' /\ Memory!Next
<1>1. PICK L \in Seq(Line) : L = Lines
  BY KeptType DEF Inv
<1>2. PICK A \in Seq(Line) : A = Authority /\ A = Authority'
  BY AuthorityType DEF Inv, Authority
<1>3. Typed'
  BY DEF Inv, Typed
<1>4. db' # Absent /\ db'.seq \in Nat
  BY DEF Absent, IsDb
<1>5. OneGenesis'
  <2>1. PICK g : GenesisIs(g)
    BY DEF Inv, OneGenesis
  <2>2. GenesisIs(g)'
    BY <2>1 DEF GenesisIs, GenesisOf
  <2>3. QED
    BY <2>2 DEF OneGenesis
<1>6. Behind'
  <2>1. Under(A, L) /\ Len(L) <= db'.seq
    BY <1>1, <1>2 DEF Inv, Behind
  <2>2. Len(A) <= db'.seq
    BY <1>4, <2>1 DEF Under
  <2>3. QED
    BY <1>1, <1>2, <2>1, <2>2 DEF Behind
<1>7. Backing'
  BY <1>2, <1>4 DEF Inv, Backing
<1>8. Kept' = Kept
  BY DEF Kept, Lines, Authority
<1>9. QED
  BY <1>3, <1>5, <1>6, <1>7, <1>8, ToldNow, StepQuiet

LEMMA OpenAgrees ==
  ASSUME Inv, NEW h \in {"daemon", "purge"}, Open(h)
  PROVE  /\ ~ledger.torn /\ Agrees(Lines) /\ IsDb(db) /\ IsLedger(ledger)
         /\ db.seq \in Nat /\ db.seq >= 1
<1>1. ~ledger.torn /\ Agrees(Lines) /\ IsDb(db) /\ IsLedger(ledger)
  BY DEF Open, Inv, Holding, Typed
<1>2. Len(Lines) \in Nat \ {0}
  BY <1>1, EmptySeq, KeptType DEF Inv, Agrees
<1>3. QED
  BY <1>1, <1>2 DEF Agrees

LEMMA SubmitStep ==
  ASSUME Inv, NEW c \in Claims, NEW prior, Submit(c, prior)
  PROVE  Inv' /\ Memory!Next
<1>1. ~ledger.torn /\ Agrees(Lines) /\ IsDb(db) /\ IsLedger(ledger) /\ db.seq \in Nat /\ db.seq >= 1
  BY OpenAgrees DEF Submit
<1>2. PICK L \in Seq(Line) : L = Lines
  BY KeptType DEF Inv
<1>3. PICK l \in Line : l = [op |-> "submit", seq |-> db.seq + 1, ids |-> {c}]
  <2>1. db.seq + 1 \in Nat /\ {c} \in SUBSET Claims /\ "submit" \in Ops
    BY <1>1 DEF Ops
  <2>2. QED
    BY <2>1, LineType
<1>4. /\ todo' = <<l>> /\ c \notin barred
      /\ UNCHANGED <<ledger, repo, backup, told, holder, state, barred>>
      /\ holder = "daemon" /\ state = "READY"
      /\ db' = [db EXCEPT
                  !.rows = [r \in Ids(db) \cup {c} |->
                              IF r = c THEN [cur |-> TRUE, at |-> now]
                              ELSE [db.rows[r] EXCEPT !.cur = @ /\ r \notin prior]],
                  !.seq = @ + 1,
                  !.pend = <<l>>]
  BY <1>3 DEF Submit, Staged, Open, hist
<1>5. /\ DOMAIN db' = {"rows", "seq", "pend", "pseq"} /\ Ids(db') = Ids(db) \cup {c}
      /\ db'.seq = db.seq + 1 /\ db'.pend = <<l>>
  BY <1>1, <1>4 DEF IsDb, Ids
<1>6. <<l>> \in Seq(Line) /\ Len(<<l>>) = 1 /\ <<l>>[1] = l /\ <<l>> # <<>>
  OBVIOUS
<1>7. IsDb(db')
  BY <1>1, <1>5, <1>6 DEF IsDb, Staging
<1>8. L # <<>> /\ Ids(db) = Expected(L) /\ db.seq = Len(L) /\ barred = Purged(L)
  BY <1>1, <1>2 DEF Agrees
<1>9. /\ Expected(L \o <<l>>) = Expected(L) \cup {c} /\ Purged(L \o <<l>>) = Purged(L)
      /\ Len(L \o <<l>>) = db.seq + 1 /\ L \o <<l>> # <<>>
  <2>1. Gains(l) = {c} /\ l.op \notin {"purge", "gap"}
    BY <1>3 DEF Gains
  <2>2. Len(L \o <<l>>) = db.seq + 1
    BY <1>6, <1>8
  <2>3. L \o <<l>> # <<>>
    BY <1>8
  <2>4. QED
    BY <2>1, <2>2, <2>3, FoldAdd
<1>10. Lines' = L
  BY <1>2, <1>4 DEF Lines
<1>11. Holding'
  <2>1. Agrees(L \o <<l>>)'
    BY <1>4, <1>5, <1>8, <1>9 DEF Agrees
  <2>2. l.ids \cap Purged(L) = {} /\ l.op = "submit"
    BY <1>3, <1>4, <1>8
  <2>3. HeldBy("daemon")'
    BY <1>4, <1>6, <1>8, <1>10, <2>1, <2>2 DEF HeldBy
  <2>4. QED
    BY <1>1, <1>4, <1>5, <1>6, <1>8, <1>10, <2>3 DEF Holding
<1>12. Len(L) <= db'.seq /\ db'.seq > 1
  BY <1>1, <1>5, <1>8
<1>13. QED
  BY <1>1, <1>2, <1>4, <1>6, <1>7, <1>8, <1>10, <1>11, <1>12, StepCommit DEF GenesisOf

LEMMA PurgeStep ==
  ASSUME Inv, NEW S \in SUBSET Claims, NEW r, Purge(S, r)
  PROVE  Inv' /\ Memory!Next
<1>1. ~ledger.torn /\ Agrees(Lines) /\ IsDb(db) /\ IsLedger(ledger) /\ db.seq \in Nat /\ db.seq >= 1
  BY OpenAgrees DEF Purge
<1>2. PICK L \in Seq(Line) : L = Lines
  BY KeptType DEF Inv
<1>3. PICK l \in Line : l = [op |-> "purge", seq |-> db.seq + 1, ids |-> S]
  <2>1. db.seq + 1 \in Nat /\ "purge" \in Ops
    BY <1>1 DEF Ops
  <2>2. QED
    BY <2>1, LineType
<1>4. /\ todo' = <<l>> /\ UNCHANGED <<ledger, repo, backup, told, holder, state, barred>>
      /\ holder = "purge"
      /\ db' = [rows |-> Without(db.rows, S), seq |-> db.seq + 1,
                pend |-> <<l>>, pseq |-> db.seq + 1]
  BY <1>3 DEF Purge, Staged, Open, hist
<1>5. /\ DOMAIN db' = {"rows", "seq", "pend", "pseq"} /\ Ids(db') \subseteq Ids(db)
      /\ db'.seq = db.seq + 1 /\ db'.pend = <<l>>
  BY <1>4 DEF Ids, Without
<1>6. <<l>> \in Seq(Line) /\ Len(<<l>>) = 1 /\ <<l>>[1] = l /\ <<l>> # <<>> /\ Dropping(<<l>>)
  BY <1>3 DEF Dropping
<1>7. IsDb(db')
  BY <1>1, <1>5, <1>6 DEF IsDb, Staging
<1>8. L # <<>> /\ db.seq = Len(L)
  BY <1>1, <1>2 DEF Agrees
<1>9. Lines' = L
  BY <1>2, <1>4 DEF Lines
<1>10. Holding'
  <2>1. HeldBy("purge")'
    BY <1>4, <1>6, <1>8, <1>9 DEF HeldBy
  <2>2. QED
    BY <1>1, <1>4, <1>5, <1>6, <1>8, <1>9, <2>1 DEF Holding
<1>11. Len(L) <= db'.seq /\ db'.seq > 1
  BY <1>1, <1>5, <1>8
<1>12. QED
  BY <1>1, <1>2, <1>4, <1>6, <1>7, <1>8, <1>9, <1>10, <1>11, StepCommit DEF GenesisOf

\* The first line of all is the one the first database stages.
LEMMA GenesisStep ==
  ASSUME Inv, NEW S \in SUBSET Claims, Genesis(S)
  PROVE  Inv' /\ Memory!Next
<1>1. PICK l \in Line : l = [op |-> IF S = {} THEN "init" ELSE "cutover", seq |-> 1, ids |-> S]
  <2>1. 1 \in Nat /\ (IF S = {} THEN "init" ELSE "cutover") \in Ops
    BY DEF Ops
  <2>2. QED
    BY <2>1, LineType
<1>2. /\ repo = <<>> /\ db = Absent /\ Lines = <<>> /\ ~ledger.torn /\ todo' = <<l>>
      /\ holder' = "genesis" /\ UNCHANGED <<ledger, repo, backup, told>>
      /\ db' = [rows |-> [c \in S |->
                            [cur |-> \A o \in S \ {c} : SameKey(o, c) => Newer(c, o),
                             at |-> 0]],
                seq |-> 1, pend |-> <<l>>, pseq |-> 0]
  BY <1>1 DEF Genesis, Lines, hist
<1>3. /\ DOMAIN db' = {"rows", "seq", "pend", "pseq"} /\ Ids(db') = S
      /\ db'.seq = 1 /\ db'.pend = <<l>>
  BY <1>2 DEF Ids
<1>4. <<l>> \in Seq(Line) /\ Len(<<l>>) = 1 /\ <<l>>[1] = l /\ <<l>> # <<>>
  OBVIOUS
<1>5. IsDb(db')
  BY <1>3, <1>4 DEF IsDb, Staging
<1>6. Typed'
  BY <1>2, <1>4, <1>5 DEF Inv, Typed
<1>7. backup.pc = "idle" /\ Authority' = <<>> /\ Lines' = <<>> /\ Kept' = Kept
  BY <1>2 DEF Inv, Backing, Authority, Lines, Kept
<1>8. OneGenesis'
  <2>1. GenesisIs(l)'
    BY <1>2, <1>3, <1>7 DEF GenesisIs, GenesisOf
  <2>2. QED
    BY <2>1 DEF OneGenesis
<1>9. Len(<<>>) = 0
  OBVIOUS
<1>10. Behind' /\ Backing'
  BY <1>2, <1>3, <1>7, <1>9 DEF Behind, Backing
<1>11. Holding'
  <2>1. l.op \in {"init", "cutover"} /\ (l.op = "init" => l.ids = {})
    BY <1>1
  <2>2. HeldBy("genesis")'
    BY <1>2, <1>3, <1>4, <1>7, <2>1 DEF HeldBy
  <2>3. QED
    BY <1>2, <1>3, <1>4, <1>7, <1>9, <2>2 DEF Holding
<1>12. QED
  BY <1>2, <1>6, <1>7, <1>8, <1>10, <1>11, ToldNow, StepQuiet

LEMMA HeldFits ==
  ASSUME Typed, Holding, todo # <<>>
  PROVE  /\ Fit(todo) /\ ~ledger.torn /\ db.seq = Len(Lines) + Len(todo)
         /\ 1 \in DOMAIN todo /\ todo[1] \in Line
<1>1. HeldBy(holder) /\ ~ledger.torn /\ db.seq = Len(Lines) + Len(todo)
  BY DEF Holding
<1>2. PICK T \in Seq(Line) : T = todo
  BY DEF Typed
<1>3. 1 \in DOMAIN T /\ T[1] \in Line
  <2>1. Len(T) \in Nat \ {0}
    BY <1>2, EmptySeq
  <2>2. QED
    BY <2>1
<1>4. Fit(todo)
  BY <1>1 DEF HeldBy, Fit
<1>5. QED
  BY <1>1, <1>2, <1>3, <1>4

\* The line is down before its writer is answered.
LEMMA AppendLineStep ==
  ASSUME Inv, AppendLine
  PROVE  Inv' /\ Memory!Next
<1>1. PICK T \in Seq(Line) : T = todo /\ T # <<>>
  BY DEF AppendLine, Inv, Typed
<1>2. PICK L \in Seq(Line) : L = Lines
  BY KeptType DEF Inv
<1>3. /\ Fit(T) /\ ~ledger.torn /\ db.seq = Len(L) + Len(T) /\ 1 \in DOMAIN T /\ T[1] \in Line
      /\ HeldBy(holder)
  BY <1>1, <1>2, HeldFits DEF Inv, Holding
<1>4. ledger' = [lines |-> L \o T, torn |-> FALSE] /\ UNCHANGED <<db, repo, backup>>
  BY <1>1, <1>2, <1>3 DEF AppendLine, Appended, Lines
<1>5. L \o T \in Seq(Line) /\ Len(L) \in Nat /\ Len(T) \in Nat
  OBVIOUS
<1>6. Grows(T)
  BY <1>2, <1>3, <1>4, <1>5 DEF Grows
<1>7. Typed'
  <2>1. todo' = <<>>
    BY DEF AppendLine, Unheld
  <2>2. IsLedger(ledger')
    BY <1>4, <1>5 DEF IsLedger
  <2>3. QED
    BY <1>4, <2>1, <2>2 DEF Inv, Typed
<1>8. Holding'
  <2>1. CASE holder = "daemon"
    <3>1. todo' = <<>> /\ UNCHANGED <<db, barred>>
      BY <2>1 DEF AppendLine
    <3>2. Agrees(L \o T)
      BY <1>1, <1>2, <1>3, <2>1 DEF HeldBy
    <3>3. Lines' = L \o T /\ ~ledger'.torn
      BY <1>4 DEF Lines
    <3>4. Agrees(Lines)'
      BY <3>1, <3>2, <3>3 DEF Agrees
    <3>5. QED
      BY <3>1, <3>3, <3>4 DEF Holding
  <2>2. CASE holder # "daemon"
    BY <2>2 DEF AppendLine, Unheld, Holding
  <2>3. QED
    BY <2>1, <2>2
<1>9. told' \subseteq (told \ Released(T)) \cup (IF Dropping(T) THEN {} ELSE Gains(T[1]))
  <2>1. told' = (told \ Released(T)) \cup
                (IF holder \in {"daemon", "genesis"} THEN T[1].ids ELSE {})
    BY <1>1 DEF AppendLine
  <2>2. ASSUME holder \in {"daemon", "genesis"}
        PROVE  ~Dropping(T) /\ T[1].ids \subseteq Gains(T[1])
    <3>1. T[1].op \in {"submit", "init", "cutover"} /\ (T[1].op = "init" => T[1].ids = {})
      BY <1>1, <1>3, <2>2 DEF HeldBy
    <3>2. ~Dropping(T)
      BY <1>3, <3>1 DEF Dropping
    <3>3. QED
      BY <3>1, <3>2 DEF Gains
  <2>3. QED
    BY <2>1, <2>2
<1>10. QED
  BY <1>6, <1>7, <1>8, <1>9, StepGrows

\* What a failed append leaves was staged: the ledger grows by some of it.
LEMMA AppendFailsStep ==
  ASSUME Inv, AppendFails
  PROVE  Inv' /\ Memory!Next
<1>1. PICK W \in Seq(Line) : W = todo /\ W # <<>>
  BY DEF AppendFails, Inv, Typed
<1>2. PICK L \in Seq(Line) : L = Lines
  BY KeptType DEF Inv
<1>3. Fit(W) /\ ~ledger.torn /\ db.seq = Len(L) + Len(W) /\ IsLedger(ledger)
  BY <1>1, <1>2, HeldFits DEF Inv, Typed
<1>4. LandsPartly(ledger, W) /\ UNCHANGED <<db, repo, backup>> /\ ledger.lines = L
  BY <1>1, <1>2 DEF AppendFails, Lines
<1>5. PICK k \in 0..Len(W) : /\ ledger'.lines = L \o SubSeq(W, 1, k)
                             /\ IsLedger(ledger')
                             /\ told' = told \ Released(SubSeq(W, 1, k))
  BY <1>3, <1>4, Lands
<1>6. PICK T : T = SubSeq(W, 1, k)
  OBVIOUS
<1>7. T \in Seq(Line) /\ Len(T) <= Len(W) /\ Fit(T)
  BY <1>3, <1>6, FitCut DEF Inv
<1>8. Len(L) + Len(T) <= db.seq
  BY <1>3, <1>7
<1>9. Grows(T)
  BY <1>2, <1>4, <1>5, <1>6, <1>7, <1>8 DEF Grows
<1>10. todo' = <<>>
  BY DEF AppendFails, Unheld
<1>11. Typed'
  BY <1>4, <1>5, <1>10 DEF Inv, Typed
<1>12. Holding'
  BY <1>10 DEF AppendFails, Unheld, Holding
<1>13. QED
  BY <1>5, <1>6, <1>7, <1>9, <1>11, <1>12, StepGrows

-----------------------------------------------------------------------------
(* Restores and losses *)

\* A restore puts beside the ledger a database that was backed up, with the
\* gap it acknowledges and the rows it purges staged.
LEMMA RestoreStep ==
  ASSUME Inv, NEW i \in DOMAIN repo, NEW reapply \in BOOLEAN, NEW ack,
         Restore(repo[i], reapply, ack)
  PROVE  Inv' /\ Memory!Next
<1>1. PICK L \in Seq(Line) : L = Lines
  BY KeptType DEF Inv
<1>2. PICK D : D = repo[i].db
  OBVIOUS
<1>3. IsDb(D) /\ D.seq > 0 /\ D # Absent
  BY <1>2 DEF Inv, Typed, IsCopy, Absent
<1>4. PICK gap : gap = Expected(L) \ Ids(D)
  OBVIOUS
<1>5. PICK left : left = IF reapply THEN Without(D.rows, Purged(L)) ELSE D.rows
  OBVIOUS
<1>6. PICK due : due = RetentionDue(left, now)
  OBVIOUS
<1>7. /\ DOMAIN left \subseteq Ids(D) /\ due \subseteq DOMAIN left
      /\ gap \subseteq Claims /\ due \subseteq Claims
  <2>1. DOMAIN left \subseteq Ids(D)
    BY <1>5 DEF Without, Ids
  <2>2. due \subseteq DOMAIN left
    BY <1>6 DEF RetentionDue
  <2>3. gap \subseteq Claims
    BY <1>4 DEF Expected
  <2>4. QED
    BY <1>3, <2>1, <2>2, <2>3 DEF IsDb
<1>8. PICK acked : acked = IF gap = {} THEN <<>>
                           ELSE <<[op |-> "gap", seq |-> Len(L) + 1, ids |-> gap]>>
  OBVIOUS
<1>9. acked \in Seq(Line) /\ Dropping(acked) /\ Len(acked) \in Nat /\ (acked = <<>> => gap = {})
  <2>1. [op |-> "gap", seq |-> Len(L) + 1, ids |-> gap] \in Line
    <3>1. Len(L) + 1 \in Nat /\ "gap" \in Ops
      BY DEF Ops
    <3>2. QED
      BY <1>7, <3>1, LineType
  <2>2. QED
    BY <1>8, <2>1 DEF Dropping
<1>10. PICK staged : staged = IF due = {} THEN acked
                              ELSE Append(acked, [op |-> "purge", seq |-> Len(L) + Len(acked) + 1,
                                                  ids |-> due])
  OBVIOUS
<1>11. /\ staged \in Seq(Line) /\ Dropping(staged) /\ Len(staged) \in Nat
       /\ (staged = <<>> => due = {} /\ gap = {})
  <2>1. [op |-> "purge", seq |-> Len(L) + Len(acked) + 1, ids |-> due] \in Line
    <3>1. Len(L) + Len(acked) + 1 \in Nat /\ "purge" \in Ops
      BY <1>9 DEF Ops
    <3>2. QED
      BY <1>7, <3>1, LineType
  <2>2. QED
    BY <1>9, <1>10, <2>1 DEF Dropping
<1>12. PICK base : base = IF ~reapply THEN D
                          ELSE [D EXCEPT !.pseq = LastPurgeSeq(L),
                                  !.seq  = IF gap = {} THEN Len(L) ELSE @,
                                  !.pend = IF gap = {} THEN SubSeq(L, Len(L), Len(L)) ELSE @]
  OBVIOUS
<1>13. PICK whole : whole = IF staged = <<>> THEN [base EXCEPT !.rows = left]
                            ELSE [rows |-> Without(left, due), seq |-> Len(L) + Len(staged),
                                  pend |-> staged,
                                  pseq |-> IF due = {} THEN LastPurgeSeq(L)
                                           ELSE Len(L) + Len(staged)]
  OBVIOUS
<1>14. /\ holder = "none" /\ L # <<>> /\ whole.seq = Len(L) + Len(staged)
       /\ db' = whole /\ ledger' = [ledger EXCEPT !.torn = FALSE]
       /\ todo' = staged /\ holder' = (IF staged = <<>> THEN "none" ELSE "restore")
       /\ UNCHANGED <<repo, backup, told, state>>
  BY <1>1, <1>2, <1>4, <1>5, <1>6, <1>8, <1>10, <1>12, <1>13 DEF Restore, Lines, hist
<1>15. Len(L) \in Nat \ {0}
  BY <1>14, EmptySeq
<1>16. IsLedger(ledger') /\ Lines' = L /\ ~ledger'.torn
  BY <1>1, <1>14 DEF Inv, Typed, IsLedger, Lines
<1>17. DOMAIN base = {"rows", "seq", "pend", "pseq"}
  BY <1>3, <1>12 DEF IsDb
<1>18. staged = <<>> => base.pend = (IF reapply THEN SubSeq(L, Len(L), Len(L)) ELSE D.pend)
  BY <1>3, <1>11, <1>12 DEF IsDb
<1>19. DOMAIN whole = {"rows", "seq", "pend", "pseq"} /\ Ids(whole) \subseteq Claims
  <2>1. CASE staged = <<>>
    <3>1. DOMAIN whole = {"rows", "seq", "pend", "pseq"} /\ whole.rows = left
      BY <1>13, <1>17, <2>1
    <3>2. QED
      BY <1>3, <1>7, <3>1 DEF IsDb, Ids
  <2>2. CASE staged # <<>>
    <3>1. DOMAIN whole = {"rows", "seq", "pend", "pseq"} /\ whole.rows = Without(left, due)
      BY <1>13, <2>2
    <3>2. QED
      BY <1>3, <1>7, <3>1 DEF IsDb, Ids, Without
  <2>3. QED
    BY <2>1, <2>2
<1>20. whole.pend = IF staged # <<>> THEN staged
                    ELSE IF reapply THEN SubSeq(L, Len(L), Len(L)) ELSE D.pend
  <2>1. CASE staged = <<>>
    BY <1>13, <1>17, <1>18, <2>1
  <2>2. CASE staged # <<>>
    BY <1>13, <2>2
  <2>3. QED
    BY <2>1, <2>2
<1>21. SubSeq(L, Len(L), Len(L)) \in Seq(Line) /\ Len(SubSeq(L, Len(L), Len(L))) = 1
       /\ SubSeq(L, Len(L), Len(L))[1] = L[Len(L)]
  BY <1>15
<1>22. IsDb(whole)
  <2>1. whole.seq \in Nat /\ whole.seq > 0
    BY <1>11, <1>14, <1>15
  <2>2. whole.pend \in Seq(Line) /\ Staging(whole.pend)
    BY <1>3, <1>11, <1>20, <1>21 DEF IsDb, Staging
  <2>3. QED
    BY <1>19, <2>1, <2>2 DEF IsDb
<1>23. \A g : GenesisIs(g) => GenesisOf(whole, g)
  <2> SUFFICES ASSUME NEW g, GenesisIs(g), whole.seq = 1
               PROVE  whole.pend = <<g>>
    BY DEF GenesisOf
  <2>1. Len(L) = 1 /\ Len(staged) = 0
    <3>1. Len(L) + Len(staged) = 1
      BY <1>14
    <3>2. \A m \in Nat \ {0}, n \in Nat : m + n = 1 => m = 1 /\ n = 0
      OBVIOUS
    <3>3. QED
      BY <1>11, <1>15, <3>1, <3>2
  <2>2. staged = <<>>
    BY <1>11, <2>1
  <2>3. CASE reapply
    <3>1. PICK P \in Seq(Line) : P = SubSeq(L, Len(L), Len(L))
      BY <1>21
    <3>2. Len(P) = 1 /\ P[1] = L[1]
      BY <1>21, <2>1, <3>1
    <3>3. P = <<L[1]>>
      BY <3>2
    <3>4. L[1] = g
      BY <1>1, <1>14 DEF GenesisIs
    <3>5. QED
      BY <1>20, <2>2, <2>3, <3>1, <3>3, <3>4
  <2>4. CASE ~reapply
    <3>1. D.seq = 1
      BY <1>12, <1>13, <1>17, <2>2, <2>4
    <3>2. D.pend = <<g>>
      BY <1>2, <3>1 DEF GenesisIs, GenesisOf
    <3>3. QED
      BY <1>20, <2>2, <2>4, <3>2
  <2>5. QED
    BY <2>3, <2>4
<1>24. Holding'
  <2>1. CASE staged = <<>>
    BY <1>14, <2>1 DEF Holding
  <2>2. CASE staged # <<>>
    <3>1. HeldBy("restore")'
      BY <1>11, <1>14, <1>16 DEF HeldBy
    <3>2. QED
      BY <1>14, <1>16, <2>2, <3>1 DEF Holding
  <2>3. QED
    BY <2>1, <2>2
<1>25. Len(L) <= whole.seq /\ whole.seq > 0
  BY <1>11, <1>14, <1>15
<1>26. QED
  BY <1>1, <1>11, <1>14, <1>16, <1>22, <1>23, <1>24, <1>25, StepCommit

\* What remains of a lost ledger is the newest verified backup.
LEMMA LoseStep ==
  ASSUME Inv, NEW kind, kind # "copy", Lose(kind)
  PROVE  Inv' /\ Memory!Next
<1>1. /\ todo' = <<>> /\ holder' = "none" /\ backup' = NoBackup /\ repo' = repo
      /\ db' \in {db, Absent}
  BY DEF Lose, Unheld
<1>2. IsDb(Absent) /\ Absent.seq = 0
  BY DEF IsDb, Absent, Ids
<1>3. PICK A \in Seq(Line) : A = Authority /\ A = Authority'
  BY <1>1, AuthorityType DEF Inv, Authority
<1>4. backup'.pc = "idle" /\ DOMAIN backup' = {"pc", "at", "db", "cut", "purge"}
  BY <1>1 DEF NoBackup
<1>5. Backing' /\ Holding'
  BY <1>1, <1>4 DEF Backing, Holding
<1>6. PICK g : GenesisIs(g)
  BY DEF Inv, OneGenesis
<1>7. GenesisOf(db', g)
  BY <1>1, <1>2, <1>6 DEF GenesisIs, GenesisOf
<1>8. <<>> \in Seq(Line) /\ Len(<<>>) = 0
  OBVIOUS
<1>9. CASE kind = "db"
  <2>1. ledger' = ledger /\ told' = told /\ Lines' = Lines /\ db' = Absent
    BY <1>9 DEF Lose, Lines
  <2>2. Typed'
    BY <1>1, <1>2, <1>4, <1>8, <2>1 DEF Inv, Typed
  <2>3. GenesisIs(g)'
    BY <1>1, <1>4, <1>6, <1>7, <2>1 DEF GenesisIs, GenesisOf
  <2>4. OneGenesis'
    BY <2>3 DEF OneGenesis
  <2>5. Behind' /\ Kept' = Kept
    BY <1>1, <1>3, <2>1 DEF Inv, Behind, Kept, Lines
  <2>6. QED
    BY <1>1, <1>5, <2>1, <2>2, <2>4, <2>5, ToldNow, StepQuiet
<1>10. CASE kind # "db"
  <2>1. ledger' = [lines |-> <<>>, torn |-> FALSE] /\ told' = told \cap Expected(A) /\ Lines' = <<>>
    BY <1>3, <1>10 DEF Lose, Lines
  <2>2. IsLedger(ledger')
    BY <1>8, <2>1 DEF IsLedger
  <2>3. Typed'
    BY <1>1, <1>2, <1>4, <1>8, <2>2 DEF Inv, Typed
  <2>4. GenesisIs(g)'
    BY <1>1, <1>4, <1>6, <1>7, <2>1 DEF GenesisIs, GenesisOf
  <2>5. OneGenesis'
    BY <2>4 DEF OneGenesis
  <2>6. Behind'
    <3>1. db' # Absent => db' = db /\ db.seq \in Nat /\ Len(A) <= db.seq
      BY <1>1, <1>3 DEF Inv, Behind, Typed, IsDb
    <3>2. QED
      BY <1>3, <1>8, <2>1, <3>1 DEF Behind
  <2>7. Kept' = A
    BY <1>3, <2>1 DEF Kept, Lines
  <2>8. ToldIsKept'
    <3>1. told' \subseteq Expected(Kept')
      BY <2>1, <2>7
    <3>2. QED
      BY <3>1 DEF ToldIsKept, Kept
  <2>9. Memory!Lose
    <3>1. ~Open("daemon")'
      BY <1>1 DEF Open
    <3>2. QED
      BY <1>3, <2>7, <3>1 DEF Memory!Lose
  <2>10. QED
    BY <1>5, <2>3, <2>5, <2>6, <2>8, <2>9 DEF Inv, Memory!Next
<1>11. QED
  BY <1>9, <1>10

-----------------------------------------------------------------------------
(* The theorems *)

LEMMA InvInit == Init => Inv /\ Memory!Init
<1> SUFFICES ASSUME Init
             PROVE  Inv /\ Memory!Init
  OBVIOUS
<1>1. /\ Lines = <<>> /\ repo = <<>> /\ Authority = <<>> /\ Kept = <<>> /\ db = Absent
      /\ backup.pc = "idle" /\ todo = <<>> /\ holder = "none" /\ told = {}
  BY DEF Init, Lines, Authority, Kept, NoBackup
<1>2. Typed
  <2>1. IsDb(Absent) /\ <<>> \in Seq(Line) /\ <<>> \in Seq({})
    BY DEF IsDb, Absent, Ids
  <2>2. IsLedger(ledger)
    BY DEF Init, IsLedger
  <2>3. DOMAIN backup = {"pc", "at", "db", "cut", "purge"}
    BY DEF Init, NoBackup
  <2>4. QED
    BY <1>1, <2>1, <2>2, <2>3 DEF Typed
<1>3. OneGenesis
  <2>1. \A g : GenesisIs(g)
    BY <1>1 DEF GenesisIs, GenesisOf, Absent
  <2>2. QED
    BY <2>1 DEF OneGenesis
<1>4. Behind /\ Backing /\ Holding /\ ToldIsKept
  BY <1>1 DEF Behind, Backing, Holding, ToldIsKept
<1>5. Memory!Init
  BY <1>1, EmptyFolds DEF Memory!Init, Open
<1>6. QED
  BY <1>2, <1>3, <1>4, <1>5 DEF Inv

\* Every step of the store is a step of the memory, or leaves it as it is.
LEMMA InvStep ==
  ASSUME NoHandCopy, Inv, [Next]_vars
  PROVE  Inv' /\ [Memory!Next]_Memory!vars
<1>1. CASE UNCHANGED vars
  <2>1. UNCHANGED <<db, ledger, repo, proc, backup, told>>
    BY <1>1 DEF vars, store, hist
  <2>2. todo' \in Seq(Line) /\ Holding'
    BY <2>1, HoldingSame DEF Inv, Typed, proc
  <2>3. QED
    BY <2>1, <2>2, ToldNow, StepSame
<1>2. CASE Next
  <2>1. ASSUME NEW h \in {"daemon", "purge"}, Start(h)
        PROVE  Inv' /\ Memory!Next
    BY <2>1, StartStep
  <2>2. CASE BadConfig \/ GoodConfig \/ Stop
    BY <2>2, BadConfigStep, GoodConfigStep, StopStep
  <2>3. ASSUME NEW c \in Claims, NEW prior \in SUBSET Claims, Submit(c, prior)
        PROVE  Inv' /\ Memory!Next
    BY <2>3, SubmitStep
  <2>4. ASSUME NEW c \in Claims, Resubmit(c)
        PROVE  Inv' /\ Memory!Next
    BY <2>4, ResubmitStep
  <2>5. ASSUME NEW S \in SUBSET Claims, NEW r \in {"retention", "d", "id"}, Purge(S, r)
        PROVE  Inv' /\ Memory!Next
    BY <2>5, PurgeStep
  <2>6. ASSUME NEW S \in {{}, Imports}, Genesis(S)
        PROVE  Inv' /\ Memory!Next
    <3>1. S \in SUBSET Claims
      BY DEF NoHandCopy
    <3>2. QED
      BY <2>6, <3>1, GenesisStep
  <2>7. CASE AppendLine \/ AppendFails
    BY <2>7, AppendLineStep, AppendFailsStep
  <2>8. CASE BackupStart \/ BackupCopy \/ BackupCut \/ BackupVerify \/ RecordVerified \/ BackupFails
    BY <2>8, BackupStartStep, BackupCopyStep, BackupCutStep, BackupVerifyStep, RecordVerifiedStep
  <2>9. CASE InstallLedger
    BY <2>9, InstallLedgerStep
  <2>10. ASSUME NEW i \in DOMAIN repo, NEW reapply \in BOOLEAN, NEW ack \in 0..MaxSeq,
                Restore(repo[i], reapply, ack)
         PROVE  Inv' /\ Memory!Next
    BY <2>10, RestoreStep
  <2>11. ASSUME NEW k \in Losses, Lose(k)
         PROVE  Inv' /\ Memory!Next
    BY <2>11, LoseStep DEF NoHandCopy
  <2>12. CASE Tick
    BY <2>12, TickStep
  <2>13. QED
    BY <1>2, <2>1, <2>2, <2>3, <2>4, <2>5, <2>6, <2>7, <2>8, <2>9, <2>10, <2>11, <2>12 DEF Next
<1>3. QED
  BY <1>1, <1>2

\* A claim whose writer was told "accepted" is in what the ledger says, or,
\* while there is no ledger, in what the newest verified backup says, until a
\* purge, an acknowledged gap or a loss newer than that backup takes it.
THEOREM Promised ==
  ASSUME NoHandCopy
  PROVE  Spec => []ToldIsKept
<1>1. Inv /\ [Next]_vars => Inv'
  BY InvStep
<1>2. Inv => ToldIsKept
  BY DEF Inv
<1>3. QED
  BY <1>1, <1>2, InvInit, PTL DEF Spec

\* The store implements the memory: its readers are answered from exactly what
\* is kept or not at all, what was purged never returns, no backup forgets a
\* purge an older one knew, and a lost ledger falls back to the newest of them.
THEOREM Refines ==
  ASSUME NoHandCopy
  PROVE  Spec => KeepsTheMemory
<1>1. Inv /\ [Next]_vars => Inv' /\ [Memory!Next]_Memory!vars
  BY InvStep
<1>2. QED
  BY <1>1, InvInit, PTL DEF Spec, KeepsTheMemory, Memory!Spec

-----------------------------------------------------------------------------
(* The service before the store: an update replaces what its writer saw. *)

\* A row names what it replaced and what its writer had looked up.
RowTold(r) == /\ {"cur", "saw", "over"} \subseteq DOMAIN r
              /\ r.over = (IF r.saw = 0 THEN {} ELSE {r.saw})
Entries(s) == {s[i] : i \in DOMAIN s}
RowsTold == rows \in Seq(Entries(rows)) /\ \A i \in DOMAIN rows : RowTold(rows[i])

\* Taking the place of a head leaves of a row what it names.
LEMMA Replaced ==
  ASSUME NEW r, RowTold(r), NEW b
  PROVE  RowTold([r EXCEPT !.cur = b])
BY DEF RowTold

LEMMA OwnEntries ==
  ASSUME NEW s, NEW n \in Nat, s = [i \in 1..n |-> s[i]]
  PROVE  s \in Seq(Entries(s)) /\ DOMAIN s = 1..n
<1>1. DOMAIN s = 1..n
  OBVIOUS
<1>2. \A i \in 1..n : s[i] \in Entries(s)
  BY <1>1 DEF Entries
<1>3. s \in [1..n -> Entries(s)]
  BY <1>2
<1>4. QED
  BY <1>1, <1>3, SeqDef

LEMMA AppendEntries ==
  ASSUME NEW S, NEW s \in Seq(S), NEW e
  PROVE  /\ Append(s, e) \in Seq(Entries(Append(s, e)))
         /\ \A i \in DOMAIN Append(s, e) : Append(s, e)[i] = e \/ \E j \in DOMAIN s : Append(s, e)[i] = s[j]
<1>1. PICK T : T = S \cup {e}
  OBVIOUS
<1>2. s \in Seq(T) /\ e \in T
  BY <1>1, SeqMonotonic
<1>3. PICK a : a = Append(s, e)
  OBVIOUS
<1>4. /\ a \in Seq(T) /\ Len(a) = Len(s) + 1
      /\ \A i \in 1..Len(s) : a[i] = s[i]
      /\ a[Len(s) + 1] = e
  BY <1>2, <1>3, AppendProperties
<1>5. /\ DOMAIN a = 1 .. Len(s) + 1 /\ DOMAIN s = 1..Len(s) /\ Len(s) \in Nat
      /\ \A i \in DOMAIN a : i \in DOMAIN s \/ i = Len(s) + 1
  BY <1>4
<1>6. a \in Seq(Entries(a))
  <2>1. a = [i \in 1..Len(a) |-> a[i]] /\ Len(a) \in Nat
    BY <1>4
  <2>2. QED
    BY <2>1, OwnEntries
<1>7. QED
  BY <1>3, <1>4, <1>5, <1>6

\* A claim is stored over the heads its writer had looked up.
LEMMA StoredTold ==
  ASSUME RowsTold, NEW x, NEW prior, NEW heads,
         heads = (IF prior = 0 THEN {} ELSE {prior}), rows' = Stored(x, prior, heads)
  PROVE  RowsTold'
<1> DEFINE old == [i \in DOMAIN rows |-> [rows[i] EXCEPT !.cur = @ /\ i \notin heads]]
           new == [by |-> x.by, scope |-> x.scope, slug |-> x.slug, made |-> x.made,
                   status |-> x.status, sup |-> x.sup, exp |-> x.exp, cur |-> TRUE,
                   at |-> time, saw |-> prior, over |-> heads]
<1>1. rows' = Append(old, new)
  BY DEF Stored
<1>2. DOMAIN rows = 1..Len(rows) /\ Len(rows) \in Nat
  BY DEF RowsTold
<1>3. \A i \in DOMAIN rows : RowTold(old[i])
  BY Replaced DEF RowsTold
<1>4. RowTold(new)
  BY DEF RowTold
<1>5. old \in Seq(Entries(old)) /\ DOMAIN old = DOMAIN rows
  <2>1. old = [i \in 1..Len(rows) |-> old[i]]
    BY <1>2
  <2>2. QED
    BY <1>2, <2>1, OwnEntries
<1> HIDE DEF old, new
<1>6. PICK o, e : o = old /\ e = new
  OBVIOUS
<1>7. o \in Seq(Entries(o))
  BY <1>5, <1>6
<1>8. /\ Append(o, e) \in Seq(Entries(Append(o, e)))
      /\ \A i \in DOMAIN Append(o, e) : Append(o, e)[i] = e \/ \E j \in DOMAIN o : Append(o, e)[i] = o[j]
  BY <1>7, AppendEntries
<1>9. rows' = Append(o, e)
  BY <1>1, <1>6
<1>10. PICK a : a = Append(o, e)
  OBVIOUS
<1>11. rows' = a /\ a \in Seq(Entries(a)) /\ \A i \in DOMAIN a : a[i] = e \/ \E j \in DOMAIN o : a[i] = o[j]
  BY <1>8, <1>9, <1>10
<1>12. \A i \in DOMAIN a : RowTold(a[i])
  BY <1>3, <1>4, <1>5, <1>6, <1>11
<1>13. RowsTold' <=> (a \in Seq(Entries(a)) /\ \A i \in DOMAIN a : RowTold(a[i]))
  <2>1. RowsTold' <=> (rows' \in Seq(Entries(rows')) /\ \A i \in DOMAIN rows' : RowTold(rows'[i]))
    BY DEF RowsTold, Entries, RowTold
  <2>2. QED
    BY <1>11, <2>1
<1>14. QED
  BY <1>11, <1>12, <1>13

\* memory_submit stores a claim over its writer's prior, or stores nothing.
LEMMA SubmitTold ==
  ASSUME RowsTold, NEW k, NEW x, NEW prior, MemorySubmit(k, x, prior)
  PROVE  RowsTold'
<1>1. PICK heads : heads = Current(x.by, x.scope, x.slug)
  OBVIOUS
<1>2. \/ UNCHANGED rows
      \/ heads = (IF prior = 0 THEN {} ELSE {prior}) /\ rows' = Stored(x, prior, heads)
  BY <1>1 DEF MemorySubmit
<1>3. CASE UNCHANGED rows
  BY <1>3 DEF RowsTold, Entries, RowTold
<1>4. CASE heads = (IF prior = 0 THEN {} ELSE {prior}) /\ rows' = Stored(x, prior, heads)
  BY <1>4, StoredTold
<1>5. QED
  BY <1>2, <1>3, <1>4

\* No update is lost: what an accepted claim replaced is what its writer had
\* looked up, for any sockets, configurations, reloads and interleaved sessions.
THEOREM NoneLost == ServiceSpec => []NoLostUpdate
<1>1. ServiceInit => RowsTold
  <2>1. ASSUME ServiceInit
        PROVE  RowsTold
    <3>1. rows = <<>> /\ DOMAIN rows = {}
      BY <2>1 DEF ServiceInit
    <3>2. <<>> \in Seq(Entries(rows))
      OBVIOUS
    <3>3. QED
      BY <3>1, <3>2 DEF RowsTold
  <2>2. QED
    BY <2>1
<1>2. RowsTold /\ [ServiceNext]_serviceVars => RowsTold'
  <2> SUFFICES ASSUME RowsTold, [ServiceNext]_serviceVars
               PROVE  RowsTold'
    OBVIOUS
  <2>1. CASE UNCHANGED rows
    BY <2>1 DEF RowsTold, Entries, RowTold
  <2>2. ASSUME NEW k \in Conns, Write(k)
        PROVE  RowsTold'
    BY <2>2, SubmitTold DEF Write
  <2>3. UNCHANGED rows \/ \E k \in Conns : Write(k)
    <3>1. ASSUME Sighup \/ Trouble \/ TimePasses
          PROVE  UNCHANGED rows
      BY <3>1 DEF Sighup, Trouble, TimePasses
    <3>2. ASSUME NEW k \in Conns, Connect(k) \/ Leave(k)
          PROVE  UNCHANGED rows
      BY <3>2 DEF Connect, Leave
    <3>3. ASSUME NEW k \in Conns, Read(k) \/ \E s \in Scopes, slug \in Slugs : Lookup(k, s, slug)
          PROVE  UNCHANGED rows
      BY <3>3 DEF Read, Lookup
    <3>4. QED
      BY <3>1, <3>2, <3>3 DEF ServiceNext, Serve, serviceVars
  <2>4. QED
    BY <2>1, <2>2, <2>3
<1>3. RowsTold => NoLostUpdate
  BY DEF RowsTold, RowTold, NoLostUpdate
<1>4. QED
  BY <1>1, <1>2, <1>3, PTL DEF ServiceSpec

=============================================================================
