----------------------------- MODULE Seats_proofs -----------------------------
(***************************************************************************)
(* Proofs about the seats an agent is woken in: the answer read back from   *)
(* a Codex thread (DesktopTurn), the newest session of the HTTPS door       *)
(* (ChannelDoor), and what a pane's program leaves behind (PaneSession).    *)
(***************************************************************************)
EXTENDS DesktopTurn, ChannelDoor, PaneSession, SequenceTheorems, WellFoundedInduction, TLAPS

-----------------------------------------------------------------------------
(* An answer read back from the thread (DesktopTurn). *)

Who == Envelopes \cup {Owner}
Item == [by : {"user", "agent"}, of : Who, fits : BOOLEAN]
Turn == [status : {"inProgress", "completed", "interrupted"}, items : Seq(Item)]

\* In a turn every answer comes right after the message it answers.
Exchange(s) ==
  /\ s \in Seq(Item) /\ s # <<>>
  /\ \A i \in DOMAIN s : s[i].by = "agent" => i > 1 /\ s[i - 1].by = "user" /\ s[i - 1].of = s[i].of
Threaded(ts) == ts \in Seq(Turn) /\ \A t \in DOMAIN ts : Exchange(ts[t].items)

\* The call under way: its envelope, its turn, and the answer it has found.
CallTold(c, ts) ==
  /\ DOMAIN c = {"pc", "env", "turn", "got", "fits"} /\ c.env \in Who
  /\ c.pc \in {"steer", "resteer", "poll", "hear"} => c.turn \in DOMAIN ts
  /\ c.pc = "reply" /\ c.got.how = "recovered" => c.got.to = c.env

\* A request whose caller is gone names its envelope, and a turn unless it starts one.
LeftTold(l, ts) ==
  \A r \in l : /\ DOMAIN r = {"env", "turn", "op", "stale"} /\ r.env \in Who
               /\ r.op # "start" => r.turn \in DOMAIN ts

DeskInv ==
  /\ Threaded(turns) /\ active \in 0 .. Len(turns) /\ CallTold(call, turns)
  /\ LeftTold(left, turns) /\ queue \in Seq(Envelopes)
  /\ DOMAIN reply = Envelopes /\ RecoveredIsToReceipt

\* The least of a set of numbers is one of them.
LEMMA FirstIs ==
  ASSUME NEW S \in SUBSET Nat, S # {}
  PROVE  First(S) \in S
<1>1. PICK x \in S : \A y \in S : ~(<<y, x>> \in OpToRel(<, Nat))
  BY WFMin, NatLessThanWellFounded
<1>2. ASSUME NEW y \in S PROVE x <= y
  <2>1. x \in Nat /\ y \in Nat
    OBVIOUS
  <2>2. ~(y < x)
    BY <1>1, <2>1 DEF OpToRel
  <2>3. QED
    BY <2>1, <2>2
<1>3. QED
  BY <1>2 DEF First

LEMMA SaysItem ==
  ASSUME NEW w \in Who
  PROVE  Says(w) \in Item /\ Says(w).by = "user" /\ Says(w).of = w
BY DEF Says, Item

\* What AfterReceipt finds answers the receipt: the message before it is the
\* receipt itself, and no other message lies between.
LEMMA ReceiptAnswered ==
  ASSUME Threaded(turns), NEW t \in DOMAIN turns, NEW e, NEW i \in AfterReceipt(t, e)
  PROVE  i \in Nat /\ turns[t].items[i].of = e
<1>1. PICK s \in Seq(Item) : s = turns[t].items /\ Exchange(s)
  BY DEF Threaded, Exchange
<1>2. i \in DOMAIN s /\ s[i].by = "agent"
  BY <1>1 DEF AfterReceipt, Items
<1>3. PICK u \in DOMAIN s : u < i /\ s[u] = Says(e) /\ \A m \in (u + 1) .. i : s[m].by = "agent"
  BY <1>1 DEF AfterReceipt, Items
<1>4. i > 1 /\ s[i - 1].by = "user" /\ s[i - 1].of = s[i].of /\ i \in Nat /\ u \in Nat
  BY <1>1, <1>2 DEF Exchange
<1>5. i - 1 \notin (u + 1) .. i
  BY <1>3, <1>4
<1>6. i - 1 = u
  BY <1>3, <1>4, <1>5
<1>7. s[u].of = e
  BY <1>3 DEF Says
<1>8. QED
  BY <1>1, <1>4, <1>6, <1>7

-----------------------------------------------------------------------------
(* What a message and an answer do to the thread. *)

LEMMA ExchangeOpened ==
  ASSUME NEW w \in Who
  PROVE  Exchange(<<Says(w)>>)
<1>1. PICK m \in Item : m = Says(w) /\ m.by = "user"
  BY SaysItem
<1>2. <<m>> \in Seq(Item) /\ <<m>> # <<>> /\ DOMAIN <<m>> = {1} /\ <<m>>[1] = m
  OBVIOUS
<1>3. QED
  BY <1>1, <1>2 DEF Exchange

LEMMA ExchangeGrown ==
  ASSUME NEW s, Exchange(s), NEW m \in Item,
         m.by = "agent" => s[Len(s)].by = "user" /\ s[Len(s)].of = m.of
  PROVE  Exchange(Append(s, m))
<1>1. s \in Seq(Item) /\ s # <<>> /\ Len(s) \in Nat /\ Len(s) >= 1
  BY EmptySeq DEF Exchange
<1>a. PICK a : a = Append(s, m)
  OBVIOUS
<1>2. a \in Seq(Item) /\ a = Append(s, m)
  BY <1>1, <1>a
<1>3. /\ Len(a) = Len(s) + 1 /\ DOMAIN a = 1 .. (Len(s) + 1) /\ DOMAIN s = 1 .. Len(s)
      /\ \A i \in 1 .. Len(s) : a[i] = s[i]
      /\ a[Len(s) + 1] = m
  BY <1>1, <1>2
<1>4. ASSUME NEW i \in DOMAIN a, a[i].by = "agent"
      PROVE  i > 1 /\ a[i - 1].by = "user" /\ a[i - 1].of = a[i].of
  <2>1. CASE i \in 1 .. Len(s)
    <3>1. i > 1 /\ s[i - 1].by = "user" /\ s[i - 1].of = s[i].of
      BY <1>3, <1>4, <2>1 DEF Exchange
    <3>2. i - 1 \in 1 .. Len(s)
      BY <1>1, <2>1, <3>1
    <3>3. QED
      BY <1>3, <2>1, <3>1, <3>2
  <2>2. CASE i = Len(s) + 1
    <3>1. i > 1 /\ i - 1 = Len(s) /\ Len(s) \in 1 .. Len(s)
      BY <1>1, <2>2
    <3>2. QED
      BY <1>3, <1>4, <2>2, <3>1
  <2>3. QED
    BY <1>1, <1>3, <2>1, <2>2
<1>5. a # <<>>
  BY <1>1, <1>3
<1>6. QED
  BY <1>2, <1>4, <1>5 DEF Exchange

LEMMA ThreadOpened ==
  ASSUME NEW ts, Threaded(ts), NEW w \in Who, NEW to,
         to = Append(ts, [status |-> "inProgress", items |-> <<Says(w)>>])
  PROVE  Threaded(to) /\ Len(to) = Len(ts) + 1 /\ Len(ts) \in Nat /\ DOMAIN ts \subseteq DOMAIN to
<1>1. PICK r : r = [status |-> "inProgress", items |-> <<Says(w)>>]
  OBVIOUS
<1>2. Exchange(r.items)
  BY <1>1, ExchangeOpened
<1>3. r \in Turn
  BY <1>1, <1>2 DEF Turn, Exchange
<1>4. to = Append(ts, r) /\ ts \in Seq(Turn)
  BY <1>1 DEF Threaded
<1>5. /\ to \in Seq(Turn) /\ Len(to) = Len(ts) + 1 /\ Len(ts) \in Nat
      /\ DOMAIN ts = 1 .. Len(ts) /\ DOMAIN to = 1 .. (Len(ts) + 1)
      /\ to[Len(ts) + 1] = r /\ \A i \in 1 .. Len(ts) : to[i] = ts[i]
  BY <1>3, <1>4
<1>6. ASSUME NEW i \in DOMAIN to PROVE Exchange(to[i].items)
  <2>1. i = Len(ts) + 1 \/ i \in 1 .. Len(ts)
    BY <1>5
  <2>2. QED
    BY <1>2, <1>5, <2>1 DEF Threaded
<1>7. QED
  BY <1>5, <1>6 DEF Threaded

LEMMA ThreadChanged ==
  ASSUME NEW ts, Threaded(ts), NEW t \in DOMAIN ts, NEW r \in Turn, Exchange(r.items), NEW to,
         to = [ts EXCEPT ![t] = r]
  PROVE  Threaded(to) /\ Len(to) = Len(ts) /\ DOMAIN to = DOMAIN ts
<1>1. ts \in Seq(Turn) /\ to \in Seq(Turn) /\ Len(to) = Len(ts) /\ DOMAIN to = DOMAIN ts
  BY DEF Threaded
<1>2. ASSUME NEW i \in DOMAIN to PROVE Exchange(to[i].items)
  BY <1>1 DEF Threaded
<1>3. QED
  BY <1>1, <1>2 DEF Threaded

\* A message or an answer m joins turn t.
Grown(ts, t, m, to) == to = [ts EXCEPT ![t].items = Append(@, m)]
Fits(s, m) == m.by = "agent" => s[Len(s)].by = "user" /\ s[Len(s)].of = m.of

LEMMA Regrown ==
  ASSUME NEW r \in Turn, NEW a \in Seq(Item)
  PROVE  [r EXCEPT !.items = a] \in Turn /\ [r EXCEPT !.items = a].items = a
BY DEF Turn

LEMMA ThreadGrown ==
  ASSUME NEW ts, Threaded(ts), NEW t \in DOMAIN ts, NEW m \in Item, NEW to,
         Fits(ts[t].items, m), Grown(ts, t, m, to)
  PROVE  Threaded(to) /\ Len(to) = Len(ts) /\ DOMAIN to = DOMAIN ts
<1>1. PICK s, a : s = ts[t].items /\ a = Append(s, m)
  OBVIOUS
<1>2. Exchange(s) /\ ts[t] \in Turn
  BY <1>1 DEF Threaded
<1>3. Exchange(a)
  BY <1>1, <1>2, ExchangeGrown DEF Fits
<1>4. PICK r : r = [ts[t] EXCEPT !.items = a]
  OBVIOUS
<1>5. r \in Turn /\ Exchange(r.items)
  BY <1>2, <1>3, <1>4, Regrown DEF Exchange
<1>6. to = [ts EXCEPT ![t] = r]
  BY <1>1, <1>4 DEF Grown
<1>7. QED
  BY <1>5, <1>6, ThreadChanged

\* A message is delivered: it opens a turn, or joins the one under way.
LEMMA OpenedThread ==
  ASSUME DeskInv, NEW w \in Who, Opened(w)
  PROVE  /\ Threaded(turns)' /\ (active \in 0 .. Len(turns))' /\ DOMAIN turns \subseteq DOMAIN turns'
         /\ Len(turns) + 1 \in DOMAIN turns'
<1>1. PICK ts, to : ts = turns /\ to = turns' /\ Threaded(ts)
  BY DEF DeskInv
<1>2. to = Append(ts, [status |-> "inProgress", items |-> <<Says(w)>>]) /\ active' = Len(ts) + 1
  BY <1>1 DEF Opened
<1>3. /\ Threaded(to) /\ Len(to) = Len(ts) + 1 /\ Len(ts) \in Nat /\ DOMAIN ts \subseteq DOMAIN to
  BY <1>1, <1>2, ThreadOpened
<1>4. Len(ts) + 1 \in DOMAIN to /\ Len(ts) + 1 \in 0 .. Len(to)
  BY <1>3 DEF Threaded
<1>5. Threaded(turns)'
  BY <1>1, <1>3 DEF Threaded
<1>6. QED
  BY <1>1, <1>2, <1>3, <1>4, <1>5

LEMMA JoinedThread ==
  ASSUME DeskInv, NEW w \in Who, NEW t, Joined(w, t), t \in DOMAIN turns
  PROVE  Threaded(turns)' /\ (active \in 0 .. Len(turns))' /\ DOMAIN turns' = DOMAIN turns
<1>1. PICK ts, to : ts = turns /\ to = turns' /\ Threaded(ts)
  BY DEF DeskInv
<1>2. PICK m \in Item : m = Says(w) /\ m.by = "user"
  BY SaysItem
<1>3. to = [ts EXCEPT ![t].items = Append(@, m)] /\ active' = active
  BY <1>1, <1>2 DEF Joined
<1>a. Grown(ts, t, m, to) /\ Fits(ts[t].items, m) /\ t \in DOMAIN ts
  BY <1>1, <1>2, <1>3 DEF Grown, Fits
<1>4. Threaded(to) /\ Len(to) = Len(ts) /\ DOMAIN to = DOMAIN ts
  BY <1>1, <1>a, ThreadGrown
<1>5. Threaded(turns)'
  BY <1>1, <1>4 DEF Threaded
<1>6. QED
  BY <1>1, <1>3, <1>4, <1>5 DEF DeskInv

\* What is known of a call stays so while the thread only grows.
LEMMA CallStays ==
  ASSUME CallTold(call, turns), DOMAIN turns \subseteq DOMAIN turns', call' = call
  PROVE  CallTold(call, turns)'
BY DEF CallTold

LEMMA ActiveTurn ==
  ASSUME DeskInv, active # 0
  PROVE  active \in DOMAIN turns /\ active > 0
BY DEF DeskInv, Threaded

\* Steps of the thread's people, which no call makes.
LEMMA DeskQuiet ==
  ASSUME DeskInv, Threaded(turns)', (active \in 0 .. Len(turns))', DOMAIN turns \subseteq DOMAIN turns',
         UNCHANGED <<queue, reply, call>>, left' \subseteq left
  PROVE  DeskInv'
<1>1. CallTold(call, turns)'
  BY CallStays DEF DeskInv
<1>2. RecoveredIsToReceipt'
  BY DEF DeskInv, RecoveredIsToReceipt
<1>3. LeftTold(left, turns)'
  BY DEF DeskInv, LeftTold
<1>4. QED
  BY <1>1, <1>2, <1>3 DEF DeskInv

LEMMA OwnerSaysStep ==
  ASSUME DeskInv, OwnerSays
  PROVE  DeskInv'
<1>1. Owner \in Who /\ UNCHANGED <<queue, reply, call, left>>
  BY DEF Who, OwnerSays
<1>2. CASE active = 0
  <2>1. Opened(Owner)
    BY <1>2 DEF OwnerSays
  <2>2. QED
    BY <1>1, <2>1, OpenedThread, DeskQuiet
<1>3. CASE active # 0
  <2>1. Joined(Owner, active)
    BY <1>3 DEF OwnerSays
  <2>2. QED
    BY <1>1, <1>3, <2>1, ActiveTurn, JoinedThread, DeskQuiet
<1>4. QED
  BY <1>2, <1>3

LEMMA AnswerStep ==
  ASSUME DeskInv, NEW f \in BOOLEAN, Answer(f)
  PROVE  DeskInv'
<1>1. active \in DOMAIN turns /\ UNCHANGED <<active, queue, reply, call, left>>
  BY ActiveTurn DEF Answer
<1>2. PICK ts, to, t : ts = turns /\ to = turns' /\ t = active
  OBVIOUS
<1>3. Threaded(ts) /\ t \in DOMAIN ts
  BY <1>1, <1>2 DEF DeskInv
<1>4. PICK s : s = ts[t].items /\ Exchange(s)
  BY <1>3 DEF Threaded
<1>5. s \in Seq(Item) /\ Len(s) \in DOMAIN s
  BY <1>4, EmptySeq DEF Exchange
<1>6. s[Len(s)] \in Item
  BY <1>5
<1>7. PICK m \in Item : m = [by |-> "agent", of |-> s[Len(s)].of, fits |-> f]
  BY <1>6 DEF Item
<1>8. Fits(ts[t].items, m) /\ Grown(ts, t, m, to)
  BY <1>2, <1>4, <1>7 DEF Answer, Fits, Grown
<1>9. Threaded(to) /\ Len(to) = Len(ts) /\ DOMAIN to = DOMAIN ts
  BY <1>3, <1>8, ThreadGrown
<1>10. Threaded(turns)'
  BY <1>2, <1>9 DEF Threaded
<1>11. (active \in 0 .. Len(turns))'
  BY <1>1, <1>2, <1>9 DEF DeskInv
<1>12. QED
  BY <1>1, <1>2, <1>9, <1>10, <1>11, DeskQuiet

LEMMA TurnEndsStep ==
  ASSUME DeskInv, NEW st \in {"completed", "interrupted", "inProgress"}, TurnEnds(st)
  PROVE  DeskInv'
<1>1. active \in DOMAIN turns /\ active' = 0 /\ UNCHANGED <<queue, reply, call, left>>
  BY ActiveTurn DEF TurnEnds
<1>2. PICK ts, to, t : ts = turns /\ to = turns' /\ t = active
  OBVIOUS
<1>3. Threaded(ts) /\ t \in DOMAIN ts /\ ts[t] \in Turn /\ Exchange(ts[t].items)
  BY <1>1, <1>2 DEF DeskInv, Threaded
<1>a. PICK r : r = [ts[t] EXCEPT !.status = st]
  OBVIOUS
<1>4. r \in Turn /\ r = [ts[t] EXCEPT !.status = st] /\ r.items = ts[t].items
  BY <1>3, <1>a DEF Turn
<1>5. to = [ts EXCEPT ![t] = r]
  BY <1>2, <1>4 DEF TurnEnds
<1>6. Threaded(to) /\ Len(to) = Len(ts) /\ DOMAIN to = DOMAIN ts /\ Len(ts) \in Nat
  BY <1>3, <1>4, <1>5, ThreadChanged DEF Threaded
<1>7. Threaded(turns)'
  BY <1>2, <1>6 DEF Threaded
<1>8. QED
  BY <1>1, <1>2, <1>6, <1>7, DeskQuiet

-----------------------------------------------------------------------------
(* The adapter's steps. *)

\* Steps that leave the thread and the replies alone.
LEMMA DeskCall ==
  ASSUME DeskInv, CallTold(call, turns)', UNCHANGED <<turns, active, queue, reply, left>>
  PROVE  DeskInv'
BY DEF DeskInv, RecoveredIsToReceipt, Threaded, LeftTold

LEMMA IdleTold ==
  ASSUME NEW ts
  PROVE  CallTold(Idle, ts)
BY DEF CallTold, Idle, Who, NoReply

\* An answer is found for the receipt of the call.
LEMMA FoundTold ==
  ASSUME DeskInv, NEW t \in DOMAIN turns, AfterReceipt(t, call.env) # {},
         Has(t, First(AfterReceipt(t, call.env)), "recovered")
  PROVE  CallTold(call', turns)
<1>1. PICK i \in AfterReceipt(t, call.env) : i = First(AfterReceipt(t, call.env))
  <2>1. AfterReceipt(t, call.env) \subseteq Nat
    BY ReceiptAnswered DEF DeskInv
  <2>2. QED
    BY <2>1, FirstIs
<1>2. turns[t].items[i].of = call.env
  BY ReceiptAnswered DEF DeskInv
<1>3. call' = [call EXCEPT !.pc = "reply", !.got = [to |-> call.env, how |-> "recovered"],
                            !.fits = turns[t].items[i].fits]
  BY <1>1, <1>2 DEF Has, Found
<1>4. QED
  BY <1>3 DEF DeskInv, CallTold

LEMMA PriorTurn ==
  ASSUME DeskInv, NEW e, Deduped(e)
  PROVE  First(Prior(e)) \in DOMAIN turns
<1>1. Prior(e) \in SUBSET Nat /\ Prior(e) # {} /\ Prior(e) \subseteq DOMAIN turns
  BY DEF DeskInv, Threaded, Prior, Deduped
<1>2. QED
  BY <1>1, FirstIs

LEMMA TakeStep ==
  ASSUME DeskInv, Take
  PROVE  DeskInv'
<1>1. PICK i \in DOMAIN queue : i = First(Pending)
  <2>1. Pending \in SUBSET Nat /\ Pending # {} /\ Pending \subseteq DOMAIN queue
    BY DEF Pending, DeskInv, Take
  <2>2. QED
    BY <2>1, FirstIs
<1>2. queue[i] \in Who
  BY DEF DeskInv, Who
<1>3. call' = [Idle EXCEPT !.pc = "read", !.env = queue[i]]
  BY <1>1 DEF Take
<1>4. CallTold(call, turns)'
  BY <1>2, <1>3 DEF CallTold, Idle
<1>5. QED
  BY <1>4, DeskCall DEF Take, thread

LEMMA ReadStep ==
  ASSUME DeskInv, Read
  PROVE  DeskInv'
<1>1. /\ UNCHANGED <<turns, active, queue, reply>> /\ Current = call.env
      /\ left' = {[r EXCEPT !.stale = TRUE] : r \in left}
  BY DEF Read, thread, Current
<1>2. CallTold(call', turns)
  <2>1. CASE Deduped(Current)
    <3>1. PICK t \in DOMAIN turns : t = First(Prior(Current))
      BY <2>1, PriorTurn
    <3>2. \/ AfterReceipt(t, Current) # {} /\ Has(t, First(AfterReceipt(t, Current)), "recovered")
          \/ Poll(t) \/ Fail \/ call' = [call EXCEPT !.pc = "mark"]
      BY <2>1, <3>1 DEF Read
    <3>3. ASSUME Poll(t) \/ call' = [call EXCEPT !.pc = "mark"] PROVE CallTold(call', turns)
      BY <3>3 DEF DeskInv, CallTold, Poll
    <3>4. QED
      BY <1>1, <3>2, <3>3, FoundTold, IdleTold DEF Fail
  <2>2. CASE ~Deduped(Current)
    <3>1. \/ active > 0 /\ call' = [call EXCEPT !.pc = "steer", !.turn = active]
          \/ call' = [call EXCEPT !.pc = "resume"]
      BY <2>2 DEF Read
    <3>2. active > 0 => active \in DOMAIN turns
      BY ActiveTurn
    <3>3. QED
      BY <3>1, <3>2 DEF DeskInv, CallTold
  <2>3. QED
    BY <2>1, <2>2
<1>3. ASSUME NEW r \in left'
      PROVE  /\ DOMAIN r = {"env", "turn", "op", "stale"} /\ r.env \in Who
             /\ r.op # "start" => r.turn \in DOMAIN turns
  <2>1. PICK q \in left : r = [q EXCEPT !.stale = TRUE]
    BY <1>1
  <2>2. QED
    BY <2>1 DEF DeskInv, LeftTold
<1>a. LeftTold(left, turns)'
  BY <1>1, <1>3 DEF LeftTold
<1>4. CallTold(call, turns)' /\ Threaded(turns)' /\ RecoveredIsToReceipt'
  BY <1>1, <1>2 DEF DeskInv, Threaded, RecoveredIsToReceipt
<1>5. QED
  BY <1>1, <1>a, <1>4 DEF DeskInv

LEMMA RereadStep ==
  ASSUME DeskInv, Reread
  PROVE  DeskInv'
<1>1. PICK t \in DOMAIN turns : t = call.turn
  BY DEF DeskInv, CallTold, Reread
<1>2. \/ AfterReceipt(t, call.env) # {} /\ Has(t, First(AfterReceipt(t, call.env)), "recovered")
      \/ Fail
  BY <1>1 DEF Reread, Current
<1>3. CallTold(call', turns)
  BY <1>2, FoundTold, IdleTold DEF Fail
<1>4. CallTold(call, turns)'
  BY <1>3 DEF Reread, thread
<1>5. QED
  BY <1>4, DeskCall DEF Reread, thread

\* A message of the call is delivered into the thread.
LEMMA DeskDelivered ==
  ASSUME DeskInv, Threaded(turns)', (active \in 0 .. Len(turns))', DOMAIN turns \subseteq DOMAIN turns',
         UNCHANGED <<queue, reply, left>>, CallTold(call, turns)'
  PROVE  DeskInv'
<1>1. LeftTold(left, turns)'
  BY DEF DeskInv, LeftTold
<1>2. RecoveredIsToReceipt'
  BY DEF DeskInv, RecoveredIsToReceipt
<1>3. QED
  BY <1>1, <1>2 DEF DeskInv

LEMMA SteeredStep ==
  ASSUME DeskInv, call.pc \in {"steer", "resteer"}, Steered, UNCHANGED <<queue, reply, left>>
  PROVE  DeskInv'
<1>1. call.env \in Who /\ active \in DOMAIN turns /\ active = call.turn /\ Joined(call.env, active)
  BY DEF DeskInv, CallTold, Steered, Current
<1>2. Threaded(turns)' /\ (active \in 0 .. Len(turns))' /\ DOMAIN turns' = DOMAIN turns
  BY <1>1, JoinedThread
<1>3. call' = [call EXCEPT !.pc = "poll"] \/ call' = [call EXCEPT !.pc = "mark"]
  BY DEF Steered
<1>4. CallTold(call, turns)'
  BY <1>1, <1>2, <1>3 DEF DeskInv, CallTold
<1>5. QED
  BY <1>2, <1>4, DeskDelivered

LEMMA SteerStep ==
  ASSUME DeskInv, Steer \/ Resteer
  PROVE  DeskInv'
<1>1. call.pc \in {"steer", "resteer"} /\ UNCHANGED <<queue, reply, left>>
  BY DEF Steer, Resteer
<1>2. \/ Steered
      \/ UNCHANGED thread /\ active > 0 /\ call' = [call EXCEPT !.pc = "resteer", !.turn = active]
      \/ UNCHANGED thread /\ Fail
  BY DEF Steer, Resteer, Missed
<1>3. CASE Steered
  BY <1>1, <1>3, SteeredStep
<1>4. CASE UNCHANGED thread /\ active > 0 /\ call' = [call EXCEPT !.pc = "resteer", !.turn = active]
  <2>1. active \in DOMAIN turns
    BY <1>4, ActiveTurn
  <2>2. CallTold(call, turns)'
    BY <1>4, <2>1 DEF DeskInv, CallTold, thread
  <2>3. QED
    BY <1>1, <1>4, <2>2, DeskCall DEF thread
<1>5. CASE UNCHANGED thread /\ Fail
  <2>1. CallTold(call, turns)'
    BY <1>5, IdleTold DEF Fail
  <2>2. QED
    BY <1>1, <1>5, <2>1, DeskCall DEF thread
<1>6. QED
  BY <1>2, <1>3, <1>4, <1>5

LEMMA StartStep ==
  ASSUME DeskInv, Start
  PROVE  DeskInv'
<1>1. UNCHANGED <<queue, reply, left>> /\ call.env \in Who /\ Current = call.env
  BY DEF Start, DeskInv, CallTold, Current
<1>2. CASE active = 0
  <2>1. Opened(call.env) /\ \E p \in {"hear", "mark"} : call' = [call EXCEPT !.pc = p, !.turn = Len(turns) + 1]
    BY <1>1, <1>2 DEF Start
  <2>2. /\ Threaded(turns)' /\ (active \in 0 .. Len(turns))' /\ DOMAIN turns \subseteq DOMAIN turns'
        /\ Len(turns) + 1 \in DOMAIN turns'
    BY <1>1, <2>1, OpenedThread
  <2>3. CallTold(call, turns)'
    BY <2>1, <2>2 DEF DeskInv, CallTold
  <2>4. QED
    BY <1>1, <2>2, <2>3, DeskDelivered
<1>3. CASE active # 0
  <2>1. Fail /\ UNCHANGED thread
    BY <1>3 DEF Start
  <2>2. CallTold(call, turns)'
    BY <2>1, IdleTold DEF Fail
  <2>3. QED
    BY <1>1, <2>1, <2>2, DeskCall DEF thread
<1>4. QED
  BY <1>2, <1>3

\* An answer heard in the call's own turn is not one read back.
LEMMA HearStep ==
  ASSUME DeskInv, Hear
  PROVE  DeskInv'
<1>1. Fail \/ \E i, f : call' = [call EXCEPT !.pc = "reply", !.got = Found(call.turn, i, "heard"), !.fits = f]
  BY DEF Hear, Has
<1>3. ASSUME NEW i, NEW f, call' = [call EXCEPT !.pc = "reply", !.got = Found(call.turn, i, "heard"), !.fits = f]
      PROVE  CallTold(call', turns)
  <2>1. call'.got.how = "heard" /\ call'.pc = "reply" /\ call'.env = call.env /\ DOMAIN call' = DOMAIN call
    BY <1>3 DEF Found, DeskInv, CallTold
  <2>2. QED
    BY <2>1 DEF DeskInv, CallTold
<1>4. CallTold(call', turns)
  BY <1>1, <1>3, IdleTold DEF Fail
<1>5. CallTold(call, turns)'
  BY <1>4 DEF Hear, thread
<1>6. QED
  BY <1>5, DeskCall DEF Hear, thread

LEMMA QueueReplyStep ==
  ASSUME DeskInv, QueueReply
  PROVE  DeskInv'
<1>1. UNCHANGED <<turns, active, queue, left>> /\ call.pc = "reply" /\ Current = call.env
  BY DEF QueueReply, thread, Current
<1>2. CallTold(call, turns)'
  <2>1. Fail \/ call' = [call EXCEPT !.pc = "mark"]
    BY DEF QueueReply
  <2>2. QED
    BY <1>1, <2>1, IdleTold DEF Fail, DeskInv, CallTold
<1>3. RecoveredIsToReceipt' /\ DOMAIN reply' = Envelopes
  <2>1. reply' = reply \/ reply' = [reply EXCEPT ![call.env] = call.got]
    BY <1>1 DEF QueueReply
  <2>2. call.got.how = "recovered" => call.got.to = call.env
    BY <1>1 DEF DeskInv, CallTold
  <2>3. QED
    BY <2>1, <2>2 DEF DeskInv, RecoveredIsToReceipt
<1>4. QED
  BY <1>1, <1>2, <1>3 DEF DeskInv, Threaded, LeftTold

LEMMA BreakStep ==
  ASSUME DeskInv, Break
  PROVE  DeskInv'
<1>1. UNCHANGED <<turns, active, queue, reply>> /\ call' = Idle
  BY DEF Break, thread, Fail
<1>2. CallTold(call, turns)'
  BY <1>1, IdleTold
<1>3. LeftTold(left, turns)'
  <2>1. \/ left' = left
        \/ /\ call.pc \in {"steer", "resteer", "start"}
           /\ left' = left \cup {[env |-> call.env, turn |-> call.turn, op |-> call.pc, stale |-> FALSE]}
    BY DEF Break, Sending, Current
  <2>2. QED
    BY <1>1, <2>1 DEF DeskInv, LeftTold, CallTold
<1>4. QED
  BY <1>1, <1>2, <1>3 DEF DeskInv, Threaded, RecoveredIsToReceipt

LEMMA CarriedOutStep ==
  ASSUME DeskInv, NEW r \in left, CarriedOut(r)
  PROVE  DeskInv'
<1>1. r.env \in Who /\ UNCHANGED <<queue, reply, call>> /\ left' \subseteq left
  BY DEF DeskInv, LeftTold, CarriedOut
<1>2. CASE r.op = "start"
  <2>1. Opened(r.env)
    BY <1>2 DEF CarriedOut
  <2>2. QED
    BY <1>1, <2>1, OpenedThread, DeskQuiet
<1>3. CASE r.op # "start"
  <2>1. Joined(r.env, r.turn) /\ r.turn \in DOMAIN turns
    BY <1>3 DEF CarriedOut, DeskInv, LeftTold
  <2>2. QED
    BY <1>1, <2>1, JoinedThread, DeskQuiet
<1>4. QED
  BY <1>2, <1>3

LEMMA DeskRest ==
  ASSUME DeskInv, Baseline \/ Resume \/ Mark \/ Timeout \/ \E e \in Envelopes : Admit(e)
  PROVE  DeskInv'
<1>1. UNCHANGED <<turns, active, reply, left>>
  BY DEF Baseline, Resume, Mark, Timeout, Admit, thread
<1>2. call' = call \/ call' = Idle \/ call' = [call EXCEPT !.pc = "start"]
  BY DEF Baseline, Resume, Mark, Timeout, Admit, Fail
<1>3. CallTold(call, turns)'
  BY <1>1, <1>2, IdleTold DEF DeskInv, CallTold
<1>4. queue' \in Seq(Envelopes)
  BY DEF Baseline, Resume, Mark, Timeout, Admit, DeskInv
<1>5. QED
  BY <1>1, <1>3, <1>4 DEF DeskInv, Threaded, LeftTold, RecoveredIsToReceipt

\* The reply queued for a receipt and read back from the thread is the answer to
\* that receipt, whatever the owner says meanwhile, whichever requests are lost,
\* come late or are carried out twice (finalAgentTextAfterReceipt).
THEOREM Recovering == DeskSpec => []RecoveredIsToReceipt
<1>1. DeskInit => DeskInv
  <2>1. <<>> \in Seq(Turn) /\ <<>> \in Seq(Envelopes) /\ Len(<<>>) = 0 /\ DOMAIN <<>> = {}
    OBVIOUS
  <2>2. QED
    BY <2>1, IdleTold DEF DeskInit, DeskInv, Threaded, LeftTold, RecoveredIsToReceipt, NoReply
<1>2. DeskInv /\ [DeskNext]_turnVars => DeskInv'
  <2>1. SUFFICES ASSUME DeskInv, [DeskNext]_turnVars PROVE DeskInv'
    OBVIOUS
  <2>2. CASE DeskNext
    BY <2>1, <2>2, OwnerSaysStep, AnswerStep, TurnEndsStep, TakeStep, ReadStep, RereadStep,
       SteerStep,
       StartStep, HearStep, QueueReplyStep, BreakStep, CarriedOutStep, DeskRest DEF DeskNext, Adapter
  <2>3. CASE UNCHANGED turnVars
    BY <2>1, <2>3 DEF turnVars, DeskInv, Threaded, CallTold, LeftTold, RecoveredIsToReceipt
  <2>4. QED
    BY <2>1, <2>2, <2>3
<1>3. DeskInv => RecoveredIsToReceipt
  BY DEF DeskInv
<1>4. QED
  BY <1>1, <1>2, <1>3, PTL DEF DeskSpec

-----------------------------------------------------------------------------
(* The newest session of the HTTPS door (ChannelDoor). *)

\* One session at a time, and clients that do not initialise while another's
\* initialise is handled: the default of maxSessions; section 3 of the README has
\* the other case.
OneAtATime == MaxSessions = 1 /\ ~Overlap

Newest == arrived[Len(arrived)]
Works(s) == worker[s] \in {"run", "held"}

\* How far the newest session n is, and what the older ones may still do.
Turned(n) ==
  /\ n \in Sess
  /\ \A s \in Sess \ {n} : req[s] \in {"none", "open"}
  /\ \/ req[n] = "evict" /\ \A s \in Sess : Works(s) => table = <<s>>
     \/ req[n] = "wait" /\ table = <<>> /\ \A s \in Sess : ~Works(s) /\ (worker[s] = "closing" => s \in waits[n])
     \/ /\ req[n] \in {"spawn", "open"} /\ Works(n)
        /\ \A s \in Sess \ {n} : worker[s] \in {"none", "gone"}
        /\ table = (IF req[n] = "open" THEN <<n>> ELSE <<>>)

DoorQuiet ==
  /\ table = <<>> \/ \E x \in Sess : table = <<x>> /\ Works(x)
  /\ \A s \in Sess : /\ worker[s] \in {"none", "run", "held", "closing", "gone"}
                     /\ req[s] = "none" => worker[s] = "none"
                     /\ worker[s] = "held" => s \in holder
  /\ holder \subseteq Sess /\ \A s \in holder : worker[s] \in {"held", "closing"}
  /\ IF arrived = <<>> THEN \A s \in Sess : req[s] = "none" ELSE Turned(Newest)

DoorInv ==
  /\ DOMAIN req = Sess /\ DOMAIN waits = Sess /\ DOMAIN worker = Sess
  /\ arrived \in Seq(Sess) /\ ends \in Nat
  /\ ends = 0 => DoorQuiet

\* Closing the one session there is empties the map.
LEMMA CloseOne ==
  ASSUME NEW x, NEW s, Close(s), table = <<x>>
  PROVE  table' = (IF s = x THEN <<>> ELSE <<x>>) /\ worker' = [worker EXCEPT ![s] = "closing"]
<1>1. Len(table) = 1 /\ table[1] = x /\ 1 .. 1 = {1}
  OBVIOUS
<1>2. InTable(s) <=> s = x
  BY <1>1 DEF InTable
<1>3. ASSUME s = x PROVE Slot(s) = 1
  BY <1>1, <1>3 DEF Slot
<1>4. SubSeq(<<x>>, 1, 0) \o SubSeq(<<x>>, 2, 1) = <<>>
  OBVIOUS
<1>5. worker' = [worker EXCEPT ![s] = "closing"]
  BY DEF Close
<1>6. CASE s = x
  <2>1. table' = SubSeq(table, 1, Slot(s) - 1) \o SubSeq(table, Slot(s) + 1, Len(table))
    BY <1>2, <1>6 DEF Close
  <2>2. table' = SubSeq(<<x>>, 1, 1 - 1) \o SubSeq(<<x>>, 1 + 1, 1)
    BY <1>1, <1>3, <1>6, <2>1
  <2>3. 1 - 1 = 0 /\ 1 + 1 = 2
    OBVIOUS
  <2>4. QED
    BY <1>4, <1>5, <1>6, <2>2, <2>3
<1>7. CASE s # x
  <2>1. table' = table
    BY <1>2, <1>7 DEF Close
  <2>2. QED
    BY <1>5, <1>7, <2>1
<1>8. QED
  BY <1>6, <1>7

LEMMA CloseNone ==
  ASSUME NEW s, Close(s), table = <<>>
  PROVE  table' = <<>> /\ worker' = [worker EXCEPT ![s] = "closing"]
<1>1. Len(table) = 0 /\ 1 .. 0 = {}
  OBVIOUS
<1>2. QED
  BY <1>1 DEF Close, InTable

LEMMA ArriveStep ==
  ASSUME DoorInv, OneAtATime, NEW s \in Sess, Arrive(s)
  PROVE  DoorInv'
<1>1. PICK a \in Seq(Sess) : a = arrived
  BY DEF DoorInv
<1>2. arrived' = Append(a, s)
  BY <1>1 DEF Arrive
<1>3. /\ Append(a, s) \in Seq(Sess) /\ Append(a, s) # <<>>
      /\ Append(a, s)[Len(Append(a, s))] = s
  BY <1>1
<1>4. /\ req[s] = "none" /\ req' = [req EXCEPT ![s] = "evict"] /\ Handling = {}
      /\ UNCHANGED <<waits, table, worker, holder, ends>>
  BY DEF Arrive, OneAtATime
<1>5. ASSUME DoorQuiet PROVE DoorQuiet'
  <2>1. \A r \in Sess \ {s} : req[r] \in {"none", "open"}
    BY <1>4, <1>5 DEF DoorQuiet, Turned, Handling
  <2>2. \A r \in Sess : Works(r) => table = <<r>>
    BY <1>4, <1>5 DEF DoorQuiet, Turned, Handling, Works
  <2>3. Newest' = s
    BY <1>2, <1>3 DEF Newest
  <2>4. Turned(s)'
    BY <1>4, <2>1, <2>2 DEF DoorInv, Turned, Works
  <2>5. arrived' # <<>> /\ Turned(Newest)'
    BY <1>2, <1>3, <2>3, <2>4 DEF Turned, Works
  <2>6. QED
    BY <1>4, <1>5, <2>5 DEF DoorQuiet, Works, DoorInv
<1>6. QED
  BY <1>2, <1>3, <1>4, <1>5 DEF DoorInv

\* The steps that leave the order of arrival alone.
LEMMA DoorFrame ==
  ASSUME DoorInv, UNCHANGED <<arrived, ends>>, DOMAIN req' = Sess, DOMAIN waits' = Sess,
         DOMAIN worker' = Sess, ends = 0 /\ DoorQuiet => DoorQuiet'
  PROVE  DoorInv'
BY DEF DoorInv

\* A session that has come, and its process, are behind the newest or are it.
LEMMA NewestTurned ==
  ASSUME DoorQuiet, NEW s \in Sess, req[s] # "none" \/ worker[s] # "none"
  PROVE  arrived # <<>> /\ Turned(Newest)
BY DEF DoorQuiet

LEMMA EvictStep ==
  ASSUME DoorInv, OneAtATime, NEW s \in Sess, Evict(s)
  PROVE  DoorInv'
<1>1. req[s] = "evict" /\ waits[s] \cap Closing = {} /\ UNCHANGED <<holder, ends, arrived>>
  BY DEF Evict
<1>2. \/ /\ Len(table) >= 1 /\ Close(Head(table))
         /\ waits' = [waits EXCEPT ![s] = {Head(table)}] /\ UNCHANGED req
      \/ /\ ~(Len(table) >= 1) /\ req' = [req EXCEPT ![s] = "wait"]
         /\ waits' = [waits EXCEPT ![s] = Closing] /\ UNCHANGED <<table, worker>>
  BY DEF Evict, OneAtATime
<1>3. DOMAIN req' = Sess /\ DOMAIN waits' = Sess /\ DOMAIN worker' = Sess
  BY <1>2 DEF DoorInv, Close
<1>4. ASSUME DoorQuiet PROVE DoorQuiet'
  <2>1. PICK n : n = Newest /\ n = Newest' /\ Turned(n) /\ arrived # <<>>
    BY <1>1, <1>4, NewestTurned DEF Newest
  <2>2. n = s /\ \A r \in Sess : Works(r) => table = <<r>>
    BY <1>1, <2>1 DEF Turned
  <2>3. CASE table = <<>>
    <3>1. Len(<<>>) = 0
      OBVIOUS
    <3>2. /\ req' = [req EXCEPT ![s] = "wait"]
          /\ waits' = [waits EXCEPT ![s] = Closing] /\ UNCHANGED <<table, worker>>
      BY <1>2, <2>3, <3>1
    <3>3. \A r \in Sess : ~Works(r) /\ (worker[r] = "closing" => r \in Closing)
      BY <2>2, <2>3 DEF Closing
    <3>4. Turned(n)'
      BY <2>1, <2>2, <2>3, <3>2, <3>3 DEF Turned, DoorInv, Works
    <3>5. QED
      BY <1>1, <1>4, <2>1, <2>2, <2>3, <3>2, <3>4 DEF DoorQuiet, Turned, Works, DoorInv
  <2>4. CASE table # <<>>
    <3>1. PICK x \in Sess : table = <<x>>
      BY <1>4, <2>4 DEF DoorQuiet
    <3>2. Head(<<x>>) = x /\ Len(<<x>>) = 1
      OBVIOUS
    <3>3. Close(x) /\ UNCHANGED req
      BY <1>2, <3>1, <3>2
    <3>4. table' = <<>> /\ worker' = [worker EXCEPT ![x] = "closing"]
      BY <3>1, <3>3, CloseOne
    <3>5. \A r \in Sess : ~Works(r)'
      <4>1. \A r \in Sess \ {x} : ~Works(r)
        BY <2>2, <3>1
      <4>2. QED
        BY <3>4, <4>1 DEF Works, DoorInv
    <3>6. Turned(n)'
      BY <1>1, <2>1, <2>2, <3>3, <3>5 DEF Turned
    <3>a. Works(x)
      BY <1>4, <3>1 DEF DoorQuiet
    <3>7. QED
      BY <1>1, <1>4, <2>1, <3>3, <3>4, <3>6, <3>a DEF DoorQuiet, Turned, Works, DoorInv
  <2>5. QED
    BY <2>3, <2>4
<1>5. QED
  BY <1>1, <1>3, <1>4, DoorFrame

LEMMA SpawnStep ==
  ASSUME DoorInv, NEW s \in Sess, Spawn(s)
  PROVE  DoorInv'
<1>1. /\ req[s] = "wait" /\ waits[s] \cap Closing = {} /\ UNCHANGED <<waits, table, holder, ends, arrived>>
      /\ req' = [req EXCEPT ![s] = "spawn"] /\ worker' = [worker EXCEPT ![s] = "run"]
  BY DEF Spawn
<1>2. ASSUME DoorQuiet PROVE DoorQuiet'
  <2>1. PICK n : n = Newest /\ n = Newest' /\ Turned(n) /\ arrived # <<>>
    BY <1>1, <1>2, NewestTurned DEF Newest
  <2>2. n = s /\ table = <<>> /\ \A r \in Sess : ~Works(r) /\ (worker[r] = "closing" => r \in waits[s])
    BY <1>1, <2>1 DEF Turned
  <2>3. \A r \in Sess : worker[r] \in {"none", "gone"}
    BY <1>1, <1>2, <2>2 DEF DoorQuiet, Closing, Works
  <2>4. holder = {}
    BY <1>2, <2>3 DEF DoorQuiet
  <2>5. Turned(n)'
    BY <1>1, <2>1, <2>2, <2>3 DEF Turned, Works, DoorInv
  <2>6. QED
    BY <1>1, <1>2, <2>1, <2>2, <2>3, <2>4, <2>5 DEF DoorQuiet, Turned, Works, DoorInv
<1>3. QED
  BY <1>1, <1>2, DoorFrame DEF DoorInv

LEMMA OpenStep ==
  ASSUME DoorInv, NEW s \in Sess, Open(s)
  PROVE  DoorInv'
<1>1. /\ req[s] = "spawn" /\ req' = [req EXCEPT ![s] = "open"] /\ table' = Append(table, s)
      /\ UNCHANGED <<waits, worker, holder, ends, arrived>>
  BY DEF Open
<1>2. ASSUME DoorQuiet PROVE DoorQuiet'
  <2>1. PICK n : n = Newest /\ n = Newest' /\ Turned(n) /\ arrived # <<>>
    BY <1>1, <1>2, NewestTurned DEF Newest
  <2>2. n = s /\ table = <<>> /\ Works(s) /\ \A r \in Sess \ {s} : worker[r] \in {"none", "gone"}
    BY <1>1, <2>1 DEF Turned
  <2>3. table' = <<s>>
    <3>1. Append(<<>>, s) = <<s>>
      OBVIOUS
    <3>2. QED
      BY <1>1, <2>2, <3>1
  <2>4. Turned(n)'
    BY <1>1, <2>1, <2>2, <2>3 DEF Turned, Works, DoorInv
  <2>5. QED
    BY <1>1, <1>2, <2>1, <2>2, <2>3, <2>4 DEF DoorQuiet, Turned, Works, DoorInv
<1>3. QED
  BY <1>1, <1>2, DoorFrame DEF DoorInv

LEMMA LockStep ==
  ASSUME DoorInv, NEW s \in Sess, Lock(s)
  PROVE  DoorInv'
<1>1. worker[s] = "run" /\ UNCHANGED <<req, waits, ends, arrived>>
  BY DEF Lock
<1>2. \/ holder = {} /\ worker' = [worker EXCEPT ![s] = "held"] /\ holder' = {s} /\ UNCHANGED table
      \/ holder # {} /\ Close(s) /\ UNCHANGED holder
  BY DEF Lock
<1>3. DOMAIN worker' = Sess
  BY <1>2 DEF DoorInv, Close
<1>4. ASSUME DoorQuiet PROVE DoorQuiet'
  <2>1. PICK n : n = Newest /\ n = Newest' /\ Turned(n) /\ arrived # <<>>
    BY <1>1, <1>4, NewestTurned DEF Newest
  <2>2. s \notin holder /\ Works(s) /\ req[s] # "none"
    BY <1>1, <1>4 DEF DoorQuiet, Works
  <2>3. CASE holder = {}
    <3>1. worker' = [worker EXCEPT ![s] = "held"] /\ holder' = {s} /\ UNCHANGED table
      BY <1>2, <2>3
    <3>2. \A r \in Sess : Works(r)' <=> Works(r)
      BY <2>2, <3>1 DEF Works, DoorInv
    <3>3. Turned(n)'
      BY <1>1, <2>1, <2>2, <3>1, <3>2 DEF Turned, DoorInv, Works
    <3>4. QED
      BY <1>1, <1>4, <2>1, <2>2, <3>1, <3>2, <3>3, <2>3 DEF DoorQuiet, Turned, Works, DoorInv
  <2>4. CASE holder # {}
    <3>1. Close(s) /\ UNCHANGED holder
      BY <1>2, <2>4
    <3>2. PICK h \in holder : h \in Sess /\ h # s /\ worker[h] \in {"held", "closing"}
      BY <1>4, <2>2, <2>4 DEF DoorQuiet
    <3>3. req[n] = "evict" /\ \A r \in Sess : Works(r) => table = <<r>>
      BY <1>1, <2>1, <2>2, <3>2 DEF Turned
    <3>4. table = <<s>>
      BY <2>2, <3>3
    <3>5. table' = <<>> /\ worker' = [worker EXCEPT ![s] = "closing"]
      BY <3>1, <3>4, CloseOne
    <3>6. \A r \in Sess : ~Works(r)'
      <4>1. \A r \in Sess \ {s} : ~Works(r)
        BY <3>3, <3>4
      <4>2. QED
        BY <3>5, <4>1 DEF Works, DoorInv
    <3>7. Turned(n)'
      BY <1>1, <2>1, <3>3, <3>6 DEF Turned
    <3>8. QED
      BY <1>1, <1>4, <2>1, <2>2, <3>1, <3>5, <3>7 DEF DoorQuiet, Turned, Works, DoorInv
  <2>5. QED
    BY <2>3, <2>4
<1>5. QED
  BY <1>1, <1>3, <1>4, DoorFrame DEF DoorInv

LEMMA ExitedStep ==
  ASSUME DoorInv, NEW s \in Sess, Exited(s)
  PROVE  DoorInv'
<1>1. /\ worker[s] = "closing" /\ worker' = [worker EXCEPT ![s] = "gone"] /\ holder' = holder \ {s}
      /\ UNCHANGED <<req, waits, table, ends, arrived>>
  BY DEF Exited
<1>2. ASSUME DoorQuiet PROVE DoorQuiet'
  <2>1. PICK n : n = Newest /\ n = Newest' /\ Turned(n) /\ arrived # <<>>
    BY <1>1, <1>2, NewestTurned DEF Newest
  <2>2. \A r \in Sess : Works(r)' <=> Works(r)
    BY <1>1 DEF Works, DoorInv
  <2>3. Turned(n)'
    BY <1>1, <2>1, <2>2 DEF Turned, DoorInv, Works
  <2>4. QED
    BY <1>1, <1>2, <2>1, <2>2, <2>3 DEF DoorQuiet, Turned, Works, DoorInv
<1>3. QED
  BY <1>1, <1>2, DoorFrame DEF DoorInv

LEMMA EndStep ==
  ASSUME DoorInv, NEW s \in Sess, End(s)
  PROVE  DoorInv'
BY DEF DoorInv, End, Close

\* Once every process has settled the last client to come has the lock, for
\* any number of sessions that come and are evicted (openSession).
THEOREM Winning ==
  ASSUME OneAtATime
  PROVE  DoorSpec => []NewestWins
<1>1. DoorInit => DoorInv
  <2>1. <<>> \in Seq(Sess)
    OBVIOUS
  <2>2. QED
    BY <2>1 DEF DoorInit, DoorInv, DoorQuiet
<1>2. DoorInv /\ [DoorNext]_doorVars => DoorInv'
  <2>1. SUFFICES ASSUME DoorInv, [DoorNext]_doorVars PROVE DoorInv'
    OBVIOUS
  <2>2. CASE DoorNext
    BY <2>1, <2>2, OneAtATime, ArriveStep, EvictStep, SpawnStep, OpenStep, LockStep, EndStep,
       ExitedStep
       DEF DoorNext
  <2>3. CASE UNCHANGED doorVars
    BY <2>1, <2>3 DEF doorVars, DoorInv, DoorQuiet, Turned, Newest, Works
  <2>4. QED
    BY <2>1, <2>2, <2>3
<1>3. DoorInv => NewestWins
  <2>1. SUFFICES ASSUME DoorInv, ends = 0, arrived # <<>>, Handling = {},
                        \A s \in Sess : worker[s] \in {"none", "held", "gone"}
                 PROVE  worker[arrived[Len(arrived)]] = "held"
    BY DEF NewestWins
  <2>2. Turned(Newest)
    BY <2>1 DEF DoorInv, DoorQuiet
  <2>3. req[Newest] = "open" /\ Works(Newest) /\ Newest \in Sess
    BY <2>1, <2>2 DEF Turned, Handling
  <2>4. QED
    BY <2>1, <2>3 DEF Works, Newest
<1>4. QED
  BY <1>1, <1>2, <1>3, PTL DEF DoorSpec

-----------------------------------------------------------------------------
(* What a pane's program leaves behind (PaneSession). *)

States == {"none", "typed", "wrote", "up", "rest", "ended"}
PaneTyped ==
  /\ proc \in [Runs -> States] /\ runs \in Nat /\ strays \subseteq Runs /\ termed \subseteq Runs
  /\ DOMAIN files = {"pid", "start", "cancel"} /\ files.pid \in {0} \cup Runs /\ files.cancel \in BOOLEAN
  /\ DOMAIN mem = {"pane", "launched", "launching"} /\ mem.launched \subseteq Runs
  /\ mem.launching \in BOOLEAN
  /\ DOMAIN todo = {"start", "signal"} /\ todo.start \subseteq Runs /\ todo.signal \subseteq Runs

\* Of a launch that is still to come nothing runs.
Unlaunched == \A i \in Runs : i > runs \/ (i = runs /\ pc = "type") => proc[i] = "none"

\* The program's own processes that live, whatever earlier ones left.
Living == {i \in Runs \ strays : proc[i] \in {"typed", "wrote", "up", "rest"}}

\* The launch under way: typed and without a number, or it has left its number.
UnderWay(i) ==
  /\ mem.launching /\ i = runs
  /\ \/ proc[i] = "typed" /\ files.pid = 0
     \/ proc[i] \in {"wrote", "up"} /\ files.pid = i

\* Every living process is remembered, or is the launch under way.
Remembered == life = "up" => \A i \in Living : i \in mem.launched \/ UnderWay(i)

\* How far a launch is; what is remembered has been run.
Launching ==
  /\ mem.launching <=> pc \in {"type", "wait"}
  /\ mem.launching => \A i \in Runs : proc[i] = "typed" => i = runs /\ files.pid = 0
  /\ pc = "type" => files.pid = 0 /\ ~Coming
  /\ \A i \in mem.launched : proc[i] \notin {"none", "typed"}

\* A stop of the signal handler is about every process that lives, and none comes.
Signalled ==
  /\ sig # "none" => user = "supervisor"
  /\ sig = "stops" /\ life = "up" => Living \subseteq todo.signal \cap mem.launched

\* kill() has told a launch under way to end itself; a killed program has left strays.
Killing ==
  /\ killing # "no" => user = "keeper" /\ life = "up" /\ (mem.launching => files.cancel)
  /\ life = "killed" => Living = {}

PaneInv ==
  /\ PaneTyped /\ Unlaunched /\ Remembered /\ Launching /\ Signalled /\ Killing
  /\ life \in {"up", "killed", "exited"} /\ ExitLeavesNothing

\* Steps after which the same processes live, and the same are known.
LEMMA PaneFrame ==
  ASSUME PaneInv, UNCHANGED <<user, proc, files, termed, strays, life, sig, killing, runs>>,
         DOMAIN mem' = DOMAIN mem, mem'.launched = mem.launched, mem'.launching = mem.launching,
         DOMAIN todo' = DOMAIN todo, todo'.start \subseteq Runs, todo'.signal = todo.signal,
         mem'.launching <=> pc' \in {"type", "wait"}, pc' = "type" => pc = "type"
  PROVE  PaneInv'
BY DEF PaneInv, PaneTyped, Unlaunched, Living, UnderWay, Remembered, Launching, Signalled,
   Killing, ExitLeavesNothing, Coming

LEMMA QuietStep ==
  ASSUME PaneInv, Begin \/ ShowNothing \/ Show \/ Restart
  PROVE  PaneInv'
<1>1. UNCHANGED <<user, proc, files, termed, strays, life, sig, killing, runs>>
  BY DEF Begin, ShowNothing, Show, Restart, world, lifeVars
<1>2. /\ DOMAIN mem' = DOMAIN mem /\ mem'.launched = mem.launched /\ mem'.launching = mem.launching
      /\ DOMAIN todo' = DOMAIN todo /\ todo'.start \subseteq Runs /\ todo'.signal = todo.signal
  BY DEF Begin, Targets, ShowNothing, Show, Restart, PaneInv, PaneTyped
<1>3. (mem'.launching <=> pc' \in {"type", "wait"}) /\ (pc' = "type" => pc = "type")
  BY <1>2 DEF Begin, Due, ShowNothing, Show, Restart, PaneInv, Launching
<1>4. QED
  BY <1>1, <1>2, <1>3, PaneFrame

-----------------------------------------------------------------------------
(* start(): a launch is typed, taken over or given up. *)

LEMMA HerdrFailsStep ==
  ASSUME PaneInv, HerdrFails
  PROVE  PaneInv'
<1>1. PaneTyped'
  BY DEF PaneInv, PaneTyped, HerdrFails, Closed, States
<1>2. Unlaunched'
  BY RunsAssumption DEF PaneInv, Unlaunched, HerdrFails, Closed
<1>3. Remembered'
  BY RunsAssumption DEF PaneInv, PaneTyped, Living, UnderWay, Remembered, Launching, HerdrFails,
     Due, Runnable, Closed, Coming, Runs
<1>4. Launching'
  BY DEF PaneInv, PaneTyped, Launching, HerdrFails, Due, Closed
<1>5. Signalled'
  BY DEF PaneInv, PaneTyped, Living, Signalled, HerdrFails, Closed, lifeVars
<1>6. Killing'
  BY DEF PaneInv, Living, Killing, HerdrFails, Runnable, lifeVars
<1>7. ExitLeavesNothing'
  BY DEF ExitLeavesNothing, HerdrFails, Due, Runnable, lifeVars
<1>8. life' \in {"up", "killed", "exited"}
  BY DEF PaneInv, HerdrFails, lifeVars
<1>9. QED
  BY <1>1, <1>2, <1>3, <1>4, <1>5, <1>6, <1>7, <1>8 DEF PaneInv

LEMMA LookStep ==
  ASSUME PaneInv, Look
  PROVE  PaneInv'
<1>1. PaneTyped'
  BY DEF PaneInv, PaneTyped, Look, Closed, NoFiles, States
<1>2. Unlaunched'
  BY RunsAssumption DEF PaneInv, PaneTyped, Unlaunched, Look, Closed, Runs
<1>3. Remembered'
  BY RunsAssumption DEF PaneInv, Living, UnderWay, Remembered, Launching, Look, Runnable, Closed
<1>4. Launching'
  BY RunsAssumption DEF PaneInv, PaneTyped, Launching, Look, Closed, Coming, NoFiles
<1>5. Signalled'
  BY RunsAssumption DEF PaneInv, Living, Signalled, Look, Closed, lifeVars
<1>6. Killing'
  BY DEF Killing, Look, Runnable, lifeVars
<1>7. ExitLeavesNothing'
  BY DEF ExitLeavesNothing, Look, Runnable, lifeVars
<1>8. life' \in {"up", "killed", "exited"}
  BY DEF PaneInv, Look, lifeVars
<1>9. QED
  BY <1>1, <1>2, <1>3, <1>4, <1>5, <1>6, <1>7, <1>8 DEF PaneInv

\* While a stop is under way what is typed finds a process in front and is lost.
LEMMA TypeStep ==
  ASSUME PaneInv, Type
  PROVE  PaneInv'
<1>1. PaneTyped'
  BY DEF PaneInv, PaneTyped, Type, States
<1>2. Unlaunched'
  BY RunsAssumption DEF PaneInv, PaneTyped, Unlaunched, Type
<1>3. Remembered'
  BY RunsAssumption DEF PaneInv, PaneTyped, Living, UnderWay, Remembered, Launching, Type, Runnable
<1>4. Launching'
  BY RunsAssumption DEF PaneInv, PaneTyped, Unlaunched, Launching, Type
<1>5. Signalled'
  BY RunsAssumption DEF PaneInv, PaneTyped, Living, Signalled, Type, InTime, InFront, lifeVars
<1>6. Killing'
  BY DEF Killing, Type, Runnable, lifeVars
<1>7. ExitLeavesNothing'
  BY DEF ExitLeavesNothing, Type, Runnable, lifeVars
<1>8. life' \in {"up", "killed", "exited"}
  BY DEF PaneInv, Type, lifeVars
<1>9. QED
  BY <1>1, <1>2, <1>3, <1>4, <1>5, <1>6, <1>7, <1>8 DEF PaneInv

\* The launch that has left its number is remembered, if it still leads.
LEMMA TookStep ==
  ASSUME PaneInv, Took
  PROVE  PaneInv'
<1>1. PaneTyped'
  BY DEF PaneInv, PaneTyped, Took, Adopted, Known
<1>2. Unlaunched'
  BY DEF PaneInv, Unlaunched, Took
<1>3. Remembered'
  BY DEF PaneInv, Living, UnderWay, Remembered, Took, Runnable, Adopts, Known, Leads
<1>4. Launching'
  BY DEF PaneInv, Launching, Took, Adopts, Known, Leads
<1>5. Signalled'
  BY DEF PaneInv, Living, Signalled, Took, Known, lifeVars
<1>6. Killing'
  BY DEF PaneInv, Living, Killing, Took, lifeVars
<1>7. ExitLeavesNothing'
  BY DEF ExitLeavesNothing, Took, Runnable, lifeVars
<1>8. life' \in {"up", "killed", "exited"}
  BY DEF PaneInv, Took, lifeVars
<1>9. QED
  BY <1>1, <1>2, <1>3, <1>4, <1>5, <1>6, <1>7, <1>8 DEF PaneInv

LEMMA TimedOutStep ==
  ASSUME PaneInv, TimedOut
  PROVE  PaneInv'
<1>1. PaneTyped'
  BY DEF PaneInv, PaneTyped, TimedOut, Closed, States
<1>2. Unlaunched'
  BY DEF PaneInv, Unlaunched, TimedOut, Closed
<1>3. Remembered'
  BY DEF Living, Remembered, TimedOut, Closed
<1>4. Launching'
  BY DEF PaneInv, PaneTyped, Launching, TimedOut, Closed
<1>5. Signalled'
  BY DEF PaneInv, Living, Signalled, TimedOut, Closed, lifeVars
<1>6. Killing'
  BY DEF PaneInv, Living, Killing, TimedOut, Closed, lifeVars
<1>7. ExitLeavesNothing'
  BY DEF ExitLeavesNothing, TimedOut, Closed
<1>8. life' \in {"up", "killed", "exited"}
  BY DEF PaneInv, TimedOut, lifeVars
<1>9. QED
  BY <1>1, <1>2, <1>3, <1>4, <1>5, <1>6, <1>7, <1>8 DEF PaneInv

-----------------------------------------------------------------------------
(* stop() and the signal handler. *)

LEMMA TerminateStep ==
  ASSUME PaneInv, NEW w \in {"start", "signal"}, Terminate(w)
  PROVE  PaneInv'
<1>1. PaneTyped'
  <2>1. UNCHANGED <<runs, strays, files, mem, todo>>
    BY DEF Terminate
  <2>2. PICK i, s : /\ Grouped(i) /\ i \in todo[w] /\ termed' = termed \cup {i}
                    /\ s \in {"ended", "rest", proc[i]} /\ proc' = [proc EXCEPT ![i] = s]
    BY DEF Terminate
  <2>3. QED
    BY <2>1, <2>2 DEF PaneInv, PaneTyped, States
<1>2. Unlaunched'
  BY DEF PaneInv, Unlaunched, Terminate, Grouped, Leads
<1>3. Remembered'
  BY DEF PaneInv, Living, UnderWay, Remembered, Launching, Signalled, Terminate, CanStop,
     Runnable, Grouped, Leads
<1>4. Launching'
  BY DEF PaneInv, Launching, Terminate, Coming
<1>5. Signalled'
  BY DEF PaneInv, Living, Signalled, Terminate, Grouped, Leads, lifeVars
<1>6. Killing'
  BY DEF Killing, Terminate, CanStop, Runnable, lifeVars
<1>7. ExitLeavesNothing'
  BY DEF ExitLeavesNothing, Terminate, CanStop, Runnable, lifeVars
<1>8. life' \in {"up", "killed", "exited"}
  BY DEF PaneInv, Terminate, lifeVars
<1>9. QED
  BY <1>1, <1>2, <1>3, <1>4, <1>5, <1>6, <1>7, <1>8 DEF PaneInv

LEMMA KillGroupStep ==
  ASSUME PaneInv, NEW w \in {"start", "signal"}, KillGroup(w)
  PROVE  PaneInv'
<1>1. PaneTyped'
  BY DEF PaneInv, PaneTyped, KillGroup, States
<1>2. Unlaunched'
  BY DEF PaneInv, Unlaunched, KillGroup, Grouped, Leads
<1>3. Remembered'
  BY DEF PaneInv, Living, UnderWay, Remembered, KillGroup, CanStop, Runnable
<1>4. Launching'
  BY DEF PaneInv, Launching, KillGroup, Coming
<1>5. Signalled'
  BY DEF PaneInv, Living, Signalled, KillGroup, lifeVars
<1>6. Killing'
  BY DEF PaneInv, Living, Killing, KillGroup, lifeVars
<1>7. ExitLeavesNothing'
  BY DEF ExitLeavesNothing, KillGroup, CanStop, Runnable, lifeVars
<1>8. life' \in {"up", "killed", "exited"}
  BY DEF PaneInv, KillGroup, lifeVars
<1>9. QED
  BY <1>1, <1>2, <1>3, <1>4, <1>5, <1>6, <1>7, <1>8 DEF PaneInv

\* The handler exits when all it stops has gone, and by Signalled that is all there is.
LEMMA StoppedStep ==
  ASSUME PaneInv, NEW w \in {"start", "signal"}, Stopped(w)
  PROVE  PaneInv'
<1>1. PaneTyped'
  BY DEF PaneInv, PaneTyped, Stopped, world
<1>2. Unlaunched'
  BY DEF PaneInv, Unlaunched, Stopped, world
<1>3. Remembered'
  BY DEF PaneInv, Living, UnderWay, Remembered, Launching, Stopped, Grouped, Leads, world, lifeVars
<1>4. Launching'
  BY DEF PaneInv, Launching, Stopped, CanStop, world, Coming
<1>5. Signalled'
  BY DEF PaneInv, Living, Launching, Signalled, Stopped, Grouped, Leads, world, lifeVars
<1>6. Killing'
  BY DEF Killing, Stopped, CanStop, Runnable, lifeVars
<1>7. ExitLeavesNothing'
  BY DEF PaneInv, PaneTyped, Living, Launching, Signalled, Killing, ExitLeavesNothing, Stopped,
     CanStop, Grouped, Leads, world, lifeVars, States
<1>8. life' \in {"up", "killed", "exited"}
  BY DEF PaneInv, Stopped, lifeVars
<1>9. QED
  BY <1>1, <1>2, <1>3, <1>4, <1>5, <1>6, <1>7, <1>8 DEF PaneInv

\* In the middle of a launch the handler waits for the number and adopts it.
LEMMA SignalStep ==
  ASSUME PaneInv, Signal
  PROVE  PaneInv'
<1>1. PaneTyped'
  BY DEF PaneInv, PaneTyped, Signal, SignalStops, Adopted, Known, Targets
<1>2. Unlaunched'
  BY DEF PaneInv, Unlaunched, Signal
<1>3. Remembered'
  BY DEF PaneInv, PaneTyped, Living, UnderWay, Remembered, Signal, SignalStops, Adopted, Known
<1>4. Launching'
  BY DEF PaneInv, PaneTyped, Launching, Signal, SignalStops, Adopts, Known, Leads, Coming
<1>5. Signalled'
  BY DEF PaneInv, PaneTyped, Living, UnderWay, Remembered, Launching, Signalled, Signal,
     SignalStops, Adopts, Known, Leads, Grouped, Targets
<1>6. Killing'
  BY DEF PaneInv, Living, Killing, Signal
<1>7. ExitLeavesNothing'
  BY DEF ExitLeavesNothing, Signal, Runnable
<1>8. life' \in {"up", "killed", "exited"}
  BY DEF PaneInv, Signal
<1>9. QED
  BY <1>1, <1>2, <1>3, <1>4, <1>5, <1>6, <1>7, <1>8 DEF PaneInv

LEMMA SignalWaitedStep ==
  ASSUME PaneInv, SignalWaited
  PROVE  PaneInv'
<1>1. PaneTyped'
  BY DEF PaneInv, PaneTyped, SignalWaited, SignalStops, Adopted, Known, Targets
<1>2. Unlaunched'
  BY DEF PaneInv, Unlaunched, SignalWaited
<1>3. Remembered'
  BY DEF PaneInv, PaneTyped, Living, UnderWay, Remembered, SignalWaited, SignalStops, Adopted, Known
<1>4. Launching'
  BY DEF PaneInv, PaneTyped, Launching, SignalWaited, SignalStops, Adopts, Known, Leads
<1>5. Signalled'
  BY DEF PaneInv, PaneTyped, Living, UnderWay, Remembered, Launching, Signalled, SignalWaited,
     SignalStops, Adopts, Known, Leads, Grouped, Targets
<1>6. Killing'
  BY DEF Killing, SignalWaited, Runnable
<1>7. ExitLeavesNothing'
  BY DEF ExitLeavesNothing, SignalWaited, Runnable
<1>8. life' \in {"up", "killed", "exited"}
  BY DEF PaneInv, SignalWaited
<1>9. QED
  BY <1>1, <1>2, <1>3, <1>4, <1>5, <1>6, <1>7, <1>8 DEF PaneInv

-----------------------------------------------------------------------------
(* kill(), and the end of the program. *)

LEMMA HideStep ==
  ASSUME PaneInv, Hide
  PROVE  PaneInv'
<1>1. PaneTyped'
  BY DEF PaneInv, PaneTyped, Hide, KillBegins
<1>2. Unlaunched'
  BY DEF PaneInv, Unlaunched, Hide
<1>3. Remembered'
  BY DEF PaneInv, Living, UnderWay, Remembered, Hide, KillBegins
<1>4. Launching'
  BY DEF PaneInv, Launching, Hide, KillBegins, Coming
<1>5. Signalled'
  BY DEF PaneInv, Signalled, Hide
<1>6. Killing'
  BY DEF PaneInv, PaneTyped, Killing, Hide, Runnable, KillBegins
<1>7. ExitLeavesNothing'
  BY DEF ExitLeavesNothing, Hide, Runnable
<1>8. life' \in {"up", "killed", "exited"}
  BY DEF PaneInv, Hide
<1>9. QED
  BY <1>1, <1>2, <1>3, <1>4, <1>5, <1>6, <1>7, <1>8 DEF PaneInv

LEMMA ExitStep ==
  ASSUME PaneInv, Exit
  PROVE  PaneInv'
<1>1. PaneTyped'
  BY DEF PaneInv, PaneTyped, Exit, KillBegins
<1>2. Unlaunched'
  BY DEF PaneInv, Unlaunched, Exit
<1>3. Remembered'
  BY DEF PaneInv, Living, UnderWay, Remembered, Exit, KillBegins
<1>4. Launching'
  BY DEF PaneInv, Launching, Exit, KillBegins, Coming
<1>5. Signalled'
  BY DEF PaneInv, Signalled, Exit
<1>6. Killing'
  BY DEF PaneInv, PaneTyped, Killing, Exit, Runnable, KillBegins
<1>7. ExitLeavesNothing'
  BY DEF ExitLeavesNothing, Exit, Runnable
<1>8. life' \in {"up", "killed", "exited"}
  BY DEF PaneInv, Exit
<1>9. QED
  BY <1>1, <1>2, <1>3, <1>4, <1>5, <1>6, <1>7, <1>8 DEF PaneInv

\* What lives is hit by SIGTERM, or is a launch that will find the cancel file.
LEMMA KillEndsStep ==
  ASSUME PaneInv, KillEnds
  PROVE  PaneInv'
<1>1. PICK f, l, hit : /\ f = (IF mem.launching THEN Adopted ELSE files)
                       /\ l = (IF mem.launching THEN Known ELSE mem.launched)
                       /\ hit = Targets(f, l)
  OBVIOUS
<1>2. /\ files' = f /\ mem' = [mem EXCEPT !.launched = l] /\ termed' = termed \cup hit
      /\ \E out \in [hit -> {"ended", "rest", "stays"}] :
           proc' = [i \in Runs |-> IF i \in hit /\ out[i] # "stays" THEN out[i] ELSE proc[i]]
      /\ life' = IF killing = "exit" THEN "exited" ELSE life
      /\ killing' = "no" /\ UNCHANGED <<user, strays, pc, todo, sig, runs>>
  BY <1>1 DEF KillEnds, asked
<1>3. user = "keeper" /\ life = "up" /\ sig = "none" /\ (mem.launching => files.cancel)
  BY DEF KillEnds, PaneInv, Killing, Signalled
<1>4. /\ DOMAIN f = DOMAIN files /\ f.pid = files.pid /\ f.cancel = files.cancel
      /\ mem.launched \subseteq l /\ l \subseteq Runs /\ \A i \in l : proc[i] \notin {"none", "typed"}
      /\ DOMAIN mem' = DOMAIN mem /\ mem'.launched = l /\ mem'.launching = mem.launching
  BY <1>1, <1>2 DEF Adopted, Known, Adopts, Leads, PaneInv, PaneTyped, Launching
<1>5. hit \subseteq Runs /\ \A i \in hit : Grouped(i)
  BY <1>1, <1>4 DEF Targets, Leads, Grouped, PaneInv, PaneTyped
<1>6. proc' \in [Runs -> States] /\ \A i \in Runs : proc'[i] = proc[i] \/ (i \in hit /\ proc'[i] \in {"ended", "rest"})
  BY <1>2 DEF PaneInv, PaneTyped, States
<1>7. ASSUME NEW i \in Living
      PROVE  i \in hit \cap l \/ (mem.launching /\ i = runs /\ proc[i] = "typed" /\ files.pid = 0)
  <2>1. CASE i \in mem.launched
    <3>1. Grouped(i) /\ i \in l
      BY <1>4, <1>7, <2>1 DEF Living, Grouped, Leads
    <3>2. QED
      BY <1>1, <3>1 DEF Targets
  <2>2. CASE UnderWay(i) /\ proc[i] # "typed" /\ i \notin mem.launched
    <3>1. Adopts /\ files.pid = i /\ mem.launching /\ Grouped(i)
      BY <2>2, RunsAssumption DEF UnderWay, Adopts, Leads, Living, Grouped, Runs
    <3>2. i \in l
      BY <1>1, <3>1 DEF Known
    <3>3. QED
      BY <1>1, <3>1, <3>2 DEF Targets
  <2>3. QED
    BY <1>3, <2>1, <2>2 DEF PaneInv, Remembered, UnderWay
<1>8. PaneTyped'
  BY <1>2, <1>4, <1>5, <1>6 DEF PaneInv, PaneTyped
<1>9. Unlaunched'
  BY <1>2, <1>5, <1>6 DEF PaneInv, Unlaunched, Grouped, Leads
<1>10. \A i \in Living' : i \in Living /\ (i \in hit \/ proc'[i] = proc[i])
  BY <1>2, <1>5, <1>6 DEF Living, Grouped, Leads
<1>11. Remembered'
  BY <1>2, <1>4, <1>5, <1>6, <1>7, <1>10 DEF Remembered, UnderWay, Grouped, Leads
<1>12. Launching'
  BY <1>2, <1>4, <1>5, <1>6 DEF PaneInv, Launching, Coming, Grouped, Leads
<1>13. Signalled' /\ Killing'
  BY <1>2, <1>3 DEF Signalled, Killing
<1>14. ExitLeavesNothing'
  BY <1>2, <1>3, <1>4, <1>7, <1>10, <1>6 DEF ExitLeavesNothing, Living, PaneInv, PaneTyped, States
<1>15. QED
  BY <1>2, <1>3, <1>8, <1>9, <1>11, <1>12, <1>13, <1>14 DEF PaneInv

LEMMA KilledStep ==
  ASSUME PaneInv, Killed
  PROVE  PaneInv'
<1>1. PaneTyped'
  BY DEF PaneInv, PaneTyped, Killed, NoMem, NoTodo
<1>2. Unlaunched'
  BY DEF PaneInv, Unlaunched, Killed
<1>3. Remembered'
  BY DEF Remembered, Killed
<1>4. Launching'
  BY DEF Launching, Killed, NoMem
<1>5. Signalled'
  BY DEF Signalled, Killed
<1>6. Killing'
  BY DEF Living, Killing, Killed, Runnable, Grouped, Leads
<1>7. ExitLeavesNothing'
  BY DEF ExitLeavesNothing, Killed
<1>8. life' \in {"up", "killed", "exited"}
  BY DEF Killed
<1>9. QED
  BY <1>1, <1>2, <1>3, <1>4, <1>5, <1>6, <1>7, <1>8 DEF PaneInv

LEMMA RevivedStep ==
  ASSUME PaneInv, Revived
  PROVE  PaneInv'
<1>1. PaneTyped'
  BY DEF PaneInv, PaneTyped, Revived, world
<1>2. Unlaunched'
  BY DEF PaneInv, Unlaunched, Revived, world
<1>3. Remembered'
  BY DEF PaneInv, Living, Remembered, Killing, Revived, world
<1>4. Launching'
  BY DEF PaneInv, Launching, Revived, world, Coming
<1>5. Signalled'
  BY DEF PaneInv, Living, Signalled, Killing, Revived, world
<1>6. Killing'
  BY DEF PaneInv, Killing, Revived
<1>7. ExitLeavesNothing'
  BY DEF ExitLeavesNothing, Revived
<1>8. life' \in {"up", "killed", "exited"}
  BY DEF Revived
<1>9. QED
  BY <1>1, <1>2, <1>3, <1>4, <1>5, <1>6, <1>7, <1>8 DEF PaneInv

-----------------------------------------------------------------------------
(* The pane's shell. *)

LEMMA LaunchStep ==
  ASSUME PaneInv, NEW i \in Runs, Launch(i)
  PROVE  PaneInv'
<1>1. PaneTyped'
  BY DEF PaneInv, PaneTyped, Launch, States
<1>2. Unlaunched'
  BY DEF PaneInv, Unlaunched, Launch
<1>3. Remembered'
  BY DEF PaneInv, PaneTyped, Living, UnderWay, Remembered, Launching, Launch, lifeVars
<1>4. Launching'
  BY DEF PaneInv, PaneTyped, Launching, Launch, Coming
<1>5. Signalled'
  BY DEF PaneInv, Living, Signalled, Launch, lifeVars
<1>6. Killing'
  BY DEF PaneInv, Living, Killing, Launch, lifeVars
<1>7. ExitLeavesNothing'
  BY DEF PaneInv, ExitLeavesNothing, Launch, lifeVars
<1>8. life' \in {"up", "killed", "exited"}
  BY DEF PaneInv, Launch, lifeVars
<1>9. QED
  BY <1>1, <1>2, <1>3, <1>4, <1>5, <1>6, <1>7, <1>8 DEF PaneInv

LEMMA BecomeStep ==
  ASSUME PaneInv, NEW i \in Runs, Become(i)
  PROVE  PaneInv'
<1>1. PaneTyped'
  BY DEF PaneInv, PaneTyped, Become, States
<1>2. Unlaunched'
  BY DEF PaneInv, Unlaunched, Become
<1>3. Remembered'
  BY DEF PaneInv, Living, UnderWay, Remembered, Become, lifeVars
<1>4. Launching'
  BY DEF PaneInv, Launching, Become, Coming
<1>5. Signalled'
  BY DEF PaneInv, Living, Signalled, Become, lifeVars
<1>6. Killing'
  BY DEF PaneInv, Living, Killing, Become, lifeVars
<1>7. ExitLeavesNothing'
  BY DEF PaneInv, ExitLeavesNothing, Become, lifeVars
<1>8. life' \in {"up", "killed", "exited"}
  BY DEF PaneInv, Become, lifeVars
<1>9. QED
  BY <1>1, <1>2, <1>3, <1>4, <1>5, <1>6, <1>7, <1>8 DEF PaneInv

LEMMA EndsStep ==
  ASSUME PaneInv, NEW i \in Runs, Ends(i)
  PROVE  PaneInv'
<1>1. PaneTyped'
  BY DEF PaneInv, PaneTyped, Ends, States
<1>2. Unlaunched'
  BY DEF PaneInv, Unlaunched, Ends
<1>3. Remembered'
  BY DEF PaneInv, Living, UnderWay, Remembered, Ends, lifeVars
<1>4. Launching'
  BY DEF PaneInv, Launching, Ends, Coming
<1>5. Signalled'
  BY DEF PaneInv, Living, Signalled, Ends, lifeVars
<1>6. Killing'
  BY DEF PaneInv, Living, Killing, Ends, lifeVars
<1>7. ExitLeavesNothing'
  BY DEF PaneInv, ExitLeavesNothing, Ends, lifeVars
<1>8. life' \in {"up", "killed", "exited"}
  BY DEF PaneInv, Ends, lifeVars
<1>9. QED
  BY <1>1, <1>2, <1>3, <1>4, <1>5, <1>6, <1>7, <1>8 DEF PaneInv

\* A program that has exited leaves no session that is not told to end, whatever
\* is typed, fails, hangs or is killed before (stop and kill of harness_herdr.mjs).
THEOREM Leaving == Spec => []ExitLeavesNothing
<1>1. Init => PaneInv
  BY RunsAssumption DEF Init, PaneInv, PaneTyped, Unlaunched, Remembered, Launching, Signalled,
     Killing,
     ExitLeavesNothing, Living, Coming, NoFiles, NoMem, NoTodo, States
<1>2. PaneInv /\ [Next]_paneVars => PaneInv'
  <2>1. SUFFICES ASSUME PaneInv, [Next]_paneVars PROVE PaneInv'
    OBVIOUS
  <2>2. CASE Starting \/ Restart \/ Show
    BY <2>1, <2>2, QuietStep, LookStep, TypeStep, TookStep, TimedOutStep DEF Starting
  <2>3. CASE Stopping
    BY <2>1, <2>3, TerminateStep, KillGroupStep, StoppedStep DEF Stopping
  <2>4. CASE Shell \/ \E i \in Runs : Ends(i)
    BY <2>1, <2>4, LaunchStep, BecomeStep, EndsStep DEF Shell
  <2>5. CASE HerdrFails \/ Signal \/ SignalWaited \/ Hide \/ Exit \/ KillEnds \/ Killed \/ Revived
    BY <2>1, <2>5, HerdrFailsStep, SignalStep, SignalWaitedStep, HideStep, ExitStep, KillEndsStep,
       KilledStep, RevivedStep
  <2>6. CASE UNCHANGED paneVars
    BY <2>1, <2>6, PaneFrame DEF paneVars, PaneInv, PaneTyped, Launching
  <2>7. QED
    BY <2>1, <2>2, <2>3, <2>4, <2>5, <2>6 DEF Next
<1>3. PaneInv => ExitLeavesNothing
  BY DEF PaneInv
<1>4. QED
  BY <1>1, <1>2, <1>3, PTL DEF Spec
=============================================================================
