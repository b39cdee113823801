--------------------------- MODULE TokenServicesProofs ---------------------------
(***************************************************************************)
(* What the four token services promise, for any number of threads,        *)
(* connects or credentials, half-lives and faults: what is stored works,   *)
(* nobody is asked to authenticate again without need, one retry is        *)
(* enough, and a refresh does not replace a newer connect.                 *)
(*                                                                         *)
(* The invariant follows the refresh tokens of one connect: the newest is  *)
(* in the row or in the hands of exactly one thread that is about to store *)
(* it, and nobody else knows it (Fresh).                                   *)
(***************************************************************************)
EXTENDS TokenServices, TLAPS

\* The type invariant of the stores, the provider and the threads.
TypeOK ==
    /\ flavour \in {"acc", "dbx", "ssa", "sp"}
    /\ row \in Stored \cup {Null} /\ (~OAuth => row \in Stored)
    /\ secret \in Gens
    /\ cache \in Token \cup {Null}
    /\ lock \in Threads \cup {Null}
    /\ thread \in [Threads -> Thread]
    /\ change \in {"none", "row", "invalidate", "mint", "delete"} /\ (OAuth => change = "none")
    /\ last \in Gens
    /\ live \in [Gens -> Nat]
    /\ dead \in SUBSET Gens
    /\ lost \in SUBSET Gens
    /\ faults \in Nat

\* What thread x has read or was given, the point where it is, and whether it is a retry.
Carries(x) ==
    /\ x.pc \in {"secret", "exchange", "save"} => x.rec \in Record
    /\ x.pc \in {"save", "use"} => x.tok \in Token
    /\ x.pc = "secret" => ~OAuth
    /\ flavour = "dbx" => ~x.force

\* A thread that refreshes a Databricks token holds the lock.
Locked(t) ==
    flavour = "dbx" /\ thread[t].pc \in {"reread", "exchange", "save"} => lock = t

\* Somebody has the newest refresh token of g and is about to store it.
Saving(g) == \E t \in Threads : thread[t].pc = "save" /\ thread[t].rec.gen = g

\* The n-th refresh token of g, which somebody knows: it is the newest only when
\* nobody has a newer one.
Known(g, n) ==
    /\ g <= last
    /\ g \notin lost => n <= live[g] /\ (n = live[g] => ~Saving(g))

Fresh ==
    OAuth =>
        /\ row # Null => Known(row.gen, row.n)
        /\ \A t \in Threads : thread[t].pc = "exchange" => Known(thread[t].rec.gen, thread[t].rec.n)
        /\ \A t \in Threads :
              thread[t].pc = "save" =>
                 /\ thread[t].rec.gen <= last
                 /\ thread[t].rec.gen \notin lost => thread[t].rec.n = live[thread[t].rec.gen]
        /\ \A t, u \in Threads :
              (thread[t].pc = "save" /\ thread[u].pc = "save" /\ thread[t].rec.gen = thread[u].rec.gen
                 /\ thread[t].rec.gen \notin lost) => t = u
        /\ \A g \in Gens : g > last => live[g] = 1

\* Who holds the lock presents what is stored.
Presents(x) ==
    flavour = "dbx" /\ x.pc = "exchange" /\ row # Null /\ row.gen = x.rec.gen => x.rec.n = row.n

\* What was read of a credential is what is stored, unless it changed since.
ReadWell(x) ==
    ~OAuth /\ ~x.changed =>
        /\ x.pc \in {"secret", "exchange"} => x.rec.gen = row.gen
        /\ x.pc = "exchange" => x.rec.n = secret

\* A forced token is of a connect or credential that works, unless that changed since.
Forced(x) == x.pc \in {"save", "use"} /\ x.force /\ ~x.changed => x.tok.gen \notin dead

\* A refresh is of what is stored, unless a connect or a reset fell into it.
Overtook(x) ==
    OAuth /\ x.pc \in {"exchange", "save"} /\ (row = Null \/ row.gen # x.rec.gen) => overtaken

Each(x) == Carries(x) /\ Presents(x) /\ ReadWell(x) /\ Forced(x) /\ Overtook(x)

IInv ==
    /\ TypeOK
    /\ \A t \in Threads : Each(thread[t]) /\ Locked(t)
    /\ Fresh
    /\ StoredUsable

-----------------------------------------------------------------------------
(* What the steps of a thread do to it *)

OnlyT(t) == \A u \in Threads \ {t} : thread'[u] = thread[u]

LEMMA FreeType == Free \in Thread
BY DEF Free, Thread

LEMMA UseStep ==
    ASSUME TypeOK, NEW t \in Threads, NEW token \in Token, Use(t, token)
    PROVE  /\ thread' \in [Threads -> Thread] /\ OnlyT(t)
           /\ thread'[t].pc = "use" /\ thread'[t].tok = token
           /\ thread'[t].force = thread[t].force /\ thread'[t].changed = thread[t].changed
<1> DEFINE x == thread[t]
<1> DEFINE y == [x EXCEPT !.pc = "use", !.rec = Null, !.tok = token]
<1>1. x \in Thread /\ thread \in [Threads -> Thread]
  BY DEF TypeOK
<1>2. y \in Thread /\ y.pc = "use" /\ y.tok = token /\ y.force = x.force /\ y.changed = x.changed
  BY <1>1 DEF Thread
<1>3. thread' = [thread EXCEPT ![t] = y]
  BY <1>1 DEF Use
<1> HIDE DEF y
<1> QED
  BY <1>1, <1>2, <1>3 DEF OnlyT

LEMMA ReadStep ==
    ASSUME TypeOK, NEW t \in Threads, NEW g \in Gens, NEW n \in Nat, NEW pc \in {"lock", "secret", "exchange"},
           Read(t, g, n, pc)
    PROVE  /\ thread' \in [Threads -> Thread] /\ OnlyT(t)
           /\ thread'[t].pc = pc /\ thread'[t].rec \in Record
           /\ thread'[t].rec.gen = g /\ thread'[t].rec.n = n
           /\ thread'[t].force = thread[t].force /\ thread'[t].changed = thread[t].changed
<1> DEFINE x == thread[t]
<1> DEFINE rec == [gen |-> g, n |-> n]
<1> DEFINE y == [x EXCEPT !.pc = pc, !.rec = rec, !.tok = Null]
<1>1. x \in Thread /\ thread \in [Threads -> Thread]
  BY DEF TypeOK
<1>2. rec \in Record /\ rec.gen = g /\ rec.n = n
  BY DEF Record
<1>3. thread' = [thread EXCEPT ![t] = y]
  BY <1>1 DEF Read
<1> HIDE DEF rec
<1>4. y \in Thread /\ y.pc = pc /\ y.rec = rec /\ y.force = x.force /\ y.changed = x.changed
  BY <1>1, <1>2 DEF Thread
<1> HIDE DEF y
<1> QED
  BY <1>1, <1>2, <1>3, <1>4 DEF OnlyT

LEMMA EndStep ==
    ASSUME TypeOK, NEW t \in Threads, End(t)
    PROVE  /\ thread' \in [Threads -> Thread] /\ OnlyT(t) /\ thread'[t] = Free
           /\ lock' = lock \/ (lock' = Null /\ lock = t)
           /\ Free.pc = "free" /\ ~Free.force
BY FreeType DEF TypeOK, End, OnlyT, Free

\* Only the point where thread t is changes.
LEMMA PointStep ==
    ASSUME TypeOK, NEW t \in Threads, NEW pc \in {"get", "lock", "reread"},
           thread' = [thread EXCEPT ![t].pc = pc]
    PROVE  /\ thread' \in [Threads -> Thread] /\ OnlyT(t)
           /\ thread'[t].pc = pc /\ thread'[t].force = thread[t].force
BY DEF TypeOK, Thread, OnlyT

\* A step of thread t that touches nothing but the thread and its lock.
Calm(t) ==
    LET x == thread[t]
        y == thread'[t]
    IN  /\ OnlyT(t) /\ thread' \in [Threads -> Thread]
        /\ UNCHANGED <<flavour, row, secret, cache, change, last, live, dead, faults, lost, broken, overtaken>>
        /\ x.pc # "save" /\ y.pc # "save"
        /\ y.pc = "use" => ~y.force /\ y.tok \in Token
        /\ y.pc = "secret" => ~OAuth /\ y.rec \in Record /\ y.rec.gen = row.gen
        /\ y.pc = "exchange" =>
              /\ y.rec \in Record
              /\ OAuth => row # Null /\ y.rec.gen = row.gen /\ y.rec.n = row.n
              /\ ~OAuth => /\ x.pc = "secret" /\ y.rec.gen = x.rec.gen
                           /\ y.rec.n = secret /\ y.changed = x.changed
        /\ flavour = "dbx" => ~y.force
        /\ lock' = lock \/ (lock' = Null /\ lock = t) \/ (lock' = t /\ lock = Null)
        /\ flavour = "dbx" /\ y.pc \in {"reread", "exchange", "save"} => lock' = t

LEMMA RowType ==
    ASSUME TypeOK, row # Null \/ ~OAuth
    PROVE  /\ row \in Stored /\ row.gen \in Gens /\ row.n \in Nat /\ row.left \in 0..2
           /\ [gen |-> row.gen, left |-> row.left] \in Token
BY DEF TypeOK, Stored, Token, Left

LEMMA CalmStep ==
    ASSUME IInv, NEW t \in Threads,
           \/ start(t) \/ get_valid_token(t) \/ get_valid_dbx_token(t) \/ NotConnected(t)
           \/ get_cached_token(t) \/ get_secret(t) \/ exchange_refused(t) \/ operation(t)
    PROVE  Calm(t)
<1> DEFINE x == thread[t]
<1> DEFINE y == thread'[t]
<1> DEFINE token == [gen |-> row.gen, left |-> row.left]
<1>1. TypeOK /\ Carries(x) /\ x \in Thread /\ Locked(t)
  BY DEF IInv, Each, TypeOK
<1>2. UNCHANGED <<flavour, row, secret, cache, change, last, live, dead, faults, lost, broken, overtaken>>
  BY DEF start, get_valid_token, get_valid_dbx_token, NotConnected, get_cached_token, get_secret,
         exchange_refused, operation, provider, history
<1>3. x.pc # "save"
  BY DEF start, get_valid_token, get_valid_dbx_token, NotConnected, get_cached_token, get_secret,
         exchange_refused, operation
<1>4. CASE start(t)
  <2>1. UNCHANGED lock /\ thread' = [thread EXCEPT ![t].pc = "get"]
    BY <1>4 DEF start
  <2> QED
    BY <1>1, <1>2, <1>3, <2>1, PointStep DEF Calm, Carries
<1>5. CASE get_valid_token(t)
  <2>1. UNCHANGED lock /\ row # Null /\ flavour = "acc" /\ OAuth
    BY <1>5 DEF get_valid_token, OAuth
  <2>2. token \in Token /\ row.gen \in Gens /\ row.n \in Nat
    BY <1>1, <2>1, RowType
  <2> HIDE DEF token
  <2>3. CASE ~x.force /\ Use(t, token)
    BY <1>1, <1>2, <1>3, <2>1, <2>2, <2>3, UseStep DEF Calm
  <2>4. CASE Read(t, row.gen, row.n, "exchange")
    BY <1>1, <1>2, <1>3, <2>1, <2>2, <2>4, ReadStep DEF Calm
  <2> QED
    BY <1>5, <2>3, <2>4 DEF get_valid_token, token
<1>6. CASE get_valid_dbx_token(t)
  <2>1. flavour = "dbx" /\ OAuth /\ ~x.force
    BY <1>1, <1>6 DEF get_valid_dbx_token, OAuth, Carries
  <2>2. row # Null => token \in Token /\ row.gen \in Gens /\ row.n \in Nat
    BY <1>1, RowType
  <2> HIDE DEF token
  <2>3. CASE row # Null /\ Use(t, token) /\ (lock' = lock \/ (lock' = Null /\ lock = t))
    BY <1>1, <1>2, <1>3, <2>1, <2>2, <2>3, UseStep DEF Calm
  <2>4. CASE thread' = [thread EXCEPT ![t].pc = "lock"] /\ UNCHANGED lock
    BY <1>1, <1>2, <1>3, <2>1, <2>4, PointStep DEF Calm
  <2>5. CASE thread' = [thread EXCEPT ![t].pc = "reread"] /\ lock = Null /\ lock' = t
    BY <1>1, <1>2, <1>3, <2>1, <2>5, PointStep DEF Calm
  <2>6. CASE row # Null /\ x.pc = "reread" /\ Read(t, row.gen, row.n, "exchange") /\ UNCHANGED lock
    <3>1. lock' = t
      BY <1>1, <2>1, <2>6 DEF Locked
    <3> QED
      BY <1>1, <1>2, <1>3, <2>1, <2>2, <2>6, <3>1, ReadStep DEF Calm
  <2>7. x.pc = "reread" => lock = t
    BY <1>1, <2>1 DEF Locked
  <2> QED
    BY <1>6, <2>3, <2>4, <2>5, <2>6, <2>7 DEF get_valid_dbx_token, token
<1>7. CASE NotConnected(t) \/ exchange_refused(t)
  <2>1. End(t)
    BY <1>7 DEF NotConnected, exchange_refused
  <2> QED
    BY <1>1, <1>2, <1>3, <2>1, EndStep DEF Calm
<1>8. CASE get_cached_token(t)
  <2>1. UNCHANGED lock /\ ~OAuth /\ flavour # "dbx"
    BY <1>8 DEF get_cached_token, OAuth
  <2>2. row.gen \in Gens
    BY <1>1, <2>1, RowType
  <2>3. CASE ~x.force /\ cache # Null /\ Use(t, cache)
    <3>1. cache \in Token
      BY <1>1, <2>3 DEF TypeOK
    <3> QED
      BY <1>1, <1>2, <1>3, <2>1, <2>3, <3>1, UseStep DEF Calm
  <2>4. CASE Read(t, row.gen, 0, "secret")
    BY <1>1, <1>2, <1>3, <2>1, <2>2, <2>4, ReadStep DEF Calm
  <2> QED
    BY <1>8, <2>3, <2>4 DEF get_cached_token
<1>9. CASE get_secret(t)
  <2>1. UNCHANGED lock /\ ~OAuth /\ flavour # "dbx" /\ x.pc = "secret" /\ x.rec \in Record
    BY <1>1, <1>9 DEF get_secret, OAuth, Carries
  <2>2. x.rec.gen \in Gens /\ secret \in Nat /\ Read(t, x.rec.gen, secret, "exchange")
    BY <1>1, <1>9, <2>1 DEF get_secret, Record, TypeOK, Gens
  <2> QED
    BY <1>1, <1>2, <1>3, <2>1, <2>2, ReadStep DEF Calm
<1>10. CASE operation(t)
  <2>1. CASE End(t)
    BY <1>1, <1>2, <1>3, <2>1, EndStep DEF Calm
  <2>2. CASE ~End(t)
    <3> DEFINE z == [Free EXCEPT !.pc = "get", !.force = TRUE]
    <3>1. thread' = [thread EXCEPT ![t] = z] /\ UNCHANGED lock /\ flavour # "dbx"
      BY <1>10, <2>2 DEF operation
    <3>2. z \in Thread /\ z.pc = "get"
      BY FreeType DEF Free, Thread
    <3> HIDE DEF z
    <3> QED
      BY <1>1, <1>2, <1>3, <3>1, <3>2 DEF Calm, OnlyT, TypeOK
  <2> QED
    BY <2>1, <2>2
<1> QED
  BY <1>4, <1>5, <1>6, <1>7, <1>8, <1>9, <1>10

-----------------------------------------------------------------------------
(* Steps that change no store *)

LEMMA CalmKeeps ==
    ASSUME IInv, NEW t \in Threads, Calm(t)
    PROVE  IInv'
<1> DEFINE x == thread[t]
<1> DEFINE y == thread'[t]
<1>1. TypeOK'
  BY DEF IInv, TypeOK, Calm, OAuth
<1>2. \A u \in Threads : Each(thread[u])'
  <2> SUFFICES ASSUME NEW u \in Threads PROVE Each(thread[u])'
    OBVIOUS
  <2>1. Each(thread[u])
    BY DEF IInv
  <2>2. CASE u # t
    <3>1. thread'[u] = thread[u]
      BY <2>2 DEF Calm, OnlyT
    <3> QED
      BY <2>1, <3>1 DEF Calm, Each, Carries, Presents, ReadWell, Forced, Overtook, OAuth
  <2>3. CASE u = t
    <3>1. Carries(thread[t])' /\ Forced(thread[t])'
      BY DEF Calm, Carries, Forced, OAuth
    <3>2. Presents(thread[t])' /\ Overtook(thread[t])'
      BY DEF Calm, Presents, Overtook, OAuth
    <3>3. ReadWell(thread[t])'
      BY <2>1, <2>3 DEF Calm, Each, ReadWell, OAuth
    <3> QED
      BY <2>3, <3>1, <3>2, <3>3 DEF Each
  <2> QED
    BY <2>2, <2>3
<1>3. \A u \in Threads : Locked(u)'
  <2> SUFFICES ASSUME NEW u \in Threads PROVE Locked(u)'
    OBVIOUS
  <2>1. Locked(u)
    BY DEF IInv
  <2> QED
    BY <2>1, TokenAssumption DEF Calm, OnlyT, Locked
<1>4. \A u \in Threads : /\ thread'[u].pc = "save" <=> thread[u].pc = "save"
                         /\ thread[u].pc = "save" => thread'[u] = thread[u]
  BY DEF Calm, OnlyT
<1>5. \A g, n : Known(g, n) => Known(g, n)'
  BY <1>4 DEF Known, Saving, Calm
<1>6. Fresh'
  <2> SUFFICES ASSUME OAuth PROVE Fresh'
    BY DEF Fresh, Calm, OAuth
  <2>1. Fresh
    BY DEF IInv
  <2>2. row' # Null => Known(row.gen, row.n)'
    BY <1>5, <2>1 DEF Fresh, Calm
  <2>3. ASSUME NEW u \in Threads, thread'[u].pc = "exchange"
        PROVE  Known(thread[u].rec.gen, thread[u].rec.n)'
    <3>1. CASE u = t
      <4>1. row # Null /\ y.rec.gen = row.gen /\ y.rec.n = row.n /\ row' = row
        BY <2>3, <3>1 DEF Calm
      <4>2. Known(row.gen, row.n)'
        BY <2>2, <4>1
      <4> QED
        BY <3>1, <4>1, <4>2
    <3>2. CASE u # t
      BY <1>5, <2>1, <2>3, <3>2 DEF Fresh, Calm, OnlyT
    <3> QED
      BY <3>1, <3>2
  <2> QED
    BY <1>4, <2>1, <2>2, <2>3 DEF Fresh, Calm, OAuth
<1>7. StoredUsable'
  BY <1>4 DEF IInv, StoredUsable, Calm, OAuth
<1> QED
  BY <1>1, <1>2, <1>3, <1>6, <1>7 DEF IInv

-----------------------------------------------------------------------------
(* The exchange of a refresh token and the write of its successor *)

\* The exchange gives thread t the newest refresh token, and nobody else had it.
LEMMA ExchangeKeeps ==
    ASSUME IInv, NEW t \in Threads, exchange(t)
    PROVE  IInv'
<1> DEFINE x == thread[t]
<1> DEFINE y == thread'[t]
<1> DEFINE g == x.rec.gen
<1>1. /\ TypeOK /\ Each(x) /\ Locked(t) /\ x \in Thread /\ x.pc = "exchange" /\ x.rec \in Record
      /\ g \in Gens /\ Fresh /\ StoredUsable
  BY DEF IInv, TypeOK, Each, Carries, exchange, Record
<1>2. UNCHANGED <<flavour, row, secret, cache, lock, change, last, dead, faults, lost, broken, overtaken>>
  BY DEF exchange, history
<1>3. live' = Consumed(x.rec) /\ live' \in [Gens -> Nat]
  BY <1>1 DEF exchange, Consumed, TypeOK
<1>4. /\ OnlyT(t) /\ thread' \in [Threads -> Thread]
      /\ y.pc = "save" /\ y.tok \in Token /\ y.tok.gen = g
      /\ y.rec \in Record /\ y.rec.gen = g /\ y.rec.n = live'[g]
      /\ y.force = x.force /\ y.changed = x.changed
  <2> DEFINE token == [gen |-> g, left |-> 2]
  <2> DEFINE rec == [x.rec EXCEPT !.n = live'[g]]
  <2> DEFINE z == [x EXCEPT !.pc = "save", !.tok = token, !.rec = rec]
  <2>1. token \in Token /\ token.gen = g
    BY <1>1 DEF Token, Left
  <2>2. rec \in Record /\ rec.gen = g /\ rec.n = live'[g]
    BY <1>1, <1>3 DEF Record
  <2>3. thread' = [thread EXCEPT ![t] = z]
    BY <1>1 DEF exchange, TypeOK
  <2> HIDE DEF token, rec
  <2>4. z \in Thread /\ z.pc = "save" /\ z.tok = token /\ z.rec = rec /\ z.force = x.force /\ z.changed = x.changed
    BY <1>1, <2>1, <2>2 DEF Thread
  <2> HIDE DEF z
  <2> QED
    BY <1>1, <2>1, <2>2, <2>3, <2>4 DEF OnlyT, TypeOK
<1>5. x.rec.gen \notin dead /\ (OAuth => x.rec.n = live[g])
  BY DEF exchange, Works
<1>6. TypeOK'
  BY <1>1, <1>2, <1>3, <1>4 DEF TypeOK, OAuth
<1>7. \A u \in Threads : Each(thread[u])' /\ Locked(u)'
  <2> SUFFICES ASSUME NEW u \in Threads PROVE Each(thread[u])' /\ Locked(u)'
    OBVIOUS
  <2>1. Each(thread[u]) /\ Locked(u)
    BY DEF IInv
  <2>2. CASE u # t
    <3>1. thread'[u] = thread[u]
      BY <1>4, <2>2 DEF OnlyT
    <3> QED
      BY <1>2, <2>1, <3>1 DEF Each, Carries, Presents, ReadWell, Forced, Overtook, OAuth, Locked
  <2>3. CASE u = t
    <3>1. Carries(thread[t])' /\ Presents(thread[t])' /\ ReadWell(thread[t])'
      BY <1>1, <1>2, <1>4 DEF Each, Carries, Presents, ReadWell, OAuth
    <3>2. Forced(thread[t])' /\ Overtook(thread[t])'
      BY <1>1, <1>2, <1>4, <1>5 DEF Each, Forced, Overtook, OAuth
    <3>3. Locked(t)'
      BY <1>1, <1>2 DEF Locked
    <3> QED
      BY <2>3, <3>1, <3>2, <3>3 DEF Each
  <2> QED
    BY <2>2, <2>3
<1>8. CASE OAuth
  <2>1. live' = [live EXCEPT ![g] = live[g] + 1] /\ live[g] \in Nat /\ live \in [Gens -> Nat]
    BY <1>1, <1>3, <1>8 DEF Consumed, TypeOK
  <2>2. Known(g, live[g])
    BY <1>1, <1>5, <1>8 DEF Fresh
  <2>3. g \notin lost => ~Saving(g)
    BY <2>2 DEF Known
  <2>4. ASSUME NEW h \in Gens, NEW n \in Nat, Known(h, n)
        PROVE  Known(h, n)'
    <3>1. CASE h # g
      <4>1. live'[h] = live[h]
        BY <2>1, <3>1
      <4>2. Saving(h)' => Saving(h)
        BY <1>4, <3>1 DEF Saving, OnlyT
      <4> QED
        BY <1>2, <2>4, <4>1, <4>2 DEF Known
    <3>2. CASE h = g
      BY <1>1, <1>2, <2>1, <2>4, <3>2 DEF Known
    <3> QED
      BY <3>1, <3>2
  <2>5. row' # Null => Known(row.gen, row.n)'
    <3>1. row # Null => row.gen \in Gens /\ row.n \in Nat /\ Known(row.gen, row.n)
      BY <1>1, <1>8, RowType DEF Fresh
    <3> QED
      BY <1>2, <2>4, <3>1
  <2>6. ASSUME NEW u \in Threads, thread'[u].pc = "exchange"
        PROVE  Known(thread[u].rec.gen, thread[u].rec.n)'
    <3>1. u # t /\ thread'[u] = thread[u]
      BY <1>4, <2>6 DEF OnlyT
    <3>2. thread[u].rec.gen \in Gens /\ thread[u].rec.n \in Nat /\ Known(thread[u].rec.gen, thread[u].rec.n)
      BY <1>1, <1>8, <2>6, <3>1 DEF IInv, Each, Carries, Record, Fresh
    <3> QED
      BY <2>4, <3>1, <3>2
  <2>7. ASSUME NEW u \in Threads, thread'[u].pc = "save"
        PROVE  /\ thread'[u].rec.gen <= last'
               /\ thread'[u].rec.gen \notin lost' => thread'[u].rec.n = live'[thread'[u].rec.gen]
    <3>1. CASE u = t
      BY <1>2, <1>4, <2>2, <3>1 DEF Known
    <3>2. CASE u # t
      <4>1. thread'[u] = thread[u] /\ thread[u].pc = "save" /\ thread[u].rec.gen \in Gens
        BY <1>4, <2>7, <3>2 DEF OnlyT, IInv, Each, Carries, Record
      <4>2. thread[u].rec.gen # g \/ g \in lost
        BY <2>3, <4>1 DEF Saving
      <4> QED
        BY <1>1, <1>2, <1>8, <2>1, <4>1, <4>2 DEF Fresh
    <3> QED
      BY <3>1, <3>2
  <2>8. ASSUME NEW u \in Threads, NEW v \in Threads, thread'[u].pc = "save", thread'[v].pc = "save",
               thread'[u].rec.gen = thread'[v].rec.gen, thread'[u].rec.gen \notin lost'
        PROVE  u = v
    <3>1. CASE u # t /\ v # t
      BY <1>1, <1>2, <1>4, <1>8, <2>8, <3>1 DEF Fresh, OnlyT
    <3>2. CASE u = t \/ v = t
      BY <1>2, <1>4, <2>3, <2>8, <3>2 DEF Saving, OnlyT
    <3> QED
      BY <3>1, <3>2
  <2>9. \A h \in Gens : h > last' => live'[h] = 1
    BY <1>1, <1>2, <1>8, <2>1, <2>2 DEF Fresh, Known, Gens, TypeOK
  <2>10. Fresh'
    BY <2>5, <2>6, <2>7, <2>8, <2>9 DEF Fresh
  <2>11. StoredUsable'
    <3> SUFFICES ASSUME row # Null, row.gen \notin lost
                 PROVE  row.n = live'[row.gen] \/ Saving(row.gen)'
      BY <1>2, <1>8 DEF StoredUsable, OAuth, Saving
    <3>1. row.gen \in Gens /\ (row.n = live[row.gen] \/ Saving(row.gen))
      BY <1>1, <1>8, RowType DEF StoredUsable, Saving
    <3>2. CASE row.gen = g
      BY <1>2, <1>4, <3>2 DEF Saving
    <3>3. CASE row.gen # g
      BY <1>1, <1>2, <1>4, <2>1, <3>1, <3>3 DEF Saving, OnlyT
    <3> QED
      BY <3>2, <3>3
  <2> QED
    BY <1>6, <1>7, <2>10, <2>11 DEF IInv
<1>9. CASE ~OAuth
  BY <1>1, <1>2, <1>6, <1>7, <1>9 DEF IInv, Fresh, StoredUsable, OAuth
<1> QED
  BY <1>8, <1>9

\* Threads end and refresh tokens are lost.
LEMMA LossKeeps ==
    ASSUME IInv, UNCHANGED <<flavour, row, last>>, lost \subseteq lost',
           \A g \in Gens : g \notin lost' \/ g > last => live'[g] = live[g],
           \A u \in Threads : thread'[u] = thread[u] \/ thread'[u].pc = "free",
           \A u \in Threads : OAuth /\ thread[u].pc = "save" => thread'[u] = thread[u] \/ thread[u].rec.gen \in lost'
    PROVE  Fresh' /\ (OAuth => StoredUsable')
<1> SUFFICES ASSUME OAuth PROVE Fresh' /\ StoredUsable'
  BY DEF Fresh, OAuth
<1>1. Fresh /\ StoredUsable /\ TypeOK
  BY DEF IInv
<1>2. \A u \in Threads : thread'[u].pc \in {"exchange", "save"} =>
         thread'[u] = thread[u] /\ thread[u].rec.gen \in Gens /\ thread[u].rec.n \in Nat
  BY DEF IInv, Each, Carries, Record
<1>3. \A g : Saving(g)' => Saving(g)
  BY <1>2 DEF Saving
<1>4. \A g \in Gens : g \notin lost' /\ Saving(g) => Saving(g)'
  BY DEF Saving
<1>5. ASSUME NEW g \in Gens, NEW n \in Nat, Known(g, n)
      PROVE  Known(g, n)'
  <2>1. g <= last' /\ (g \notin lost' => g \notin lost)
    BY <1>5 DEF Known
  <2>2. g \notin lost' => live'[g] = live[g]
    OBVIOUS
  <2> QED
    BY <1>3, <1>5, <2>1, <2>2 DEF Known
<1>6. row # Null => row.gen \in Gens /\ row.n \in Nat
  BY <1>1, RowType
<1>7. row' # Null => Known(row.gen, row.n)'
  BY <1>1, <1>5, <1>6 DEF Fresh
<1>8. ASSUME NEW u \in Threads, thread'[u].pc = "exchange"
      PROVE  Known(thread[u].rec.gen, thread[u].rec.n)'
  <2>1. thread'[u] = thread[u] /\ thread[u].rec.gen \in Gens /\ thread[u].rec.n \in Nat
    BY <1>2, <1>8
  <2>2. Known(thread[u].rec.gen, thread[u].rec.n)
    BY <1>1, <1>8, <2>1 DEF Fresh
  <2> QED
    BY <1>5, <2>1, <2>2
<1>9. ASSUME NEW u \in Threads, thread'[u].pc = "save"
      PROVE  /\ thread'[u].rec.gen <= last'
             /\ thread'[u].rec.gen \notin lost' => thread'[u].rec.n = live'[thread'[u].rec.gen]
  <2>1. thread'[u] = thread[u] /\ thread[u].rec.gen \in Gens
    BY <1>2, <1>9
  <2> QED
    BY <1>1, <1>9, <2>1 DEF Fresh
<1>10. ASSUME NEW u \in Threads, NEW v \in Threads, thread'[u].pc = "save", thread'[v].pc = "save",
              thread'[u].rec.gen = thread'[v].rec.gen, thread'[u].rec.gen \notin lost'
       PROVE  u = v
  <2>1. thread'[u] = thread[u] /\ thread'[v] = thread[v]
    BY <1>2, <1>10
  <2> QED
    BY <1>1, <1>10, <2>1 DEF Fresh
<1>11. \A g \in Gens : g > last' => live'[g] = 1
  BY <1>1 DEF Fresh
<1>12. Fresh'
  BY <1>7, <1>8, <1>9, <1>10, <1>11 DEF Fresh
<1>13. StoredUsable'
  <2>1. row # Null /\ row.gen \notin lost' => row.n = live'[row.gen] \/ Saving(row.gen)'
    BY <1>1, <1>4, <1>6 DEF StoredUsable, Saving
  <2> QED
    BY <2>1 DEF StoredUsable, OAuth, Saving
<1> QED
  BY <1>12, <1>13

\* Threads end, or nothing happens to them.
LEMMA EndKeeps ==
    ASSUME IInv, UNCHANGED <<flavour, row, secret, dead, overtaken>>,
           \A u \in Threads : \/ thread'[u] = thread[u] /\ (lock' = lock \/ lock # u)
                              \/ thread'[u] = Free
    PROVE  \A u \in Threads : Each(thread[u])' /\ Locked(u)'
<1> SUFFICES ASSUME NEW u \in Threads PROVE Each(thread[u])' /\ Locked(u)'
  OBVIOUS
<1>1. Each(thread[u]) /\ Locked(u)
  BY DEF IInv
<1>2. CASE thread'[u] = Free
  BY <1>2 DEF Free, Each, Carries, Presents, ReadWell, Forced, Overtook, Locked
<1>3. CASE thread'[u] = thread[u] /\ (lock' = lock \/ lock # u)
  BY <1>1, <1>3 DEF Each, Carries, Presents, ReadWell, Forced, Overtook, Locked, OAuth
<1> QED
  BY <1>2, <1>3

LEMMA ExchangeLostKeeps ==
    ASSUME IInv, NEW t \in Threads, exchange_lost(t)
    PROVE  IInv'
<1> DEFINE rec == thread[t].rec
<1>1. TypeOK /\ rec \in Record /\ rec.gen \in Gens /\ thread[t].pc = "exchange"
  BY DEF IInv, Each, Carries, exchange_lost, Record
<1>2. /\ UNCHANGED <<flavour, row, secret, cache, change, last, dead, broken, overtaken>>
      /\ OnlyT(t) /\ thread'[t] = Free /\ thread' \in [Threads -> Thread]
      /\ lock' = lock \/ (lock' = Null /\ lock = t)
      /\ faults' = faults + 1
  BY <1>1, EndStep DEF exchange_lost
<1>3. live' = live \/ (OAuth /\ Works(rec) /\ live' = [live EXCEPT ![rec.gen] = live[rec.gen] + 1])
  BY DEF exchange_lost, Consumed
<1>4. lost' = IF OAuth /\ Works(rec) THEN lost \cup {rec.gen} ELSE lost
  BY DEF exchange_lost
<1>5. TypeOK'
  BY <1>1, <1>2, <1>3, <1>4 DEF TypeOK, OAuth
<1>6. \A u \in Threads : Each(thread[u])' /\ Locked(u)'
  BY <1>2, EndKeeps DEF OnlyT
<1>7. OAuth => rec.gen <= last
  BY <1>1 DEF IInv, Fresh, Known
<1>8. \A g \in Gens : g \notin lost' \/ g > last => live'[g] = live[g]
  <2>1. rec.gen \in Nat /\ last \in Nat
    BY <1>1 DEF TypeOK, Gens
  <2> QED
    BY <1>1, <1>3, <1>4, <1>7, <2>1 DEF TypeOK
<1>9. Fresh' /\ (OAuth => StoredUsable')
  <2>1. \A u \in Threads : thread'[u] = thread[u] \/ thread'[u].pc = "free"
    BY <1>2 DEF OnlyT, Free
  <2>2. \A u \in Threads : thread[u].pc = "save" => thread'[u] = thread[u]
    BY <1>1, <1>2 DEF OnlyT
  <2>3. lost \subseteq lost'
    BY <1>4
  <2> QED
    BY <1>2, <1>8, <2>1, <2>2, <2>3, LossKeeps
<1>10. ~OAuth => StoredUsable'
  BY <1>2 DEF IInv, StoredUsable, OAuth
<1> QED
  BY <1>5, <1>6, <1>9, <1>10 DEF IInv

LEMMA RestartKeeps ==
    ASSUME IInv, Restart
    PROVE  IInv'
<1>1. /\ UNCHANGED <<flavour, row, secret, last, live, dead, overtaken>>
      /\ thread' = [u \in Threads |-> Free] /\ cache' = Null /\ lock' = Null /\ change' = "none"
      /\ faults' = faults + 1 /\ broken' = (broken \/ change = "row")
      /\ lost' = IF OAuth THEN lost \cup {thread[u].rec.gen : u \in {v \in Threads : thread[v].pc = "save"}} ELSE lost
  BY DEF Restart, provider
<1>2. TypeOK
  BY DEF IInv
<1>3. \A u \in Threads : thread[u].pc = "save" => thread[u].rec.gen \in Gens
  BY DEF IInv, Each, Carries, Record
<1>4. TypeOK'
  BY <1>1, <1>2, <1>3, FreeType DEF TypeOK, OAuth
<1>5. \A u \in Threads : Each(thread[u])' /\ Locked(u)'
  BY <1>1, EndKeeps
<1>6. Fresh' /\ (OAuth => StoredUsable')
  <2>1. \A u \in Threads : thread'[u].pc = "free"
    BY <1>1 DEF Free
  <2>2. \A u \in Threads : OAuth /\ thread[u].pc = "save" => thread[u].rec.gen \in lost'
    BY <1>1
  <2>3. lost \subseteq lost'
    BY <1>1
  <2> QED
    BY <1>1, <2>1, <2>2, <2>3, LossKeeps
<1>7. ~OAuth => StoredUsable'
  BY <1>1 DEF IInv, StoredUsable, OAuth
<1> QED
  BY <1>4, <1>5, <1>6, <1>7 DEF IInv

\* Who stores the newest refresh token stops being the only one who knows it.
LEMMA SaveKeeps ==
    ASSUME IInv, NEW t \in Threads, save(t)
    PROVE  IInv'
<1> DEFINE x == thread[t]
<1> DEFINE y == thread'[t]
<1> DEFINE g == x.rec.gen
<1> DEFINE fresh == Refreshed(t)
<1>1. /\ TypeOK /\ Each(x) /\ Locked(t) /\ x.pc = "save" /\ x.rec \in Record /\ x.tok \in Token
      /\ g \in Gens /\ x.rec.n \in Nat /\ Fresh /\ StoredUsable
  BY DEF IInv, Each, Carries, save, Record
<1>2. UNCHANGED <<flavour, secret, change, last, live, dead, faults, lost, broken, overtaken>>
  BY DEF save, provider, history
<1>3. /\ thread' \in [Threads -> Thread] /\ OnlyT(t)
      /\ y.pc = "use" /\ y.tok = x.tok /\ y.force = x.force /\ y.changed = x.changed
  BY <1>1, UseStep DEF save
<1>4. fresh \in Stored /\ fresh.gen = g /\ fresh.n = x.rec.n
  BY <1>1 DEF Refreshed, Stored, Token
<1> HIDE DEF fresh
<1>5. /\ OAuth => cache' = cache /\ row' = IF flavour = "acc" /\ row = Null THEN Null ELSE fresh
      /\ ~OAuth => cache' = x.tok /\ row' = row
      /\ lock' = IF lock = t THEN Null ELSE lock
  BY DEF save, fresh
<1>6. TypeOK'
  BY <1>1, <1>2, <1>3, <1>4, <1>5 DEF TypeOK, OAuth
<1>7. ASSUME NEW u \in Threads
      PROVE  Each(thread[u])' /\ Locked(u)'
  <2>1. Each(thread[u]) /\ Locked(u)
    BY DEF IInv
  <2>2. CASE u = t
    <3>1. Each(thread[t])'
      BY <1>1, <1>2, <1>3 DEF Each, Carries, Presents, ReadWell, Forced, Overtook, OAuth
    <3>2. Locked(t)'
      BY <1>3 DEF Locked
    <3> QED
      BY <2>2, <3>1, <3>2
  <2>3. CASE u # t
    <3>1. thread'[u] = thread[u]
      BY <1>3, <2>3 DEF OnlyT
    <3>2. Locked(u)'
      BY <1>1, <1>2, <1>5, <2>1, <2>3, <3>1 DEF Locked
    <3>3. Carries(thread[u])' /\ Forced(thread[u])'
      BY <1>2, <2>1, <3>1 DEF Each, Carries, Forced, OAuth
    <3>4. Presents(thread[u])'
      <4>1. ~(flavour = "dbx" /\ thread[u].pc = "exchange")
        BY <1>1, <2>1, <2>3 DEF Locked
      <4> QED
        BY <1>2, <3>1, <4>1 DEF Presents
    <3>5. ReadWell(thread[u])'
      BY <1>2, <1>5, <2>1, <3>1 DEF Each, ReadWell, OAuth
    <3>6. Overtook(thread[u])'
      <4>1. CASE OAuth
        <5>1. SUFFICES ASSUME thread[u].pc \in {"exchange", "save"}, row' = Null \/ row'.gen # thread[u].rec.gen
                       PROVE  overtaken
          BY <1>2, <3>1 DEF Overtook
        <5>2. row = Null \/ row.gen # thread[u].rec.gen \/ row.gen # g
          <6>1. fresh # Null
            BY <1>4, TokenAssumption DEF Stored, Gens, Left
          <6> QED
            BY <1>4, <1>5, <4>1, <5>1, <6>1
        <5>3. row = Null \/ row.gen # thread[u].rec.gen => overtaken
          BY <2>1, <4>1, <5>1 DEF Each, Overtook
        <5>4. row = Null \/ row.gen # g => overtaken
          BY <1>1, <4>1 DEF Each, Overtook
        <5> QED
          BY <5>2, <5>3, <5>4
      <4>2. CASE ~OAuth
        BY <1>2, <4>2 DEF Overtook, OAuth
      <4> QED
        BY <4>1, <4>2
    <3> QED
      BY <3>2, <3>3, <3>4, <3>5, <3>6 DEF Each
  <2> QED
    BY <2>2, <2>3
<1>8. CASE OAuth
  <2>1. \A h : Saving(h)' => Saving(h)
    BY <1>3 DEF Saving, OnlyT
  <2>2. \A h, n : Known(h, n) => Known(h, n)'
    BY <1>2, <2>1 DEF Known
  <2>3. ASSUME NEW h, NEW n, h = g, n = x.rec.n
        PROVE  Known(h, n)'
    <3>1. h <= last /\ (h \notin lost => n = live[h])
      BY <1>1, <1>8, <2>3 DEF Fresh
    <3>2. h \notin lost => ~Saving(h)'
      BY <1>1, <1>3, <1>8, <2>3 DEF Fresh, Saving, OnlyT
    <3>3. live[h] \in Nat
      BY <1>1, <2>3 DEF TypeOK
    <3> QED
      BY <1>2, <3>1, <3>2, <3>3 DEF Known
  <2>4. row' # Null => Known(row.gen, row.n)'
    <3>1. row' # Null => row'.gen = g /\ row'.n = x.rec.n
      BY <1>4, <1>5, <1>8
    <3> QED
      BY <2>3, <3>1
  <2>5. \A u \in Threads : thread'[u].pc = "exchange" => Known(thread[u].rec.gen, thread[u].rec.n)'
    <3> SUFFICES ASSUME NEW u \in Threads, thread'[u].pc = "exchange"
                 PROVE  Known(thread[u].rec.gen, thread[u].rec.n)'
      OBVIOUS
    <3>1. u # t /\ thread'[u] = thread[u]
      BY <1>3 DEF OnlyT
    <3>2. Known(thread[u].rec.gen, thread[u].rec.n)
      BY <1>1, <1>8, <3>1 DEF Fresh
    <3> QED
      BY <2>2, <3>1, <3>2
  <2>6. \A u \in Threads : thread'[u].pc = "save" => u # t /\ thread'[u] = thread[u]
    BY <1>3 DEF OnlyT
  <2>7. Fresh'
    BY <1>1, <1>2, <1>8, <2>4, <2>5, <2>6 DEF Fresh, OAuth
  <2>8. StoredUsable'
    <3>1. row' # Null => row'.n = live[row'.gen] \/ row'.gen \in lost
      BY <1>1, <1>4, <1>5, <1>8 DEF Fresh
    <3> QED
      BY <1>2, <1>8, <3>1 DEF StoredUsable, OAuth
  <2> QED
    BY <1>6, <1>7, <2>7, <2>8 DEF IInv
<1>9. CASE ~OAuth
  BY <1>1, <1>2, <1>5, <1>6, <1>7, <1>9 DEF IInv, Fresh, StoredUsable, OAuth
<1> QED
  BY <1>8, <1>9

-----------------------------------------------------------------------------
(* What happens to the account or the credential meanwhile *)

\* A change that every thread at work is marked with.
LEMMA NoticedKeeps ==
    ASSUME IInv, thread' = Noticed, UNCHANGED <<flavour, lock>>,
           OAuth => \/ row' = row /\ overtaken' = overtaken
                    \/ (row' = Null \/ row'.gen > last) /\ overtaken' = (overtaken \/ Refreshing)
    PROVE  /\ thread' \in [Threads -> Thread]
           /\ \A u \in Threads : thread'[u].pc = thread[u].pc /\ thread'[u].rec = thread[u].rec
           /\ \A u \in Threads : Each(thread[u])' /\ Locked(u)'
<1>1. thread \in [Threads -> Thread]
  BY DEF IInv, TypeOK
<1>2. ASSUME NEW u \in Threads
      PROVE  /\ thread'[u] \in Thread
             /\ thread'[u].pc = thread[u].pc /\ thread'[u].rec = thread[u].rec
             /\ thread'[u].tok = thread[u].tok /\ thread'[u].force = thread[u].force
             /\ thread[u].pc # "free" => thread'[u].changed
  <2> DEFINE p == IF thread[u].pc # "free" THEN TRUE ELSE FALSE
  <2>1. thread[u] \in Thread /\ p \in BOOLEAN
    BY <1>1
  <2>2. thread'[u] = [thread[u] EXCEPT !.changed = p]
    <3>1. p = (thread[u].pc # "free")
      OBVIOUS
    <3> QED
      BY <3>1 DEF Noticed
  <2>3. thread[u].pc # "free" => p
    OBVIOUS
  <2> HIDE DEF p
  <2> QED
    BY <2>1, <2>2, <2>3 DEF Thread
<1>3. thread' \in [Threads -> Thread]
  BY <1>2 DEF Noticed
<1>4. ASSUME NEW u \in Threads
      PROVE  Each(thread[u])' /\ Locked(u)'
  <2>1. Each(thread[u]) /\ Locked(u)
    BY DEF IInv
  <2>2. Carries(thread[u])' /\ Locked(u)'
    BY <1>2, <2>1 DEF Each, Carries, Locked, OAuth
  <2>3. Forced(thread[u])' /\ ReadWell(thread[u])'
    BY <1>2 DEF Forced, ReadWell
  <2>4. Presents(thread[u])'
    <3> SUFFICES ASSUME flavour = "dbx", thread[u].pc = "exchange", row' # Null, row'.gen = thread[u].rec.gen
                 PROVE  thread[u].rec.n = row'.n
      BY <1>2 DEF Presents
    <3>1. OAuth
      BY DEF OAuth
    <3>2. thread[u].rec.gen <= last /\ thread[u].rec.gen \in Nat /\ last \in Nat
      BY <2>1, <3>1 DEF IInv, Fresh, Known, Each, Carries, Record, TypeOK, Gens
    <3>3. row' = row
      BY <3>1, <3>2
    <3> QED
      BY <2>1, <3>3 DEF Each, Presents
  <2>5. Overtook(thread[u])'
    <3> SUFFICES ASSUME OAuth, thread[u].pc \in {"exchange", "save"}, row' = Null \/ row'.gen # thread[u].rec.gen
                 PROVE  overtaken'
      BY <1>2 DEF Overtook, OAuth
    <3>1. Refreshing
      BY DEF Refreshing
    <3> QED
      BY <2>1, <3>1 DEF Each, Overtook
  <2> QED
    BY <2>2, <2>3, <2>4, <2>5 DEF Each
<1> QED
  BY <1>2, <1>3, <1>4

\* Nobody's refresh token changes at the provider or on its way.
LEMMA SameFresh ==
    ASSUME IInv, UNCHANGED <<flavour, live, lost>>, last' = last \/ last' = last + 1,
           \A u \in Threads : thread'[u].pc = thread[u].pc /\ thread'[u].rec = thread[u].rec,
           OAuth => \/ row' = Null
                    \/ row # Null /\ row'.gen = row.gen /\ row'.n = row.n
                    \/ row'.gen = last + 1 /\ row'.n = 1 /\ last' = last + 1 /\ row'.gen \in Gens
    PROVE  Fresh' /\ (OAuth => StoredUsable')
<1> SUFFICES ASSUME OAuth PROVE Fresh' /\ StoredUsable'
  BY DEF Fresh, OAuth
<1>1. Fresh /\ StoredUsable /\ last \in Nat /\ live \in [Gens -> Nat]
  BY DEF IInv, TypeOK, Gens
<1>2. \A g : Saving(g)' = Saving(g)
  BY DEF Saving
<1>3. \A g \in Nat : \A n : Known(g, n) => Known(g, n)'
  BY <1>1, <1>2 DEF Known
<1>4. \A u \in Threads : thread[u].pc \in {"exchange", "save"} => thread[u].rec.gen \in Nat
  BY DEF IInv, Each, Carries, Record, Gens
<1>5. row # Null => row.gen \in Nat
  BY RowType DEF IInv, Gens
<1>6. ASSUME NEW g \in Gens, g = last + 1, last' = g
      PROVE  Known(g, 1)'
  <2>1. \A u \in Threads : thread[u].pc = "save" => thread[u].rec.gen # g
    BY <1>1, <1>4, <1>6 DEF Fresh
  <2>2. ~Saving(g)'
    BY <2>1 DEF Saving
  <2>3. live[g] = 1
    BY <1>1, <1>6 DEF Fresh
  <2>4. g <= last' /\ live'[g] = 1
    BY <1>1, <1>6, <2>3
  <2>5. live'[g] \in Nat /\ 1 <= live'[g]
    BY <2>4
  <2> QED
    BY <2>2, <2>4, <2>5 DEF Known
<1>7. row' # Null => Known(row.gen, row.n)'
  <2>1. CASE row # Null /\ row'.gen = row.gen /\ row'.n = row.n
    BY <1>1, <1>3, <1>5, <2>1 DEF Fresh
  <2>2. CASE row'.gen = last + 1 /\ row'.n = 1 /\ last' = last + 1 /\ row'.gen \in Gens
    <3>1. \A g \in Gens : g = last + 1 /\ last' = g => Known(g, 1)'
      BY <1>6
    <3> QED
      BY <2>2, <3>1
  <2> QED
    BY <2>1, <2>2
<1>8. ASSUME NEW u \in Threads, thread'[u].pc = "exchange"
      PROVE  Known(thread[u].rec.gen, thread[u].rec.n)'
  <2>1. Known(thread[u].rec.gen, thread[u].rec.n) /\ thread[u].rec.gen \in Nat
    BY <1>1, <1>4, <1>8 DEF Fresh
  <2> QED
    BY <1>3, <2>1
<1>9. \A u \in Threads : thread'[u].pc = "save" =>
         /\ thread'[u].rec.gen <= last'
         /\ thread'[u].rec.gen \notin lost' => thread'[u].rec.n = live'[thread'[u].rec.gen]
  BY <1>1, <1>4 DEF Fresh
<1>10. \A u, v \in Threads :
          (thread'[u].pc = "save" /\ thread'[v].pc = "save" /\ thread'[u].rec.gen = thread'[v].rec.gen
             /\ thread'[u].rec.gen \notin lost') => u = v
  BY <1>1 DEF Fresh
<1>11. \A g \in Gens : g > last' => live'[g] = 1
  BY <1>1 DEF Fresh, Gens
<1>12. Fresh'
  BY <1>7, <1>8, <1>9, <1>10, <1>11 DEF Fresh
<1>13. StoredUsable'
  <2>1. CASE row # Null /\ row'.gen = row.gen /\ row'.n = row.n
    BY <1>1, <2>1 DEF StoredUsable, OAuth
  <2>2. CASE row'.gen = last + 1 /\ row'.n = 1 /\ last' = last + 1 /\ row'.gen \in Gens
    <3>1. live'[row'.gen] = 1
      BY <1>1, <2>2 DEF Fresh
    <3> QED
      BY <2>2, <3>1 DEF StoredUsable, OAuth
  <2>3. CASE row' = Null
    BY <2>3 DEF StoredUsable, OAuth
  <2> QED
    BY <2>1, <2>2, <2>3
<1> QED
  BY <1>12, <1>13

\* Steps that touch neither a row, a thread nor the provider.
LEMMA StillKeeps ==
    ASSUME IInv, TypeOK', UNCHANGED <<flavour, row, secret, lock, thread, last, live, dead, lost, overtaken>>,
           StoredUsable'
    PROVE  IInv'
<1>1. \A u \in Threads : Each(thread[u])' /\ Locked(u)'
  BY DEF IInv, Each, Carries, Presents, ReadWell, Forced, Overtook, Locked, OAuth
<1>2. Fresh'
  BY DEF IInv, Fresh, Known, Saving, OAuth
<1> QED
  BY <1>1, <1>2 DEF IInv

LEMMA AccountKeeps ==
    ASSUME IInv, connect \/ reset_user
    PROVE  IInv'
<1>1. TypeOK /\ OAuth /\ last \in Nat /\ last \in Gens
  BY DEF IInv, TypeOK, Gens, connect, reset_user
<1>2. /\ thread' = Noticed /\ UNCHANGED <<flavour, secret, cache, lock, change, live, dead, faults, lost>>
      /\ overtaken' = (overtaken \/ Refreshing)
  BY DEF connect, reset_user, provider
<1>3. \/ row' = Null /\ last' = last
      \/ /\ row' = [gen |-> last + 1, n |-> 1, left |-> 2] /\ last' = last + 1
         /\ last + 1 \in Gens
  BY <1>1, TokenAssumption DEF connect, reset_user, provider, Gens
<1>4. \/ row' = Null /\ last' = last
      \/ /\ row' \in Stored /\ row'.gen = last + 1 /\ row'.n = 1 /\ last' = last + 1
         /\ last' \in Gens
  BY <1>3 DEF Stored, Left
<1>5. /\ thread' \in [Threads -> Thread]
      /\ \A u \in Threads : thread'[u].pc = thread[u].pc /\ thread'[u].rec = thread[u].rec
      /\ \A u \in Threads : Each(thread[u])' /\ Locked(u)'
  <2>1. row' = Null \/ row'.gen > last
    BY <1>1, <1>4
  <2> QED
    BY <1>2, <2>1, NoticedKeeps
<1>6. TypeOK'
  BY <1>1, <1>2, <1>4, <1>5 DEF TypeOK, OAuth
<1>7. Fresh' /\ StoredUsable'
  <2>1. row' = Null \/ (row'.gen = last + 1 /\ row'.n = 1 /\ last' = last + 1 /\ row'.gen \in Gens)
    BY <1>4
  <2>2. last' = last \/ last' = last + 1
    BY <1>4
  <2> QED
    BY <1>1, <1>2, <1>5, <2>1, <2>2, SameFresh
<1> QED
  BY <1>5, <1>6, <1>7 DEF IInv

LEMMA CredentialKeeps ==
    ASSUME IInv, put_secret \/ save_credential \/ delete_key
    PROVE  IInv'
<1>1. TypeOK /\ ~OAuth /\ StoredUsable /\ last \in Nat /\ row \in Stored
  BY DEF IInv, TypeOK, put_secret, save_credential, delete_key, Gens
<1>2. /\ thread' = Noticed /\ UNCHANGED <<flavour, cache, lock, live, faults, lost, overtaken>>
  BY DEF put_secret, save_credential, delete_key, provider, history
<1>3. /\ thread' \in [Threads -> Thread]
      /\ \A u \in Threads : thread'[u].pc = thread[u].pc /\ thread'[u].rec = thread[u].rec
      /\ \A u \in Threads : Each(thread[u])' /\ Locked(u)'
  BY <1>1, <1>2, NoticedKeeps
<1>4. TypeOK' /\ StoredUsable'
  <2>1. CASE put_secret
    <3>1. last + 1 \in Gens
      BY <1>1, <2>1, TokenAssumption DEF put_secret, TypeOK, Gens
    <3> QED
      BY <1>1, <1>2, <1>3, <2>1, <3>1 DEF put_secret, TypeOK, StoredUsable, OAuth
  <2>2. CASE save_credential
    <3>1. row' \in Stored /\ row'.gen = secret
      BY <1>1, <2>2 DEF save_credential, Stored, TypeOK
    <3> QED
      BY <1>1, <1>2, <1>3, <2>2, <3>1 DEF save_credential, TypeOK, StoredUsable, OAuth, provider
  <2>3. CASE delete_key
    <3>1. 1..last - 1 \in SUBSET Gens
      BY <1>1, TokenAssumption DEF Gens, TypeOK
    <3> QED
      BY <1>1, <1>2, <1>3, <2>3, <3>1 DEF delete_key, TypeOK, StoredUsable, OAuth, history
  <2> QED
    BY <2>1, <2>2, <2>3
<1>5. Fresh'
  BY <1>1, <1>2 DEF Fresh, OAuth
<1> QED
  BY <1>3, <1>4, <1>5 DEF IInv

LEMMA RevokeKeeps ==
    ASSUME IInv, NEW g \in Gens, Revoke(g)
    PROVE  IInv'
<1>1. TypeOK /\ StoredUsable
  BY DEF IInv
<1>2. /\ thread' = Noticed /\ dead' = dead \cup {g}
      /\ UNCHANGED <<flavour, row, secret, cache, lock, change, last, live, faults, lost, broken, overtaken>>
  BY DEF Revoke, history
<1>3. /\ thread' \in [Threads -> Thread]
      /\ \A u \in Threads : thread'[u].pc = thread[u].pc /\ thread'[u].rec = thread[u].rec
      /\ \A u \in Threads : Each(thread[u])' /\ Locked(u)'
  BY <1>2, NoticedKeeps
<1>4. TypeOK'
  BY <1>1, <1>2, <1>3 DEF TypeOK, OAuth
<1>5. Fresh' /\ (OAuth => StoredUsable')
  <2>1. row' = Null \/ (row # Null /\ row'.gen = row.gen /\ row'.n = row.n)
    BY <1>2
  <2> QED
    BY <1>2, <1>3, <2>1, SameFresh
<1>6. ~OAuth => StoredUsable'
  BY <1>1, <1>2 DEF StoredUsable, OAuth
<1> QED
  BY <1>3, <1>4, <1>5, <1>6 DEF IInv

LEMMA ChangeKeeps ==
    ASSUME IInv, invalidate \/ rotate_mint \/ change_fails
    PROVE  IInv'
<1>1. TypeOK /\ ~OAuth /\ StoredUsable /\ row \in Stored
  BY DEF IInv, TypeOK, invalidate, rotate_mint, change_fails
<1>2. UNCHANGED <<flavour, row, secret, lock, thread, last, live, dead, lost, overtaken>>
  BY DEF invalidate, rotate_mint, change_fails, provider, history
<1>3. TypeOK' /\ StoredUsable'
  <2>1. CASE invalidate
    BY <1>1, <1>2, <2>1 DEF invalidate, TypeOK, StoredUsable, OAuth, history
  <2>2. CASE rotate_mint
    <3>1. [gen |-> row.gen, left |-> 2] \in Token
      BY <1>1 DEF Stored, Token, Left
    <3> QED
      BY <1>1, <1>2, <2>2, <3>1 DEF rotate_mint, TypeOK, StoredUsable, OAuth, history
  <2>3. CASE change_fails
    <3>1. TypeOK'
      BY <1>1, <1>2, <2>3 DEF change_fails, TypeOK, OAuth
    <3>2. broken \/ change = "row" => broken'
      BY <2>3 DEF change_fails
    <3>3. row.gen = secret \/ broken'
      BY <1>1, <3>2 DEF StoredUsable
    <3>4. StoredUsable'
      BY <1>1, <1>2, <3>3 DEF StoredUsable, OAuth
    <3> QED
      BY <3>1, <3>4
  <2> QED
    BY <2>1, <2>2, <2>3
<1> QED
  BY <1>2, <1>3, StillKeeps

LEMMA TickKeeps ==
    ASSUME IInv, Tick
    PROVE  IInv'
<1>1. TypeOK /\ StoredUsable
  BY DEF IInv
<1>2. UNCHANGED <<flavour, secret, lock, change, last, live, dead, faults, lost, broken, overtaken>>
  BY DEF Tick, provider, history
<1>3. \A left \in Left : Older(left) \in Left
  BY DEF Older, Left
<1>4. /\ OAuth /\ row # Null => row' \in Stored /\ row'.gen = row.gen /\ row'.n = row.n
      /\ ~(OAuth /\ row # Null) => row' = row
  <2>1. ASSUME OAuth, row # Null
        PROVE  row' \in Stored /\ row'.gen = row.gen /\ row'.n = row.n
    <3>1. row' = [row EXCEPT !.left = Older(row.left)] /\ row \in Stored
      BY <1>1, <2>1 DEF Tick, TypeOK
    <3> QED
      BY <1>3, <3>1 DEF Stored
  <2> QED
    BY <2>1 DEF Tick
<1>5. cache' \in Token \cup {Null}
  <2>1. CASE cache # Null
    <3>1. cache' = [cache EXCEPT !.left = Older(cache.left)] /\ cache \in Token
      BY <1>1, <2>1 DEF Tick, TypeOK
    <3> QED
      BY <1>3, <3>1 DEF Token
  <2> QED
    BY <2>1 DEF Tick
<1>6. ASSUME NEW u \in Threads
      PROVE  /\ thread'[u] \in Thread
             /\ thread'[u].pc = thread[u].pc /\ thread'[u].rec = thread[u].rec
             /\ thread'[u].force = thread[u].force /\ thread'[u].changed = thread[u].changed
             /\ thread[u].tok \in Token => thread'[u].tok \in Token /\ thread'[u].tok.gen = thread[u].tok.gen
  <2>1. thread[u] \in Thread
    BY <1>1 DEF TypeOK
  <2>2. CASE thread[u].tok = Null
    BY <2>1, <2>2 DEF Tick
  <2>3. CASE thread[u].tok # Null
    <3> DEFINE token == [thread[u].tok EXCEPT !.left = Older(thread[u].tok.left)]
    <3>1. thread[u].tok \in Token
      BY <2>1, <2>3 DEF Thread
    <3>2. token \in Token /\ token.gen = thread[u].tok.gen
      BY <1>3, <3>1 DEF Token
    <3>3. thread'[u] = [thread[u] EXCEPT !.tok = token]
      BY <2>3 DEF Tick
    <3> HIDE DEF token
    <3> QED
      BY <2>1, <3>2, <3>3 DEF Thread
  <2> QED
    BY <2>2, <2>3
<1>7. thread' \in [Threads -> Thread]
  BY <1>6 DEF Tick
<1>8. TypeOK'
  BY <1>1, <1>2, <1>4, <1>5, <1>7 DEF TypeOK, OAuth
<1>9. ASSUME NEW u \in Threads
      PROVE  Each(thread[u])' /\ Locked(u)'
  <2>1. Each(thread[u]) /\ Locked(u)
    BY DEF IInv
  <2>2. Carries(thread[u])' /\ Forced(thread[u])' /\ Locked(u)'
    BY <1>2, <1>6, <2>1 DEF Each, Carries, Forced, Locked, OAuth
  <2>3. ReadWell(thread[u])'
    BY <1>2, <1>4, <1>6, <2>1 DEF Each, ReadWell, OAuth
  <2>4. Presents(thread[u])'
    BY <1>2, <1>4, <1>6, <2>1 DEF Each, Presents, OAuth
  <2>5. Overtook(thread[u])'
    <3>1. row # Null => row' # Null
      BY <1>4, TokenAssumption DEF Stored, Gens, Left
    <3>2. OAuth' = OAuth /\ overtaken' = overtaken
      BY <1>2 DEF OAuth
    <3> QED
      BY <1>4, <1>6, <2>1, <3>1, <3>2 DEF Each, Overtook
  <2> QED
    BY <2>2, <2>3, <2>4, <2>5 DEF Each
<1>10. Fresh' /\ (OAuth => StoredUsable')
  <2>1. OAuth => row' = Null \/ (row # Null /\ row'.gen = row.gen /\ row'.n = row.n)
    BY <1>4
  <2> QED
    BY <1>2, <1>6, <2>1, SameFresh
<1>11. ~OAuth => StoredUsable'
  BY <1>1, <1>2, <1>4 DEF StoredUsable, OAuth
<1> QED
  BY <1>8, <1>9, <1>10, <1>11 DEF IInv

-----------------------------------------------------------------------------
(* The theorems *)

LEMMA InitInv == Init => IInv
<1> SUFFICES ASSUME Init PROVE IInv
  OBVIOUS
<1>1. 1 \in Gens
  BY TokenAssumption DEF Gens
<1>2. \A t \in Threads : thread[t] = Free /\ Free.pc = "free" /\ ~Free.force
  BY DEF Init, Free
<1>3. row \in Stored /\ row.gen = 1 /\ row.n = 1 /\ live[1] = 1
  BY <1>1 DEF Init, Stored, Left
<1>4. TypeOK
  BY <1>1, <1>2, <1>3, FreeType DEF Init, TypeOK, OAuth
<1>5. \A t \in Threads : Each(thread[t]) /\ Locked(t)
  BY <1>2 DEF Each, Carries, Presents, ReadWell, Forced, Overtook, Locked
<1>6. Fresh
  BY <1>2, <1>3 DEF Init, Fresh, Known, Saving
<1>7. StoredUsable
  BY <1>3 DEF Init, StoredUsable
<1> QED
  BY <1>4, <1>5, <1>6, <1>7 DEF IInv

LEMMA StepInv == IInv /\ [Next]_vars => IInv'
<1> SUFFICES ASSUME IInv, [Next]_vars PROVE IInv'
  OBVIOUS
<1>1. ASSUME NEW t \in Threads, start(t) \/ ThreadStep(t) \/ exchange_lost(t)
      PROVE  IInv'
  <2>1. CASE exchange(t)
    BY <2>1, ExchangeKeeps
  <2>2. CASE save(t)
    BY <2>2, SaveKeeps
  <2>3. CASE exchange_lost(t)
    BY <2>3, ExchangeLostKeeps
  <2>4. CASE \/ start(t) \/ get_valid_token(t) \/ get_valid_dbx_token(t) \/ NotConnected(t)
             \/ get_cached_token(t) \/ get_secret(t) \/ exchange_refused(t) \/ operation(t)
    BY <2>4, CalmStep, CalmKeeps
  <2> QED
    BY <1>1, <2>1, <2>2, <2>3, <2>4 DEF ThreadStep
<1>2. CASE UNCHANGED vars
  <2>1. TypeOK' /\ StoredUsable'
    BY <1>2 DEF vars, IInv, TypeOK, StoredUsable, OAuth
  <2> QED
    BY <1>2, <2>1, StillKeeps DEF vars
<1> QED
  BY <1>1, <1>2, AccountKeeps, CredentialKeeps, RevokeKeeps, ChangeKeeps, TickKeeps, RestartKeeps DEF Next

\* The invariant holds in every reachable state.
THEOREM TokensHold == Spec => []IInv
<1> QED
  BY InitInv, StepInv, PTL DEF Spec

\* What is stored can be exchanged, whichever service it is and whatever threads,
\* lost answers, connects, resets, rotations and restarts come together.
THEOREM StoredWorks == Spec => []StoredUsable
<1>1. IInv => StoredUsable
  BY DEF IInv
<1> QED
  BY <1>1, TokensHold, PTL

\* A thread that is at work stops only when it is refused, loses an answer, is through
\* with its operation, or the process is restarted.
LEMMA Stops ==
    ASSUME IInv, Next, NEW t \in Threads, thread[t].pc \in {"exchange", "use"}, thread'[t].pc = "free", faults' = faults
    PROVE  exchange_refused(t) \/ operation(t)
<1>1. TypeOK /\ faults \in Nat
  BY DEF IInv, TypeOK
<1>2. ASSUME NEW u \in Threads, u # t, start(u) \/ ThreadStep(u) \/ exchange_lost(u)
      PROVE  thread'[t] = thread[t]
  BY <1>1, <1>2
     DEF TypeOK, start, ThreadStep, get_valid_token, get_valid_dbx_token, NotConnected, get_cached_token, get_secret,
         exchange, exchange_refused, exchange_lost, save, operation, Use, Read, End
<1>3. start(t) \/ get_valid_token(t) \/ get_valid_dbx_token(t) \/ NotConnected(t) \/ get_cached_token(t)
      \/ get_secret(t) \/ save(t) => FALSE
  BY DEF start, get_valid_token, get_valid_dbx_token, NotConnected, get_cached_token, get_secret, save
<1>4. ~exchange_lost(t) /\ ~Restart
  BY <1>1 DEF exchange_lost, Restart
<1>5. exchange(t) => FALSE
  BY <1>1 DEF exchange, TypeOK, Thread
<1>6. connect \/ reset_user \/ put_secret \/ save_credential \/ delete_key \/ (\E g \in Gens : Revoke(g)) => FALSE
  <2>1. thread' = Noticed => thread'[t].pc = thread[t].pc
    BY <1>1 DEF Noticed, TypeOK, Thread
  <2> QED
    BY <2>1 DEF connect, reset_user, put_secret, save_credential, delete_key, Revoke
<1>7. invalidate \/ rotate_mint \/ change_fails => FALSE
  BY DEF invalidate, rotate_mint, change_fails
<1>8. Tick => FALSE
  BY <1>1 DEF Tick, TypeOK, Thread
<1> QED
  BY <1>2, <1>3, <1>4, <1>5, <1>6, <1>7, <1>8 DEF Next, ThreadStep

\* "Authenticate again", SsaAuthError and DbxAuthError are said only when that is so, or
\* when a change of the account or credential fell into the attempt; ACC, which has no
\* lock, also says it to the later of two threads that refresh at the same time.
THEOREM ReauthIsDue == Spec => ReauthMeansDead
<1>1. ASSUME IInv, Next, NEW t \in Threads, Refused(t)
      PROVE  \/ thread[t].rec.gen \in dead \cup lost
             \/ IF OAuth THEN \/ row = Null \/ row.gen # thread[t].rec.gen
                              \/ flavour = "acc" /\ thread[t].rec.n < live[row.gen]
                ELSE thread[t].changed \/ broken \/ change = "row"
  <2> DEFINE x == thread[t]
  <2> DEFINE g == x.rec.gen
  <2>1. x.pc = "exchange" /\ exchange_refused(t)
    <3>1. exchange_refused(t) \/ operation(t)
      BY <1>1, Stops DEF Refused
    <3> QED
      BY <1>1, <3>1 DEF Refused, operation
  <2>2. ~Works(x.rec) /\ x.rec \in Record /\ g \in Gens /\ x.rec.n \in Nat /\ Each(x) /\ Locked(t) /\ TypeOK
    BY <1>1, <2>1 DEF exchange_refused, IInv, Each, Carries, Record
  <2> SUFFICES ASSUME g \notin dead, g \notin lost
               PROVE  IF OAuth THEN \/ row = Null \/ row.gen # g
                                    \/ flavour = "acc" /\ x.rec.n < live[row.gen]
                      ELSE x.changed \/ broken \/ change = "row"
    OBVIOUS
  <2>3. CASE OAuth
    <3> SUFFICES ASSUME row # Null, row.gen = g
                 PROVE  flavour = "acc" /\ x.rec.n < live[g]
      BY <2>3
    <3>1. x.rec.n # live[g] /\ live[g] \in Nat
      BY <2>2, <2>3 DEF Works, TypeOK
    <3>2. x.rec.n <= live[g]
      BY <1>1, <2>1, <2>3 DEF IInv, Fresh, Known
    <3>3. flavour = "acc"
      <4>1. ASSUME flavour = "dbx"
            PROVE  FALSE
        <5>1. x.rec.n = row.n
          BY <2>1, <2>2, <4>1 DEF Each, Presents
        <5>2. PICK u \in Threads : thread[u].pc = "save" /\ thread[u].rec.gen = g
          BY <1>1, <2>3, <3>1, <5>1 DEF IInv, StoredUsable
        <5>3. lock = t /\ lock = u
          BY <1>1, <2>1, <4>1, <5>2 DEF IInv, Locked
        <5> QED
          BY <2>1, <5>2, <5>3
      <4> QED
        BY <2>3, <4>1 DEF OAuth
    <3> QED
      BY <2>2, <3>1, <3>2, <3>3
  <2>4. CASE ~OAuth
    <3> SUFFICES ASSUME ~x.changed, ~broken, change # "row"
                 PROVE  FALSE
      BY <2>4
    <3>1. x.rec.gen = row.gen /\ x.rec.n = secret
      BY <2>1, <2>2, <2>4 DEF Each, ReadWell
    <3>2. row.gen = secret
      BY <1>1, <2>4 DEF IInv, StoredUsable
    <3> QED
      BY <2>2, <2>4, <3>1, <3>2 DEF Works
  <2> QED
    BY <2>3, <2>4
<1>2. IInv /\ [Next]_vars =>
         [\A t \in Threads : Refused(t) =>
            \/ thread[t].rec.gen \in dead \cup lost
            \/ IF OAuth THEN \/ row = Null \/ row.gen # thread[t].rec.gen
                             \/ flavour = "acc" /\ thread[t].rec.n < live[row.gen]
               ELSE thread[t].changed \/ broken \/ change = "row"]_vars
  BY <1>1
<1> QED
  BY <1>2, TokensHold, PTL DEF Spec, ReauthMeansDead

\* One retry is enough: a forced token is refused only when the account or credential
\* changed again during the retry, or the retry outlasted the token.
THEOREM RetriesSuffice == Spec => RetryIsEnough
<1>1. ASSUME IInv, Next, NEW t \in Threads,
             thread[t].pc = "use", thread[t].force, thread'[t].pc = "free", faults' = faults
      PROVE  Accepted(thread[t].tok) \/ thread[t].changed \/ thread[t].tok.left = 0
  <2>1. Each(thread[t])
    BY <1>1 DEF IInv
  <2>2. thread[t].tok \in Token
    BY <1>1, <2>1 DEF Each, Carries
  <2>3. thread[t].changed \/ thread[t].tok.gen \notin dead
    BY <1>1, <2>1 DEF Each, Forced
  <2> QED
    BY <2>2, <2>3 DEF Accepted, Token, Left
<1>2. IInv /\ [Next]_vars =>
         [\A t \in Threads :
            thread[t].pc = "use" /\ thread[t].force /\ thread'[t].pc = "free" /\ faults' = faults =>
               Accepted(thread[t].tok) \/ thread[t].changed \/ thread[t].tok.left = 0]_vars
  BY <1>1
<1> QED
  BY <1>2, TokensHold, PTL DEF Spec, RetryIsEnough

\* A refresh brings back what a reset or a newer connect replaced only when that fell
\* into the refresh; and a row that was deleted comes back for Databricks only.
THEOREM ConnectsWin == Spec => ConnectWins
<1>1. ASSUME IInv, Next, row' # Null, row = Null \/ row'.gen # row.gen, OAuth
      PROVE  last' # last \/ (overtaken /\ (row = Null => flavour = "dbx"))
  <2>1. TypeOK
    BY <1>1 DEF IInv
  <2>2. CASE \E t \in Threads : save(t)
    <3>1. PICK t \in Threads : save(t)
      BY <2>2
    <3>2. thread[t].pc = "save" /\ Each(thread[t])
      BY <1>1, <3>1 DEF IInv, save
    <3>3. row' = Refreshed(t) /\ ~(flavour = "acc" /\ row = Null)
      BY <1>1, <3>1 DEF save
    <3>4. row = Null \/ row.gen # thread[t].rec.gen
      BY <1>1, <3>3 DEF Refreshed
    <3> QED
      BY <1>1, <3>2, <3>3, <3>4 DEF Each, Overtook, OAuth
  <2>3. CASE connect
    BY <2>1, <2>3 DEF connect, TypeOK, Gens
  <2>4. CASE Tick
    <3>1. row # Null => row' = [row EXCEPT !.left = Older(row.left)] /\ row \in Stored
      BY <1>1, <2>1, <2>4 DEF Tick, TypeOK
    <3>2. row = Null => row' = Null
      BY <2>4 DEF Tick
    <3> QED
      BY <1>1, <3>1, <3>2 DEF Stored
  <2>5. CASE reset_user
    BY <1>1, <2>5 DEF reset_user
  <2>6. change = "none"
    BY <1>1, <2>1 DEF TypeOK
  <2>7. ~save_credential
    BY <2>6 DEF save_credential
  <2>8. ASSUME \/ put_secret \/ invalidate \/ rotate_mint \/ delete_key \/ change_fails
               \/ (\E g \in Gens : Revoke(g)) \/ Restart
               \/ \E t \in Threads : start(t) \/ exchange_lost(t) \/ (ThreadStep(t) /\ ~save(t))
        PROVE  row' = row
    BY <2>8 DEF put_secret, invalidate, rotate_mint, delete_key, change_fails, Revoke, Restart, start,
                exchange_lost, ThreadStep, get_valid_token, get_valid_dbx_token, NotConnected, get_cached_token,
                get_secret, exchange, exchange_refused, operation
  <2> QED
    BY <1>1, <2>2, <2>3, <2>4, <2>5, <2>7, <2>8 DEF Next
<1>2. IInv /\ [Next]_vars =>
         [row' # Null /\ (row = Null \/ row'.gen # row.gen) /\ OAuth =>
            last' # last \/ (overtaken /\ (row = Null => flavour = "dbx"))]_vars
  BY <1>1
<1> QED
  BY <1>2, TokensHold, PTL DEF Spec, ConnectWins

=============================================================================
