-------------------------- MODULE CatalogClaimsProofs --------------------------
(***************************************************************************)
(* What a claim guarantees, for any number of users, connections, catalogs *)
(* and threads.                                                            *)
(*                                                                         *)
(* The unique index keeps one active claim of a catalog (OneClaim), and    *)
(* the mark one bootstrap of an owner (Marked).  A thread that provisions  *)
(* got its claim some time ago; nobody but itself or a reset can have      *)
(* taken it away (Authorised).  A sync goes where the last bootstrap was   *)
(* saved, which may be after the request was checked: Asked also holds of  *)
(* what is going to be saved, for which Unsaved is needed.                 *)
(***************************************************************************)
EXTENDS CatalogClaims, SequenceTheorems, TLAPS

TypeOK ==
    /\ claims \in Seq(Claim) /\ Len(claims) <= MaxClaims
    /\ boot \in [Owners -> Bootstrap \cup {Null}]
    /\ status \in [Connections -> {"none", "pending_bootstrap", "ready"}]
    /\ in_flight \subseteq Owners
    /\ thread \in [Threads -> Thread]
    /\ upheavals \in Nat

\* The partial unique index on active claims.
OneClaim ==
    /\ \A i, j \in DOMAIN claims :
          Active(i) /\ Active(j) /\ claims[i].catalog = claims[j].catalog => i = j
    /\ \A i \in DOMAIN claims : claims[i].owner \in Connections => claims[i].catalog = TargetOf[claims[i].owner]

\* A bootstrap, from the request to its end.
Booting == {"look", "write", "validate", "undo", "end"} \cup Provisioning
Inside(x) == x.pc \in Booting /\ ~x.create

\* Steps between the claim and the save.
Saving == {"validate", "provision", "save"}

\* What the steps of a thread are made for.
Shape(x) ==
    /\ x.create => x.owner \in Connections /\ x.pc \in Claiming \cup {"insert"}
    /\ x.pc = "insert" => x.create
    /\ x.pc \in {"validate", "undo", "begin"} => x.owner \in Users
    /\ x.pc \in Booting \cup {"insert"} =>
          x.owner \in Owners /\ x.catalog \in Catalogs /\ (x.owner \in Connections => x.catalog = TargetOf[x.owner])
    /\ x.pc = "sync" => x.owner \in Owners

\* The claim of a thread, whatever has become of it.
Backed(x, cl) ==
    x.pc \in {"validate", "undo"} \cup Provisioning =>
        x.claim \in DOMAIN cl /\ cl[x.claim].owner = x.owner /\ cl[x.claim].catalog = x.catalog

\* Nobody takes a claim away while its bootstrap goes on.
Authorised(x, cl) ==
    /\ x.pc \in {"validate"} \cup Provisioning /\ x.owner \in Users /\ ~x.reset => cl[x.claim].state = "active"
    /\ x.pc \in Provisioning /\ x.owner \in Connections =>
          \E i \in DOMAIN cl : cl[i].state = "active" /\ cl[i].owner = x.owner

\* A reset deletes what the user saved, and a bootstrap that has not saved yet is the only one.
Unsaved(x, bt) ==
    x.reset /\ x.pc \in {"look", "write"} \cup Saving /\ x.owner \in Users => bt[x.owner] = Null

\* The catalog c is nobody else's but by a claim after x asked.
AskedFor(x, cl, c) ==
    \A i \in DOMAIN cl : cl[i].state = "active" /\ cl[i].catalog = c => cl[i].owner = x.owner \/ i > x.claim

Asked(x, cl, bt) ==
    /\ x.pc \in {"begin", "sync"} => x.claim <= Len(cl)
    /\ x.pc = "begin" /\ bt[x.owner] # Null => AskedFor(x, cl, bt[x.owner].catalog)
    /\ x.pc = "sync" => AskedFor(x, cl, x.catalog)

\* The same of what thread y is going to save.
AskedAhead(x, y, cl) ==
    x.pc = "begin" /\ y.pc \in Saving /\ y.owner = x.owner => AskedFor(x, cl, y.catalog)

\* One bootstrap of an owner at a time.
Marked ==
    /\ \A t \in Threads : Inside(thread[t]) => thread[t].owner \in in_flight
    /\ \A s, t \in Threads : Inside(thread[s]) /\ Inside(thread[t]) /\ thread[s].owner = thread[t].owner => s = t

\* What is so of every thread.
Sound(x, cl, bt) == Shape(x) /\ Backed(x, cl) /\ Authorised(x, cl) /\ Unsaved(x, bt) /\ Asked(x, cl, bt)

IInv ==
    /\ TypeOK /\ OneClaim /\ Marked /\ MarkedMeansRunning
    /\ \A t \in Threads : Sound(thread[t], claims, boot)
    /\ \A s, t \in Threads : AskedAhead(thread[s], thread[t], claims)

-----------------------------------------------------------------------------
(* How a step moves what the invariant says *)

\* The claims cl2 come after cl: rows are added, and never activated again.
Later(cl, cl2) ==
    /\ DOMAIN cl \subseteq DOMAIN cl2
    /\ \A i \in DOMAIN cl : cl2[i].owner = cl[i].owner /\ cl2[i].catalog = cl[i].catalog
    /\ \A i \in DOMAIN cl : cl2[i].state = "active" => cl[i].state = "active"
    /\ \A i \in DOMAIN cl2 : i \in DOMAIN cl \/ i > Len(cl)

\* What a bootstrap leans on is still there.
Kept(x, cl2) ==
    /\ x.pc \in {"validate"} \cup Provisioning /\ x.owner \in Users /\ ~x.reset => cl2[x.claim].state = "active"
    /\ x.pc \in Provisioning /\ x.owner \in Connections =>
          \E i \in DOMAIN cl2 : cl2[i].state = "active" /\ cl2[i].owner = x.owner

\* A thread goes from old to new, and the marks from fl to fl2; a mark may be
\* left behind if so says left.
MarkMoves(old, new, fl, fl2, left) ==
    /\ Inside(new) /\ Inside(old) => new.owner = old.owner /\ fl2 = fl
    /\ Inside(new) /\ ~Inside(old) => new.owner \notin fl /\ fl2 = fl \cup {new.owner}
    /\ ~Inside(new) /\ Inside(old) => fl2 = fl \ {old.owner} \/ (left /\ fl2 = fl /\ old.owner \in Users)
    /\ ~Inside(new) /\ ~Inside(old) => fl2 = fl

\* What a thread knows of the claims stays true of later ones.
LEMMA SoundLater ==
    ASSUME NEW cl, NEW cl2, NEW bt, NEW x, Later(cl, cl2), Len(cl) \in Nat, x.claim \in Nat,
           DOMAIN cl = 1..Len(cl), DOMAIN cl2 = 1..Len(cl2), Len(cl2) \in Nat,
           Sound(x, cl, bt), Kept(x, cl2)
    PROVE  Sound(x, cl2, bt)
<1>1. Backed(x, cl2)
  <2> SUFFICES ASSUME x.pc \in {"validate", "undo"} \cup Provisioning
               PROVE  x.claim \in DOMAIN cl2 /\ cl2[x.claim].owner = x.owner /\ cl2[x.claim].catalog = x.catalog
    BY DEF Backed
  <2>1. x.claim \in DOMAIN cl /\ cl[x.claim].owner = x.owner /\ cl[x.claim].catalog = x.catalog
    BY DEF Sound, Backed
  <2> QED
    BY <2>1 DEF Later
<1>2. Authorised(x, cl2)
  BY DEF Authorised, Kept
<1>3. Len(cl) <= Len(cl2)
  <2>1. CASE Len(cl) = 0
    BY <2>1
  <2>2. CASE Len(cl) # 0
    <3>1. Len(cl) \in DOMAIN cl
      BY <2>2
    <3> QED
      BY <3>1 DEF Later
  <2> QED
    BY <2>1, <2>2
<1>4. ASSUME NEW c, x.claim <= Len(cl), AskedFor(x, cl, c)
      PROVE  AskedFor(x, cl2, c)
  BY <1>4 DEF AskedFor, Later
<1>5. Asked(x, cl2, bt)
  BY <1>3, <1>4 DEF Sound, Asked
<1> QED
  BY <1>1, <1>2, <1>5 DEF Sound

LEMMA AheadLater ==
    ASSUME NEW cl, NEW cl2, NEW bt, NEW x, NEW y, Later(cl, cl2), Len(cl) \in Nat, x.claim \in Nat,
           DOMAIN cl = 1..Len(cl), DOMAIN cl2 = 1..Len(cl2), Len(cl2) \in Nat,
           Asked(x, cl, bt), AskedAhead(x, y, cl)
    PROVE  AskedAhead(x, y, cl2)
<1> SUFFICES ASSUME x.pc = "begin", y.pc \in Saving, y.owner = x.owner
             PROVE  AskedFor(x, cl2, y.catalog)
  BY DEF AskedAhead
<1>1. x.claim <= Len(cl)
  BY DEF Asked
<1>2. AskedFor(x, cl, y.catalog)
  BY DEF AskedAhead
<1> QED
  BY <1>1, <1>2 DEF AskedFor, Later

\* The marks move with the thread that moves.
LEMMA MarksHold ==
    ASSUME NEW t \in Threads, NEW x \in Thread, NEW left \in BOOLEAN, TypeOK, Marked, MarkedMeansRunning,
           \A s \in Threads : Shape(thread[s]), Shape(x),
           thread' = [thread EXCEPT ![t] = x],
           MarkMoves(thread[t], x, in_flight, in_flight', left),
           upheavals' \in Nat, upheavals' >= upheavals, left => upheavals' > 0
    PROVE  Marked' /\ MarkedMeansRunning'
<1> USE DEF TypeOK
<1>1. thread'[t] = x /\ \A s \in Threads \ {t} : thread'[s] = thread[s]
  OBVIOUS
<1>2. \A s \in Threads : Inside(thread'[s]) => thread'[s].owner \in in_flight'
  <2> SUFFICES ASSUME NEW s \in Threads, Inside(thread'[s])
               PROVE  thread'[s].owner \in in_flight'
    OBVIOUS
  <2>1. CASE s = t
    BY <1>1, <2>1 DEF Marked, MarkMoves
  <2>2. CASE s # t
    <3>1. Inside(thread[s]) /\ thread[s].owner \in in_flight
      BY <1>1, <2>2 DEF Marked
    <3>2. Inside(thread[t]) => thread[s].owner # thread[t].owner
      BY <3>1, <2>2 DEF Marked
    <3> QED
      BY <1>1, <2>2, <3>1, <3>2 DEF MarkMoves
  <2> QED
    BY <2>1, <2>2
<1>3. \A s, r \in Threads : Inside(thread'[s]) /\ Inside(thread'[r]) /\ thread'[s].owner = thread'[r].owner => s = r
  <2>1. \A s \in Threads \ {t} : Inside(thread[s]) /\ Inside(x) => thread[s].owner # x.owner
    BY DEF Marked, MarkMoves
  <2> QED
    BY <1>1, <2>1 DEF Marked
<1>4. ASSUME NEW y \in Thread, Shape(y)
      PROVE  Inside(y) <=> y.pc \notin {"free", "begin", "sync"} /\ ~y.create
  BY <1>4 DEF Inside, Shape, Thread, Booting, Claiming, Provisioning
<1>5. MarkedMeansRunning'
  <2> SUFFICES ASSUME NEW o \in in_flight', upheavals' > 0 => o \notin Users
               PROVE  \E s \in Threads : /\ thread'[s].owner = o
                                         /\ thread'[s].pc \notin {"free", "begin", "sync"}
                                         /\ ~thread'[s].create
    BY DEF MarkedMeansRunning
  <2>1. CASE Inside(x) /\ x.owner = o
    BY <1>1, <1>4, <2>1
  <2>2. CASE ~(Inside(x) /\ x.owner = o)
    <3>1. o \in in_flight /\ ~(Inside(thread[t]) /\ thread[t].owner = o)
      BY <2>2 DEF MarkMoves
    <3>2. PICK s \in Threads : /\ thread[s].owner = o
                               /\ thread[s].pc \notin {"free", "begin", "sync"}
                               /\ ~thread[s].create
      BY <3>1 DEF MarkedMeansRunning
    <3>3. s # t
      BY <3>1, <3>2, <1>4
    <3> QED
      BY <1>1, <3>2, <3>3
  <2> QED
    BY <2>1, <2>2
<1> QED
  BY <1>2, <1>3, <1>5 DEF Marked

\* Thread t, now x, and the others are sound, each and together.
Fits(t, x, cl, bt) ==
    /\ Sound(x, cl, bt)
    /\ \A s \in Threads \ {t} : Sound(thread[s], cl, bt)
    /\ \A s \in Threads \ {t} : AskedAhead(thread[s], x, cl) /\ AskedAhead(x, thread[s], cl)
    /\ \A r, s \in Threads \ {t} : AskedAhead(thread[r], thread[s], cl)

\* A step of thread t to x, when the others keep what they have.
LEMMA Moves ==
    ASSUME NEW t \in Threads, NEW x \in Thread, NEW left \in BOOLEAN, IInv, TypeOK', OneClaim',
           thread' = [thread EXCEPT ![t] = x],
           MarkMoves(thread[t], x, in_flight, in_flight', left),
           upheavals' >= upheavals, left => upheavals' > 0,
           Fits(t, x, claims', boot')
    PROVE  IInv'
<1>1. thread'[t] = x /\ \A s \in Threads \ {t} : thread'[s] = thread[s]
  BY DEF IInv, TypeOK
<1>2. \A s \in Threads : Shape(thread[s])
  BY DEF IInv, Sound
<1>3. Marked' /\ MarkedMeansRunning'
  <2>1. upheavals' \in Nat
    BY DEF TypeOK
  <2>2. Shape(x)
    BY DEF Fits, Sound
  <2> QED
    BY <1>2, <2>1, <2>2, MarksHold DEF IInv
<1>4. \A s \in Threads : Sound(thread'[s], claims', boot')
  BY <1>1 DEF Fits
<1>5. AskedAhead(x, x, claims')
  BY DEF AskedAhead, Saving
<1>6. \A r, s \in Threads : AskedAhead(thread'[r], thread'[s], claims')
  <2> SUFFICES ASSUME NEW r \in Threads, NEW s \in Threads
               PROVE  AskedAhead(thread'[r], thread'[s], claims')
    OBVIOUS
  <2>1. CASE r = t /\ s = t
    BY <1>1, <1>5, <2>1
  <2>2. CASE r = t /\ s # t
    BY <1>1, <2>2 DEF Fits
  <2>3. CASE r # t /\ s = t
    BY <1>1, <2>3 DEF Fits
  <2>4. CASE r # t /\ s # t
    BY <1>1, <2>4 DEF Fits
  <2> QED
    BY <2>1, <2>2, <2>3, <2>4
<1> QED
  BY <1>3, <1>4, <1>6 DEF IInv

\* What a thread is about to save is its own, by the active claim i.
LEMMA OwnAhead ==
    ASSUME OneClaim, NEW i \in DOMAIN claims, Active(i), NEW x, NEW y,
           claims[i].owner = y.owner, claims[i].catalog = y.catalog
    PROVE  AskedAhead(x, y, claims)
BY DEF AskedAhead, AskedFor, OneClaim, Active

\* A step that leaves the claims and what is saved alone.
LEMMA Advances ==
    ASSUME NEW t \in Threads, NEW x \in Thread, NEW left \in BOOLEAN, IInv,
           claims' = claims, boot' = boot, status' \in [Connections -> {"none", "pending_bootstrap", "ready"}],
           in_flight' \subseteq Owners, upheavals' \in Nat,
           thread' = [thread EXCEPT ![t] = x],
           MarkMoves(thread[t], x, in_flight, in_flight', left),
           upheavals' >= upheavals, left => upheavals' > 0,
           Sound(x, claims, boot),
           \A s \in Threads : AskedAhead(thread[s], x, claims) /\ AskedAhead(x, thread[s], claims)
    PROVE  IInv'
<1>1. TypeOK'
  BY DEF IInv, TypeOK
<1>2. OneClaim'
  BY DEF IInv, OneClaim, Active
<1>3. Fits(t, x, claims, boot)
  BY DEF IInv, Fits
<1>4. Fits(t, x, claims', boot')
  BY <1>3
<1> QED
  BY <1>1, <1>2, <1>4, Moves

\* A thread that ends is sound.
LEMMA FreeThread ==
    /\ Free \in Thread
    /\ ~Inside(Free) /\ Shape(Free)
    /\ Free.pc = "free" /\ Free.owner = Null
    /\ \A cl, bt : Sound(Free, cl, bt)
    /\ \A x, cl : AskedAhead(x, Free, cl) /\ AskedAhead(Free, x, cl)
<1>1. Free \in Thread
  BY DEF Free, Thread
<1>2. ~Inside(Free) /\ Shape(Free)
  BY DEF Free, Inside, Shape, Booting, Provisioning, Claiming
<1>3. Free.pc = "free" /\ Free.owner = Null
  BY DEF Free
<1>4. \A cl, bt : Sound(Free, cl, bt)
  BY <1>2, <1>3 DEF Sound, Backed, Authorised, Unsaved, Asked, Provisioning, Saving
<1>5. \A x, cl : AskedAhead(x, Free, cl) /\ AskedAhead(Free, x, cl)
  BY <1>3 DEF AskedAhead, Saving
<1> QED
  BY <1>1, <1>2, <1>3, <1>4, <1>5

\* A thread may end, unless it leaves a mark.
LEMMA Ends ==
    ASSUME NEW t \in Threads, NEW left \in BOOLEAN, IInv,
           claims' = claims, boot' = boot, status' \in [Connections -> {"none", "pending_bootstrap", "ready"}],
           upheavals' \in Nat, Return(t),
           in_flight' = (IF Inside(thread[t]) /\ ~left THEN in_flight \ {thread[t].owner} ELSE in_flight),
           upheavals' >= upheavals, left => upheavals' > 0 /\ thread[t].owner \in Users
    PROVE  IInv'
<1>1. in_flight' \subseteq Owners
  BY DEF IInv, TypeOK
<1>2. MarkMoves(thread[t], Free, in_flight, in_flight', left)
  BY FreeThread DEF MarkMoves
<1>3. thread' = [thread EXCEPT ![t] = Free]
  BY DEF Return
<1>4. /\ Free \in Thread /\ Sound(Free, claims, boot)
      /\ \A s \in Threads : AskedAhead(thread[s], Free, claims) /\ AskedAhead(Free, thread[s], claims)
  BY FreeThread
<1> QED
  BY <1>1, <1>2, <1>3, <1>4, Advances

-----------------------------------------------------------------------------
(* Requests *)

Pcs == {"free", "validate", "insert", "undo", "end", "begin", "sync"} \cup Claiming \cup Provisioning

\* Moving a thread along.
LEMMA Stepped ==
    ASSUME NEW x \in Thread, NEW pc \in Pcs
    PROVE  /\ [x EXCEPT !.pc = pc] \in Thread
           /\ [x EXCEPT !.pc = pc].pc = pc
           /\ [x EXCEPT !.pc = pc].owner = x.owner
           /\ [x EXCEPT !.pc = pc].catalog = x.catalog
           /\ [x EXCEPT !.pc = pc].claim = x.claim
           /\ [x EXCEPT !.pc = pc].fresh = x.fresh
           /\ [x EXCEPT !.pc = pc].create = x.create
           /\ [x EXCEPT !.pc = pc].reset = x.reset
BY DEF Thread, Pcs

\* A new request.
LEMMA Started ==
    ASSUME NEW pc \in Pcs, NEW o \in Owners, NEW c \in Catalogs \cup {Null}
    PROVE  /\ Start(pc, o, c) \in Thread
           /\ Start(pc, o, c).pc = pc
           /\ Start(pc, o, c).owner = o
           /\ Start(pc, o, c).catalog = c
           /\ Start(pc, o, c).claim = 0
           /\ ~Start(pc, o, c).create
           /\ ~Start(pc, o, c).reset
<1> DEFINE no == FALSE
<1>1. Free = [pc |-> "free", owner |-> Null, catalog |-> Null, claim |-> 0,
              fresh |-> no, create |-> no, reset |-> no]
  BY DEF Free
<1> DEFINE z1 == [pc |-> pc, owner |-> Null, catalog |-> Null, claim |-> 0, fresh |-> no, create |-> no, reset |-> no]
<1> DEFINE z2 == [pc |-> pc, owner |-> o, catalog |-> Null, claim |-> 0, fresh |-> no, create |-> no, reset |-> no]
<1> DEFINE z3 == [pc |-> pc, owner |-> o, catalog |-> c, claim |-> 0, fresh |-> no, create |-> no, reset |-> no]
<1> HIDE DEF no
<1>2. Start(pc, o, c) = z3
  <2>1. [Free EXCEPT !.pc = pc] = z1
    BY <1>1
  <2>2. [z1 EXCEPT !.owner = o] = z2
    OBVIOUS
  <2>3. [z2 EXCEPT !.catalog = c] = z3
    OBVIOUS
  <2>4. Start(pc, o, c) = [[[Free EXCEPT !.pc = pc] EXCEPT !.owner = o] EXCEPT !.catalog = c]
    BY DEF Start
  <2> QED
    BY <2>1, <2>2, <2>3, <2>4
<1> USE DEF no
<1>3. Start(pc, o, c) \in Thread
  BY <1>2 DEF Thread, Pcs
<1> QED
  BY <1>2, <1>3

LEMMA StartsBootstrap ==
    ASSUME NEW t \in Threads, NEW o \in Owners, NEW c \in Catalogs, IInv, o \in Connections => c = TargetOf[o],
           At(t, "free"), o \notin in_flight, in_flight' = in_flight \cup {o},
           thread' = [thread EXCEPT ![t] = Start("look", o, c)],
           UNCHANGED <<claims, boot, status, upheavals>>
    PROVE  IInv'
<1> DEFINE x == Start("look", o, c)
<1>1. /\ x \in Thread /\ x.pc = "look" /\ x.owner = o /\ x.catalog = c
      /\ x.claim = 0 /\ ~x.create /\ ~x.reset
  BY Started DEF Pcs, Claiming
<1> HIDE DEF x
<1>2. Sound(x, claims, boot)
  BY <1>1 DEF Sound, Shape, Backed, Authorised, Unsaved, Asked, Booting, Claiming, Provisioning, Saving
<1>3. MarkMoves(thread[t], x, in_flight, in_flight', FALSE)
  BY <1>1 DEF MarkMoves, Inside, Booting, Provisioning, At
<1>4. \A s \in Threads : AskedAhead(thread[s], x, claims) /\ AskedAhead(x, thread[s], claims)
  BY <1>1 DEF AskedAhead, Saving
<1>5. /\ status' \in [Connections -> {"none", "pending_bootstrap", "ready"}]
      /\ in_flight' \subseteq Owners /\ upheavals' \in Nat /\ upheavals' >= upheavals
  BY DEF IInv, TypeOK
<1>6. thread' = [thread EXCEPT ![t] = x]
  BY DEF x
<1> QED
  BY <1>1, <1>2, <1>3, <1>4, <1>5, <1>6, Advances

\* The marks of a step that is no bootstrap's.
LEMMA Outside ==
    ASSUME NEW t \in Threads, NEW x \in Thread, IInv, ~Inside(thread[t]), ~Inside(x),
           thread' = [thread EXCEPT ![t] = x], UNCHANGED <<claims, boot, in_flight, upheavals>>,
           status' \in [Connections -> {"none", "pending_bootstrap", "ready"}],
           Sound(x, claims, boot),
           \A s \in Threads : AskedAhead(thread[s], x, claims) /\ AskedAhead(x, thread[s], claims)
    PROVE  IInv'
<1>1. MarkMoves(thread[t], x, in_flight, in_flight', FALSE)
  BY DEF MarkMoves
<1>2. in_flight' \subseteq Owners /\ upheavals' \in Nat /\ upheavals' >= upheavals
  BY DEF IInv, TypeOK
<1> QED
  BY <1>1, <1>2, Advances

LEMMA BootstrapStart ==
    ASSUME NEW t \in Threads, NEW u \in Users, NEW c \in Catalogs, IInv, bootstrap_start(t, u, c)
    PROVE  IInv'
<1>1. u \in Owners /\ u \notin Connections
  BY ConstantsAssumption DEF Owners
<1> QED
  BY <1>1, StartsBootstrap DEF bootstrap_start

LEMMA ConnectionBootstrap ==
    ASSUME NEW t \in Threads, NEW k \in Connections, IInv, run_connection_bootstrap(t, k)
    PROVE  IInv'
<1>1. k \in Owners /\ TargetOf[k] \in Catalogs
  BY ConstantsAssumption DEF Owners
<1> QED
  BY <1>1, StartsBootstrap DEF run_connection_bootstrap

LEMMA CreateOrResume ==
    ASSUME NEW t \in Threads, NEW k \in Connections, IInv, create_or_resume(t, k)
    PROVE  IInv'
<1> DEFINE y == Start("look", k, TargetOf[k])
<1> DEFINE x == [y EXCEPT !.create = TRUE]
<1>1. /\ y \in Thread /\ y.pc = "look" /\ y.owner = k /\ y.catalog = TargetOf[k]
      /\ y.claim = 0 /\ ~y.reset
  BY Started, ConstantsAssumption DEF Pcs, Claiming, Owners
<1> HIDE DEF y
<1>2. /\ x \in Thread /\ x.pc = "look" /\ x.owner = k /\ x.catalog = TargetOf[k]
      /\ x.claim = 0 /\ x.create /\ ~x.reset
  BY <1>1 DEF Thread
<1>3. thread' = [thread EXCEPT ![t] = x]
  BY DEF create_or_resume, y
<1> HIDE DEF x
<1>4. TargetOf[k] \in Catalogs /\ k \in Owners
  BY ConstantsAssumption DEF Owners
<1>5. Sound(x, claims, boot)
  BY <1>2, <1>4 DEF Sound, Shape, Backed, Authorised, Unsaved, Asked, Booting, Claiming, Provisioning, Saving
<1>6. ~Inside(thread[t]) /\ ~Inside(x)
  BY <1>2 DEF Inside, Booting, Provisioning, At, create_or_resume
<1>7. \A s \in Threads : AskedAhead(thread[s], x, claims) /\ AskedAhead(x, thread[s], claims)
  BY <1>2 DEF AskedAhead, Saving
<1>8. /\ UNCHANGED <<claims, boot, in_flight, upheavals>>
      /\ status' \in [Connections -> {"none", "pending_bootstrap", "ready"}]
  BY DEF create_or_resume, IInv, TypeOK
<1> QED
  BY <1>2, <1>3, <1>5, <1>6, <1>7, <1>8, Outside

\* A sync that is asked for: what the user saved, and what it is about to save, is the user's own.
LEMMA StartSync ==
    ASSUME NEW t \in Threads, NEW u \in Users, IInv, start_sync(t, u)
    PROVE  IInv'
<1> DEFINE y == Start("begin", u, Null)
<1> DEFINE n == Len(claims)
<1> DEFINE x == [y EXCEPT !.claim = n]
<1>1. y \in Thread /\ y.pc = "begin" /\ y.owner = u /\ ~y.create /\ ~y.reset
  BY Started DEF Pcs, Owners
<1> HIDE DEF y
<1>2. n \in ClaimIds \cup {0}
  BY ConstantsAssumption DEF IInv, TypeOK, ClaimIds
<1>3. x \in Thread /\ x.pc = "begin" /\ x.owner = u /\ x.claim = n /\ ~x.create /\ ~x.reset
  BY <1>1, <1>2 DEF Thread
<1>4. thread' = [thread EXCEPT ![t] = x]
  BY DEF start_sync, y
<1> HIDE DEF x
<1>5. u \in Owners /\ u \notin Connections
  BY ConstantsAssumption DEF Owners
<1>6. boot[u] # Null /\ \A i \in DOMAIN claims : Active(i) /\ claims[i].catalog = boot[u].catalog => claims[i].owner = u
  BY DEF start_sync, MayStart, owns_catalog, get_active_claim
<1>7. Sound(x, claims, boot)
  <2>1. Asked(x, claims, boot)
    BY <1>2, <1>3, <1>6 DEF Asked, AskedFor, Active, ClaimIds
  <2>2. Shape(x) /\ Backed(x, claims) /\ Authorised(x, claims) /\ Unsaved(x, boot)
    BY <1>3, <1>5 DEF Shape, Backed, Authorised, Unsaved, Booting, Claiming, Provisioning, Saving
  <2> QED
    BY <2>1, <2>2 DEF Sound
<1>8. ~Inside(thread[t]) /\ ~Inside(x)
  BY <1>3 DEF Inside, Booting, Provisioning, At, start_sync
<1>9. ASSUME NEW s \in Threads
      PROVE  AskedAhead(thread[s], x, claims) /\ AskedAhead(x, thread[s], claims)
  <2> DEFINE z == thread[s]
  <2>1. AskedAhead(z, x, claims)
    BY <1>3 DEF AskedAhead, Saving
  <2>2. ASSUME z.pc \in Saving, z.owner = u
        PROVE  AskedFor(x, claims, z.catalog)
    <3>1. Sound(z, claims, boot)
      BY DEF IInv
    <3>2. ~z.reset
      BY <1>6, <2>2, <3>1 DEF Sound, Unsaved, Saving
    <3>3. z.claim \in DOMAIN claims /\ claims[z.claim].owner = z.owner /\ claims[z.claim].catalog = z.catalog
      BY <2>2, <3>1 DEF Sound, Backed, Saving, Provisioning
    <3>4. Active(z.claim)
      BY <2>2, <3>1, <3>2 DEF Sound, Authorised, Saving, Provisioning, Active
    <3>5. AskedAhead(x, z, claims)
      BY <3>3, <3>4, OwnAhead DEF IInv
    <3> QED
      BY <1>3, <2>2, <3>5 DEF AskedAhead
  <2> QED
    BY <1>3, <2>1, <2>2 DEF AskedAhead
<1>10. /\ UNCHANGED <<claims, boot, in_flight, upheavals>>
       /\ status' \in [Connections -> {"none", "pending_bootstrap", "ready"}]
  BY DEF start_sync, IInv, TypeOK
<1> QED
  BY <1>3, <1>4, <1>7, <1>8, <1>9, <1>10, Outside

LEMMA BeginsSync ==
    ASSUME NEW t \in Threads, IInv, BeginSync(t)
    PROVE  IInv'
<1> DEFINE z == thread[t]
<1> DEFINE saved == boot[z.owner]
<1> DEFINE y == [z EXCEPT !.pc = "sync"]
<1> DEFINE c == saved.catalog
<1> DEFINE x == [y EXCEPT !.catalog = c]
<1>1. z \in Thread /\ z.pc = "begin" /\ Sound(z, claims, boot)
  BY DEF BeginSync, At, IInv, TypeOK
<1>2. ~Inside(z)
  BY <1>1 DEF Inside, Booting, Provisioning
<1>3. /\ UNCHANGED <<claims, boot, in_flight, upheavals>>
      /\ status' \in [Connections -> {"none", "pending_bootstrap", "ready"}]
  BY DEF BeginSync, IInv, TypeOK
<1>4. CASE saved = Null
  <2>1. thread' = [thread EXCEPT ![t] = Free]
    BY <1>4 DEF BeginSync
  <2> QED
    BY <1>2, <1>3, <2>1, FreeThread, Outside
<1>5. CASE saved # Null
  <2>1. z.owner \in Users /\ z.owner \in Owners
    BY <1>1 DEF Sound, Shape, Owners
  <2>2. c \in Catalogs
    BY <1>5, <2>1 DEF IInv, TypeOK, Bootstrap
  <2>3. /\ y \in Thread /\ y.pc = "sync" /\ y.owner = z.owner /\ y.claim = z.claim
        /\ y.create = z.create /\ y.reset = z.reset
    BY <1>1, Stepped DEF Pcs
  <2>4. thread' = [thread EXCEPT ![t] = x]
    <3>1. [z EXCEPT !.pc = "sync", !.catalog = c] = x
      OBVIOUS
    <3> QED
      BY <1>5, <3>1 DEF BeginSync
  <2> HIDE DEF y
  <2>5. /\ x \in Thread /\ x.pc = "sync" /\ x.owner = z.owner /\ x.catalog = c
        /\ x.claim = z.claim /\ x.create = z.create
    BY <2>2, <2>3 DEF Thread
  <2> HIDE DEF x
  <2>6. ~Inside(x) /\ ~x.create
    BY <1>1, <2>5 DEF Inside, Booting, Provisioning, Sound, Shape, Claiming
  <2>7. AskedFor(x, claims, c) /\ x.claim <= Len(claims)
    BY <1>1, <1>5, <2>5 DEF Sound, Asked, AskedFor
  <2>8. Sound(x, claims, boot)
    BY <2>1, <2>5, <2>6, <2>7
       DEF Sound, Shape, Backed, Authorised, Unsaved, Asked, Booting, Claiming, Provisioning, Saving
  <2>9. \A s \in Threads : AskedAhead(thread[s], x, claims) /\ AskedAhead(x, thread[s], claims)
    BY <2>5 DEF AskedAhead, Saving
  <2> QED
    BY <1>2, <1>3, <2>4, <2>5, <2>6, <2>8, <2>9, Outside
<1> QED
  BY <1>4, <1>5

LEMMA ConnectionSyncs ==
    ASSUME NEW t \in Threads, NEW k \in Connections, IInv, run_connection_sync(t, k)
    PROVE  IInv'
<1> DEFINE x == Start("sync", k, TargetOf[k])
<1>1. k \in Owners /\ k \notin Users /\ TargetOf[k] \in Catalogs
  BY ConstantsAssumption DEF Owners
<1>2. /\ x \in Thread /\ x.pc = "sync" /\ x.owner = k /\ x.claim = 0 /\ ~x.create /\ ~x.reset
  BY <1>1, Started DEF Pcs
<1>3. thread' = [thread EXCEPT ![t] = x]
  BY DEF run_connection_sync
<1> HIDE DEF x
<1>4. claims \in Seq(Claim)
  BY DEF IInv, TypeOK
<1>5. Sound(x, claims, boot)
  <2>1. AskedFor(x, claims, x.catalog) /\ x.claim <= Len(claims)
    BY <1>2, <1>4 DEF AskedFor
  <2> QED
    BY <1>1, <1>2, <2>1
       DEF Sound, Shape, Backed, Authorised, Unsaved, Asked, Booting, Claiming, Provisioning, Saving
<1>6. ~Inside(thread[t]) /\ ~Inside(x)
  BY <1>2 DEF Inside, Booting, Provisioning, At, run_connection_sync
<1>7. \A s \in Threads : AskedAhead(thread[s], x, claims) /\ AskedAhead(x, thread[s], claims)
  BY <1>2 DEF AskedAhead, Saving
<1>8. /\ UNCHANGED <<claims, boot, in_flight, upheavals>>
      /\ status' \in [Connections -> {"none", "pending_bootstrap", "ready"}]
  BY DEF run_connection_sync, IInv, TypeOK
<1> QED
  BY <1>2, <1>3, <1>5, <1>6, <1>7, <1>8, Outside

LEMMA EndsSync ==
    ASSUME NEW t \in Threads, IInv, EndSync(t)
    PROVE  IInv'
<1>1. ~Inside(thread[t])
  BY DEF Inside, Booting, Provisioning, At, EndSync
<1>2. /\ UNCHANGED <<claims, boot, in_flight, upheavals>>
      /\ status' \in [Connections -> {"none", "pending_bootstrap", "ready"}]
      /\ thread' = [thread EXCEPT ![t] = Free]
  BY DEF EndSync, Return, IInv, TypeOK
<1> QED
  BY <1>1, <1>2, FreeThread, Outside

LEMMA InsertsConnection ==
    ASSUME NEW t \in Threads, IInv, InsertConnection(t)
    PROVE  IInv'
<1>1. ~Inside(thread[t]) /\ thread[t].owner \in Connections
  BY DEF Inside, Booting, Provisioning, At, InsertConnection, IInv, Sound, Shape
<1>2. /\ UNCHANGED <<claims, boot, in_flight, upheavals>>
      /\ status' \in [Connections -> {"none", "pending_bootstrap", "ready"}]
      /\ thread' = [thread EXCEPT ![t] = Free]
  BY <1>1 DEF InsertConnection, Return, IInv, TypeOK
<1> QED
  BY <1>1, <1>2, FreeThread, Outside

-----------------------------------------------------------------------------
(* Ends *)

LEMMA ClaimErrs ==
    ASSUME NEW t \in Threads, IInv, ClaimRaises(t)
    PROVE  IInv'
<1> DEFINE left == IF thread[t].owner \in Users THEN TRUE ELSE FALSE
<1>1. Shape(thread[t]) /\ thread[t].pc \in Claiming
  BY DEF ClaimRaises, IInv, Sound
<1>2. thread[t].pc \in Booting
  BY <1>1 DEF Claiming, Booting
<1>3. thread[t].owner \in Owners /\ (thread[t].create => thread[t].owner \in Connections)
  BY <1>1, <1>2 DEF Shape
<1>4. Inside(thread[t]) <=> ~thread[t].create
  BY <1>2 DEF Inside
<1>5. thread[t].owner \in Connections <=> ~left
  BY <1>3, ConstantsAssumption DEF Owners
<1>6. in_flight' = IF Inside(thread[t]) /\ ~left THEN in_flight \ {thread[t].owner} ELSE in_flight
  BY <1>4, <1>5 DEF ClaimRaises
<1>7. /\ claims' = claims /\ boot' = boot /\ status' \in [Connections -> {"none", "pending_bootstrap", "ready"}]
      /\ upheavals' \in Nat /\ Return(t) /\ upheavals' >= upheavals /\ upheavals' > 0
  BY DEF ClaimRaises, IInv, TypeOK
<1>8. left \in BOOLEAN /\ (left => thread[t].owner \in Users)
  OBVIOUS
<1> QED
  BY <1>6, <1>7, <1>8, Ends

LEMMA EndBootstrap ==
    ASSUME NEW t \in Threads, IInv, end_bootstrap(t)
    PROVE  IInv'
<1>1. Inside(thread[t])
  BY DEF end_bootstrap, At, IInv, Sound, Shape, Inside, Booting, Claiming
<1>2. in_flight' = IF Inside(thread[t]) /\ ~FALSE THEN in_flight \ {thread[t].owner} ELSE in_flight
  BY <1>1 DEF end_bootstrap
<1>3. /\ claims' = claims /\ boot' = boot /\ status' \in [Connections -> {"none", "pending_bootstrap", "ready"}]
      /\ upheavals' \in Nat /\ Return(t) /\ upheavals' >= upheavals
  BY DEF end_bootstrap, IInv, TypeOK
<1> QED
  BY <1>2, <1>3, Ends

\* A refused claim.
LEMMA Refused ==
    ASSUME NEW t \in Threads, IInv, thread[t].pc \in Claiming, Locked(t), UNCHANGED <<boot, status, upheavals>>
    PROVE  IInv'
<1>1. Inside(thread[t]) <=> ~thread[t].create
  BY DEF Inside, Booting, Claiming
<1>2. in_flight' = IF Inside(thread[t]) /\ ~FALSE THEN in_flight \ {thread[t].owner} ELSE in_flight
  BY <1>1 DEF Locked
<1>3. /\ claims' = claims /\ boot' = boot /\ status' \in [Connections -> {"none", "pending_bootstrap", "ready"}]
      /\ upheavals' \in Nat /\ Return(t) /\ upheavals' >= upheavals
  BY DEF Locked, IInv, TypeOK
<1> QED
  BY <1>2, <1>3, Ends

-----------------------------------------------------------------------------
(* A bootstrap *)

\* A bootstrap goes on to pc.
LEMMA Walks ==
    ASSUME NEW t \in Threads, NEW pc \in Booting, IInv, thread[t].pc \in Booting, Goto(t, pc),
           pc \in Saving => thread[t].pc \in Saving,
           UNCHANGED <<claims, boot, in_flight, upheavals>>,
           status' \in [Connections -> {"none", "pending_bootstrap", "ready"}],
           Sound([thread[t] EXCEPT !.pc = pc], claims, boot)
    PROVE  IInv'
<1> DEFINE z == thread[t]
<1> DEFINE x == [z EXCEPT !.pc = pc]
<1>1. z \in Thread /\ pc \in Pcs
  BY DEF IInv, TypeOK, Pcs, Booting, Claiming, Provisioning
<1>2. /\ x \in Thread /\ x.pc = pc /\ x.owner = z.owner /\ x.catalog = z.catalog
      /\ x.create = z.create
  BY <1>1, Stepped, ZenonT(20)
<1>3. thread' = [thread EXCEPT ![t] = x]
  BY DEF Goto
<1>4. Sound(x, claims, boot)
  OBVIOUS
<1> HIDE DEF x
<1>5. MarkMoves(z, x, in_flight, in_flight', FALSE)
  BY <1>2 DEF MarkMoves, Inside
<1>6. ASSUME NEW s \in Threads
      PROVE  AskedAhead(thread[s], x, claims) /\ AskedAhead(x, thread[s], claims)
  <2>1. AskedAhead(x, thread[s], claims)
    BY <1>2 DEF AskedAhead, Booting, Provisioning
  <2>2. AskedAhead(thread[s], z, claims)
    BY DEF IInv
  <2>3. AskedAhead(thread[s], x, claims)
    BY <1>2, <2>2 DEF AskedAhead
  <2> QED
    BY <2>1, <2>3
<1>7. in_flight' \subseteq Owners /\ upheavals' \in Nat /\ upheavals' >= upheavals
  BY DEF IInv, TypeOK
<1> QED
  BY <1>2, <1>3, <1>4, <1>5, <1>6, <1>7, Advances

LEMMA RunBootstrap ==
    ASSUME NEW t \in Threads, IInv, run_bootstrap(t)
    PROVE  IInv'
<1> DEFINE z == thread[t]
<1> DEFINE pc == IF Active(z.claim) THEN "provision" ELSE "undo"
<1> DEFINE x == [z EXCEPT !.pc = pc]
<1>1. z \in Thread /\ z.pc = "validate" /\ Sound(z, claims, boot)
  BY DEF run_bootstrap, At, IInv, TypeOK
<1>2. pc \in Booting /\ pc \in Pcs /\ z.pc \in Booting /\ z.pc \in Saving
  BY <1>1 DEF Booting, Provisioning, Pcs, Saving
<1>3. Goto(t, pc)
  BY DEF run_bootstrap
<1>4. /\ x.pc = pc /\ x.owner = z.owner /\ x.catalog = z.catalog /\ x.claim = z.claim
      /\ x.create = z.create /\ x.reset = z.reset
  BY <1>1, <1>2, Stepped, ZenonT(20)
<1> HIDE DEF x
<1>5. z.owner \in Users /\ z.owner \in Owners /\ z.owner \notin Connections /\ z.catalog \in Catalogs /\ ~z.create
  BY <1>1, ConstantsAssumption DEF Sound, Shape, Owners, Booting, Provisioning, Claiming
<1>6. Shape(x)
  BY <1>4, <1>5 DEF Shape
<1>7. Backed(x, claims)
  BY <1>1, <1>4 DEF Sound, Backed
<1>8. Authorised(x, claims)
  BY <1>4, <1>5 DEF Authorised, Active, Provisioning
<1>9. Unsaved(x, boot) /\ Asked(x, claims, boot)
  BY <1>1, <1>4 DEF Sound, Unsaved, Asked, Saving
<1>10. Sound([thread[t] EXCEPT !.pc = pc], claims, boot)
  BY <1>6, <1>7, <1>8, <1>9 DEF Sound, x
<1>11. /\ UNCHANGED <<claims, boot, in_flight, upheavals>>
       /\ status' \in [Connections -> {"none", "pending_bootstrap", "ready"}]
  BY DEF run_bootstrap, IInv, TypeOK
<1> HIDE DEF pc
<1> QED
  BY <1>2, <1>3, <1>10, <1>11, Walks

LEMMA Provisions ==
    ASSUME NEW t \in Threads, IInv, Provision(t)
    PROVE  IInv'
<1> DEFINE z == thread[t]
<1> DEFINE x == [z EXCEPT !.pc = "save"]
<1>1. z \in Thread /\ z.pc = "provision" /\ Sound(z, claims, boot)
  BY DEF Provision, At, IInv, TypeOK
<1>2. "save" \in Booting /\ "save" \in Pcs /\ z.pc \in Booting /\ z.pc \in Saving
  BY <1>1 DEF Booting, Provisioning, Pcs, Saving
<1>3. /\ x.pc = "save" /\ x.owner = z.owner /\ x.catalog = z.catalog /\ x.claim = z.claim
      /\ x.create = z.create /\ x.reset = z.reset
  BY <1>1, <1>2, Stepped, ZenonT(20)
<1> HIDE DEF x
<1>4. Sound(x, claims, boot)
  BY <1>1, <1>3 DEF Sound, Shape, Backed, Authorised, Unsaved, Asked, Booting, Claiming, Provisioning, Saving
<1>5. /\ UNCHANGED <<claims, boot, in_flight, upheavals>> /\ Goto(t, "save")
      /\ status' \in [Connections -> {"none", "pending_bootstrap", "ready"}]
  BY DEF Provision, IInv, TypeOK
<1> QED
  BY <1>2, <1>4, <1>5, Walks DEF x

LEMMA PushesDefaults ==
    ASSUME NEW t \in Threads, IInv, PushDefaults(t)
    PROVE  IInv'
<1> DEFINE z == thread[t]
<1> DEFINE x == [z EXCEPT !.pc = "end"]
<1>1. z \in Thread /\ z.pc = "defaults" /\ Sound(z, claims, boot)
  BY DEF PushDefaults, At, IInv, TypeOK
<1>2. "end" \in Booting /\ "end" \in Pcs /\ z.pc \in Booting
  BY <1>1 DEF Booting, Provisioning, Pcs
<1>3. /\ x.pc = "end" /\ x.owner = z.owner /\ x.catalog = z.catalog /\ x.claim = z.claim
      /\ x.create = z.create /\ x.reset = z.reset
  BY <1>1, <1>2, Stepped, ZenonT(20)
<1> HIDE DEF x
<1>4. Sound(x, claims, boot)
  BY <1>1, <1>3 DEF Sound, Shape, Backed, Authorised, Unsaved, Asked, Booting, Claiming, Provisioning, Saving
<1>5. /\ UNCHANGED <<claims, boot, in_flight, upheavals>> /\ Goto(t, "end")
      /\ status' \in [Connections -> {"none", "pending_bootstrap", "ready"}]
  BY DEF PushDefaults, IInv, TypeOK
<1>6. "end" \in Saving => z.pc \in Saving
  BY DEF Saving
<1> QED
  BY <1>2, <1>4, <1>5, <1>6, Walks DEF x

LEMMA BreaksOff ==
    ASSUME NEW t \in Threads, IInv, BootstrapFails(t)
    PROVE  IInv'
<1> DEFINE z == thread[t]
<1> DEFINE pc == IF z.owner \in Users THEN "undo" ELSE "end"
<1> DEFINE x == [z EXCEPT !.pc = pc]
<1>1. z \in Thread /\ z.pc \in {"validate"} \cup Provisioning /\ Sound(z, claims, boot)
  BY DEF BootstrapFails, IInv, TypeOK
<1>2. pc \in Booting /\ pc \in Pcs /\ z.pc \in Booting
  BY <1>1 DEF Booting, Provisioning, Pcs
<1>3. /\ x.pc = pc /\ x.owner = z.owner /\ x.catalog = z.catalog /\ x.claim = z.claim
      /\ x.create = z.create /\ x.reset = z.reset
  BY <1>1, <1>2, Stepped, ZenonT(20)
<1> HIDE DEF x
<1>4. pc \in {"undo", "end"} /\ (pc = "undo" => z.owner \in Users)
  OBVIOUS
<1>5. Goto(t, pc)
  BY DEF BootstrapFails
<1>6. /\ UNCHANGED <<claims, boot, in_flight, upheavals>>
      /\ status' \in [Connections -> {"none", "pending_bootstrap", "ready"}]
  BY DEF BootstrapFails, IInv, TypeOK
<1> HIDE DEF pc
<1>7. Shape(x)
  BY <1>1, <1>2, <1>3, <1>4 DEF Sound, Shape, Claiming, Provisioning
<1>8. Backed(x, claims)
  BY <1>1, <1>3 DEF Sound, Backed
<1>9. Authorised(x, claims) /\ Unsaved(x, boot) /\ Asked(x, claims, boot)
  BY <1>3, <1>4 DEF Authorised, Unsaved, Asked, Provisioning, Saving
<1>10. Sound([thread[t] EXCEPT !.pc = pc], claims, boot)
  BY <1>7, <1>8, <1>9 DEF Sound, x
<1>11. pc \in Saving => z.pc \in Saving
  BY <1>4 DEF Saving
<1> QED
  BY <1>2, <1>5, <1>6, <1>10, <1>11, Walks

-----------------------------------------------------------------------------
(* The claim *)

\* What claim_catalog leaves in its thread.
LEMMA ClaimedThread ==
    ASSUME NEW t \in Threads, NEW i \in ClaimIds, NEW fresh \in BOOLEAN, TypeOK, Claimed(t, i, fresh)
    PROVE  \E x \in Thread :
              /\ thread' = [thread EXCEPT ![t] = x]
              /\ x.claim = i /\ x.fresh = fresh
              /\ x.owner = thread[t].owner /\ x.catalog = thread[t].catalog
              /\ x.create = thread[t].create /\ x.reset = thread[t].reset
              /\ x.pc \in {"insert", "validate", "provision"}
              /\ x.create => x.pc = "insert"
              /\ ~x.create => (x.pc = "validate" /\ x.owner \in Users) \/ (x.pc = "provision" /\ x.owner \notin Users)
<1> DEFINE z == thread[t]
<1> DEFINE pc == IF z.create THEN "insert" ELSE IF z.owner \in Users THEN "validate" ELSE "provision"
<1> DEFINE a == [z EXCEPT !.claim = i]
<1> DEFINE b == [a EXCEPT !.fresh = fresh]
<1> DEFINE x == [b EXCEPT !.pc = pc]
<1>1. z \in Thread
  BY DEF TypeOK
<1>2. /\ a \in Thread /\ a.claim = i /\ a.owner = z.owner /\ a.catalog = z.catalog
      /\ a.create = z.create /\ a.reset = z.reset
  BY <1>1 DEF Thread
<1>3. thread' = [thread EXCEPT ![t] = x]
  <2>1. thread' = [[[thread EXCEPT ![t].claim = i] EXCEPT ![t].fresh = fresh] EXCEPT ![t].pc = pc]
    BY DEF Claimed
  <2>2. [thread EXCEPT ![t].claim = i] = [thread EXCEPT ![t] = a]
    OBVIOUS
  <2> HIDE DEF a
  <2>3. [[thread EXCEPT ![t] = a] EXCEPT ![t].fresh = fresh] = [thread EXCEPT ![t] = b]
    BY DEF TypeOK
  <2> HIDE DEF b, pc
  <2>4. [[thread EXCEPT ![t] = b] EXCEPT ![t].pc = pc] = [thread EXCEPT ![t] = x]
    BY DEF TypeOK
  <2> QED
    BY <2>1, <2>2, <2>3, <2>4
<1> HIDE DEF a
<1>4. /\ b \in Thread /\ b.claim = i /\ b.fresh = fresh /\ b.owner = z.owner /\ b.catalog = z.catalog
      /\ b.create = z.create /\ b.reset = z.reset
  BY <1>2 DEF Thread
<1> HIDE DEF b
<1>5. pc \in Pcs /\ pc \in {"insert", "validate", "provision"}
  BY DEF Pcs, Provisioning
<1>6. /\ x \in Thread /\ x.pc = pc /\ x.claim = b.claim /\ x.fresh = b.fresh /\ x.owner = b.owner
      /\ x.catalog = b.catalog /\ x.create = b.create /\ x.reset = b.reset
  BY <1>4, <1>5, Stepped, ZenonT(20)
<1> HIDE DEF x
<1>7. /\ z.create => pc = "insert"
      /\ ~z.create => (pc = "validate" /\ z.owner \in Users) \/ (pc = "provision" /\ z.owner \notin Users)
  OBVIOUS
<1> HIDE DEF pc
<1> QED
  BY <1>3, <1>4, <1>5, <1>6, <1>7

\* The others, when claims have been added or released.
LEMMA OthersKeep ==
    ASSUME NEW t \in Threads, IInv, TypeOK', Later(claims, claims'),
           \A s \in Threads \ {t} : Kept(thread[s], claims')
    PROVE  /\ \A s \in Threads \ {t} : Sound(thread[s], claims', boot)
           /\ \A r, s \in Threads : AskedAhead(thread[r], thread[s], claims')
<1>1. /\ Len(claims) \in Nat /\ DOMAIN claims = 1..Len(claims)
      /\ Len(claims') \in Nat /\ DOMAIN claims' = 1..Len(claims')
  BY DEF IInv, TypeOK
<1>2. \A s \in Threads : thread[s].claim \in Nat
  BY ConstantsAssumption DEF IInv, TypeOK, Thread, ClaimIds
<1>3. ASSUME NEW s \in Threads \ {t}
      PROVE  Sound(thread[s], claims', boot)
  <2>1. Sound(thread[s], claims, boot)
    BY DEF IInv
  <2> QED
    BY <1>1, <1>2, <2>1, SoundLater
<1>4. ASSUME NEW r \in Threads, NEW s \in Threads
      PROVE  AskedAhead(thread[r], thread[s], claims')
  <2>1. Asked(thread[r], claims, boot) /\ AskedAhead(thread[r], thread[s], claims)
    BY DEF IInv, Sound
  <2> QED
    BY <1>1, <1>2, <2>1, AheadLater
<1> QED
  BY <1>3, <1>4

\* claim_catalog returns the active claim i.
LEMMA GetsClaim ==
    ASSUME NEW t \in Threads, NEW i \in ClaimIds, NEW fresh \in BOOLEAN, IInv, TypeOK', OneClaim',
           thread[t].pc \in Claiming, Claimed(t, i, fresh), UNCHANGED <<boot, status, in_flight, upheavals>>,
           Later(claims, claims'), \A s \in Threads \ {t} : Kept(thread[s], claims'),
           i \in DOMAIN claims', claims'[i].state = "active",
           claims'[i].owner = thread[t].owner, claims'[i].catalog = thread[t].catalog
    PROVE  IInv'
<1> DEFINE z == thread[t]
<1>1. PICK x \in Thread :
         /\ thread' = [thread EXCEPT ![t] = x]
         /\ x.claim = i /\ x.fresh = fresh
         /\ x.owner = z.owner /\ x.catalog = z.catalog
         /\ x.create = z.create /\ x.reset = z.reset
         /\ x.pc \in {"insert", "validate", "provision"}
         /\ x.create => x.pc = "insert"
         /\ ~x.create => (x.pc = "validate" /\ x.owner \in Users) \/ (x.pc = "provision" /\ x.owner \notin Users)
  BY ClaimedThread DEF IInv
<1>2. Sound(z, claims, boot) /\ z.pc \in {"look", "write"} /\ z.pc \in Booting
  BY DEF IInv, Claiming, Booting
<1>3. Sound(x, claims', boot')
  <2>1. Shape(x)
    BY <1>1, <1>2 DEF Sound, Shape, Booting, Provisioning, Claiming
  <2>2. Backed(x, claims')
    BY <1>1 DEF Backed
  <2>3. Authorised(x, claims')
    BY <1>1 DEF Authorised
  <2>4. Unsaved(x, boot')
    BY <1>1, <1>2 DEF Sound, Unsaved
  <2>5. Asked(x, claims', boot')
    BY <1>1 DEF Asked
  <2> QED
    BY <2>1, <2>2, <2>3, <2>4, <2>5 DEF Sound
<1>4. MarkMoves(z, x, in_flight, in_flight', FALSE)
  <2>1. Inside(x) <=> Inside(z)
    BY <1>1, <1>2 DEF Inside, Booting, Provisioning
  <2> QED
    BY <1>1, <2>1 DEF MarkMoves
<1>5. /\ \A s \in Threads \ {t} : Sound(thread[s], claims', boot')
      /\ \A r, s \in Threads : AskedAhead(thread[r], thread[s], claims')
  BY OthersKeep
<1>6. ASSUME NEW s \in Threads
      PROVE  AskedAhead(thread[s], x, claims') /\ AskedAhead(x, thread[s], claims')
  <2>1. AskedAhead(x, thread[s], claims')
    BY <1>1 DEF AskedAhead
  <2>2. \A j \in DOMAIN claims' : claims'[j].state = "active" /\ claims'[j].catalog = x.catalog => j = i
    BY <1>1 DEF OneClaim, Active
  <2>3. AskedAhead(thread[s], x, claims')
    BY <1>1, <2>2 DEF AskedAhead, AskedFor
  <2> QED
    BY <2>1, <2>3
<1>7. upheavals' >= upheavals
  BY DEF IInv, TypeOK
<1>8. Fits(t, x, claims', boot')
  BY <1>3, <1>5, <1>6 DEF Fits
<1> QED
  BY <1>1, <1>4, <1>5, <1>7, <1>8, Moves

\* What releases do to a sequence of claims.
LEMMA ReleasedRows ==
    ASSUME NEW s \in Seq(Claim), NEW ids, NEW r, r = Released(s, ids)
    PROVE  /\ r \in Seq(Claim) /\ Len(r) = Len(s) /\ DOMAIN r = DOMAIN s
           /\ \A i \in DOMAIN s :
                 /\ r[i].owner = s[i].owner /\ r[i].catalog = s[i].catalog
                 /\ r[i].provisioned = s[i].provisioned
                 /\ r[i].state = "active" <=> s[i].state = "active" /\ i \notin ids
<1>1. DOMAIN r = 1..Len(s)
  BY DEF Released
<1>2. ASSUME NEW i \in 1..Len(s)
      PROVE  /\ r[i] \in Claim
             /\ r[i].owner = s[i].owner /\ r[i].catalog = s[i].catalog
             /\ r[i].provisioned = s[i].provisioned
             /\ r[i].state = "active" <=> s[i].state = "active" /\ i \notin ids
  <2>1. s[i] \in Claim
    OBVIOUS
  <2>2. r[i] = IF i \in ids THEN [s[i] EXCEPT !.state = "released"] ELSE s[i]
    BY DEF Released
  <2>3. /\ [s[i] EXCEPT !.state = "released"] \in Claim
        /\ [s[i] EXCEPT !.state = "released"].owner = s[i].owner
        /\ [s[i] EXCEPT !.state = "released"].catalog = s[i].catalog
        /\ [s[i] EXCEPT !.state = "released"].provisioned = s[i].provisioned
        /\ [s[i] EXCEPT !.state = "released"].state = "released"
    BY <2>1 DEF Claim
  <2>4. CASE i \in ids
    BY <2>2, <2>3, <2>4
  <2>5. CASE i \notin ids
    BY <2>1, <2>2, <2>5
  <2> QED
    BY <2>4, <2>5
<1>3. r \in [1..Len(s) -> Claim]
  <2>1. r = [i \in 1..Len(s) |-> r[i]]
    BY DEF Released
  <2> QED
    BY <1>2, <2>1
<1>4. r \in Seq(Claim) /\ Len(r) = Len(s)
  BY <1>3
<1> QED
  BY <1>1, <1>2, <1>4

\* A thread relies on no claim that goes away.
LEMMA KeepsClaim ==
    ASSUME NEW s \in Threads, IInv, NEW cl2,
           /\ thread[s].pc \in {"validate"} \cup Provisioning /\ thread[s].owner \in Users /\ Active(thread[s].claim)
                 => cl2[thread[s].claim].state = "active",
           /\ thread[s].pc \in Provisioning /\ thread[s].owner \in Connections /\ ClaimsOf(thread[s].owner) # {}
                 => \E i \in DOMAIN cl2 : cl2[i].state = "active" /\ cl2[i].owner = thread[s].owner
    PROVE  Kept(thread[s], cl2)
<1>1. Authorised(thread[s], claims)
  BY DEF IInv, Sound
<1> QED
  BY <1>1 DEF Authorised, Kept, Active, ClaimsOf

LEMMA Lookup ==
    ASSUME NEW t \in Threads, IInv, claim_lookup(t)
    PROVE  IInv'
<1> DEFINE z == thread[t]
<1>1. z \in Thread /\ z.pc = "look" /\ z.pc \in Claiming /\ Sound(z, claims, boot)
  BY DEF claim_lookup, At, IInv, TypeOK, Claiming
<1>2. UNCHANGED <<boot, status, upheavals>>
  BY DEF claim_lookup
<1>3. CASE Goto(t, "write") /\ UNCHANGED <<claims, in_flight>>
  <2> DEFINE x == [z EXCEPT !.pc = "write"]
  <2>1. "write" \in Booting /\ "write" \in Pcs /\ z.pc \in Booting /\ "write" \notin Saving
    BY <1>1 DEF Booting, Pcs, Claiming, Saving
  <2>2. /\ x.pc = "write" /\ x.owner = z.owner /\ x.catalog = z.catalog /\ x.claim = z.claim
        /\ x.create = z.create /\ x.reset = z.reset
    BY <1>1, <2>1, Stepped, ZenonT(20)
  <2> HIDE DEF x
  <2>3. Sound(x, claims, boot)
    BY <1>1, <2>2
       DEF Sound, Shape, Backed, Authorised, Unsaved, Asked, Booting, Claiming, Provisioning, Saving
  <2>4. status' \in [Connections -> {"none", "pending_bootstrap", "ready"}]
    BY <1>2 DEF IInv, TypeOK
  <2> QED
    BY <1>2, <1>3, <2>1, <2>3, <2>4, Walks DEF x
<1>4. ASSUME NEW i \in get_active_claim(z.catalog), claims[i].owner = z.owner,
             Claimed(t, i, ~claims[i].provisioned), UNCHANGED <<claims, in_flight>>
      PROVE  IInv'
  <2>1. i \in DOMAIN claims /\ claims[i].state = "active" /\ claims[i].catalog = z.catalog
    BY DEF get_active_claim, Active
  <2>2. i \in ClaimIds
    BY <2>1, ConstantsAssumption DEF IInv, TypeOK, ClaimIds
  <2>3. claims[i].provisioned \in BOOLEAN
    <3>1. claims[i] \in Claim
      BY <2>1 DEF IInv, TypeOK
    <3> QED
      BY <3>1 DEF Claim
  <2>4. PICK fresh \in BOOLEAN : Claimed(t, i, fresh)
    BY <1>4, <2>3
  <2>5. UNCHANGED <<boot, status, in_flight, upheavals>>
    BY <1>2, <1>4
  <2>6. TypeOK'
    <3>1. thread' \in [Threads -> Thread]
      BY <2>2, <2>4, ClaimedThread DEF IInv, TypeOK
    <3> QED
      BY <1>4, <2>5, <3>1 DEF IInv, TypeOK
  <2>7. OneClaim'
    BY <1>4 DEF IInv, OneClaim, Active
  <2>8. Later(claims, claims')
    BY <1>4 DEF Later
  <2>9. ASSUME NEW s \in Threads \ {t}
        PROVE  Kept(thread[s], claims')
    <3>1. Kept(thread[s], claims)
      BY DEF IInv, Sound, Authorised, Kept
    <3> QED
      BY <1>4, <3>1
  <2> QED
    BY <1>1, <1>4, <2>1, <2>2, <2>4, <2>5, <2>6, <2>7, <2>8, <2>9, GetsClaim
<1>5. CASE Locked(t)
  BY <1>1, <1>2, <1>5, Refused
<1> QED
  BY <1>3, <1>4, <1>5 DEF claim_lookup

\* Two bootstraps are not of one user.
LEMMA OneOfUser ==
    ASSUME NEW s \in Threads, NEW t \in Threads, IInv, s # t,
           thread[s].pc \in Booting, thread[t].pc \in Booting, thread[s].owner \in Users
    PROVE  thread[t].owner # thread[s].owner
<1>1. ASSUME NEW r \in Threads, thread[r].pc \in Booting, thread[r].owner \in Users
      PROVE  Inside(thread[r])
  <2>1. Shape(thread[r])
    BY DEF IInv, Sound
  <2> QED
    BY <1>1, <2>1, ConstantsAssumption DEF Inside, Shape
<1> QED
  BY <1>1 DEF IInv, Marked

\* The rows after claim_catalog has released the owner's and inserted its own.
LEMMA WrittenRows ==
    ASSUME IInv, NEW o \in Owners, NEW c \in Catalogs, owns_catalog(c, o), Len(claims) < MaxClaims,
           o \in Connections => c = TargetOf[o],
           claims' = Append(Released(claims, ClaimsOf(o)),
                            [catalog |-> c, owner |-> o, state |-> "active", provisioned |-> FALSE])
    PROVE  /\ claims' \in Seq(Claim) /\ Len(claims') = Len(claims) + 1 /\ Len(claims') <= MaxClaims
           /\ Later(claims, claims') /\ OneClaim'
           /\ Len(claims') \in ClaimIds /\ Len(claims') \in DOMAIN claims'
           /\ claims'[Len(claims')].state = "active" /\ claims'[Len(claims')].owner = o
           /\ claims'[Len(claims')].catalog = c
           /\ \A i \in DOMAIN claims :
                 i \in DOMAIN claims' /\ (claims'[i].state = "active" <=> Active(i) /\ claims[i].owner # o)
<1> DEFINE r == Released(claims, ClaimsOf(o))
<1> DEFINE row == [catalog |-> c, owner |-> o, state |-> "active", provisioned |-> FALSE]
<1> DEFINE n == Len(claims) + 1
<1>1. claims \in Seq(Claim) /\ Len(claims) \in Nat /\ DOMAIN claims = 1..Len(claims)
  BY DEF IInv, TypeOK
<1>2. /\ r \in Seq(Claim) /\ Len(r) = Len(claims) /\ DOMAIN r = DOMAIN claims
      /\ \A i \in DOMAIN claims :
            /\ r[i].owner = claims[i].owner /\ r[i].catalog = claims[i].catalog
            /\ r[i].state = "active" <=> claims[i].state = "active" /\ i \notin ClaimsOf(o)
  BY <1>1, ReleasedRows
<1>3. claims' = Append(r, row)
  OBVIOUS
<1> HIDE DEF r
<1>4. row \in Claim /\ row.state = "active" /\ row.owner = o /\ row.catalog = c
  BY DEF Claim
<1> HIDE DEF row
<1>5. /\ claims' \in Seq(Claim) /\ Len(claims') = n /\ DOMAIN claims' = 1..n
      /\ claims'[n] = row /\ \A i \in 1..Len(claims) : claims'[i] = r[i]
  <2>1. r \in Seq(Claim) /\ row \in Claim
    BY <1>2, <1>4
  <2>2. /\ Append(r, row) \in Seq(Claim) /\ Len(Append(r, row)) = Len(r) + 1
        /\ \A i \in 1..Len(r) : Append(r, row)[i] = r[i]
        /\ Append(r, row)[Len(r) + 1] = row
    BY <2>1, AppendProperties
  <2>3. DOMAIN Append(r, row) = 1..(Len(r) + 1)
    BY <2>2
  <2> QED
    BY <1>2, <1>3, <2>2, <2>3
<1>6. \A i \in DOMAIN claims : claims'[i].state = "active" <=> Active(i) /\ claims[i].owner # o
  BY <1>1, <1>2, <1>5 DEF ClaimsOf, Active
<1>7. Later(claims, claims')
  BY <1>1, <1>2, <1>5 DEF Later
<1>8. OneClaim'
  <2>1. \A i \in DOMAIN claims' : i = n \/ i \in DOMAIN claims
    BY <1>1, <1>5
  <2>2. \A i, j \in DOMAIN claims' :
           claims'[i].state = "active" /\ claims'[j].state = "active" /\ claims'[i].catalog = claims'[j].catalog => i = j
    <3> SUFFICES ASSUME NEW i \in DOMAIN claims', NEW j \in DOMAIN claims', claims'[i].state = "active",
                        claims'[j].state = "active", claims'[i].catalog = claims'[j].catalog
                 PROVE  i = j
      OBVIOUS
    <3>1. \A k \in DOMAIN claims : claims'[k].state = "active" => claims'[k].catalog # c
      BY <1>1, <1>6, <1>7 DEF owns_catalog, get_active_claim, Later
    <3>2. CASE i = n /\ j = n
      BY <3>2
    <3>3. CASE i = n /\ j \in DOMAIN claims
      BY <1>4, <1>5, <3>1, <3>3
    <3>4. CASE i \in DOMAIN claims /\ j = n
      BY <1>4, <1>5, <3>1, <3>4
    <3>5. CASE i \in DOMAIN claims /\ j \in DOMAIN claims
      BY <1>6, <1>7, <3>5 DEF IInv, OneClaim, Later
    <3> QED
      BY <2>1, <3>2, <3>3, <3>4, <3>5
  <2>3. ASSUME NEW i \in DOMAIN claims', claims'[i].owner \in Connections
        PROVE  claims'[i].catalog = TargetOf[claims'[i].owner]
    <3>1. CASE i = n
      BY <1>4, <1>5, <2>3, <3>1
    <3>2. CASE i \in DOMAIN claims
      BY <1>7, <2>3, <3>2 DEF IInv, OneClaim, Later
    <3> QED
      BY <2>1, <3>1, <3>2
  <2> QED
    BY <2>2, <2>3 DEF OneClaim, Active
<1>9. n \in ClaimIds /\ n <= MaxClaims
  BY <1>1, ConstantsAssumption DEF ClaimIds
<1>10. n \in DOMAIN claims' /\ \A i \in DOMAIN claims : i \in DOMAIN claims'
  BY <1>1, <1>5
<1>11. Len(claims') = n
  BY <1>5
<1> HIDE DEF n
<1>12. /\ Len(claims') <= MaxClaims /\ Len(claims') \in ClaimIds /\ Len(claims') \in DOMAIN claims'
       /\ claims'[Len(claims')].state = "active" /\ claims'[Len(claims')].owner = o
       /\ claims'[Len(claims')].catalog = c
  BY <1>4, <1>5, <1>9, <1>10, <1>11
<1>13. claims' \in Seq(Claim) /\ Len(claims') = Len(claims) + 1
  BY <1>5 DEF n
<1> QED
  BY <1>6, <1>7, <1>8, <1>10, <1>12, <1>13

LEMMA WritesClaim ==
    ASSUME NEW t \in Threads, IInv, claim_write(t)
    PROVE  IInv'
<1> DEFINE z == thread[t]
<1> DEFINE o == z.owner
<1> DEFINE c == z.catalog
<1>1. /\ z.pc = "write" /\ z.pc \in Claiming /\ z.pc \in Booting /\ Sound(z, claims, boot)
      /\ UNCHANGED <<boot, status, upheavals>>
  BY DEF claim_write, At, IInv, TypeOK, Claiming, Booting
<1>2. CASE ~owns_catalog(c, o)
  BY <1>1, <1>2, Refused DEF claim_write
<1>3. CASE owns_catalog(c, o)
  <2>1. o \in Owners /\ c \in Catalogs /\ (o \in Connections => c = TargetOf[o])
    BY <1>1 DEF Sound, Shape
  <2>2. /\ Len(claims) < MaxClaims
        /\ claims' = Append(Released(claims, ClaimsOf(o)),
                            [catalog |-> c, owner |-> o, state |-> "active", provisioned |-> FALSE])
        /\ Claimed(t, Len(claims) + 1, TRUE) /\ UNCHANGED in_flight
    BY <1>3 DEF claim_write
  <2> DEFINE n == Len(claims')
  <2>3. /\ claims' \in Seq(Claim) /\ n = Len(claims) + 1 /\ n <= MaxClaims
        /\ Later(claims, claims') /\ OneClaim'
        /\ n \in ClaimIds /\ n \in DOMAIN claims'
        /\ claims'[n].state = "active" /\ claims'[n].owner = o
        /\ claims'[n].catalog = c
        /\ \A i \in DOMAIN claims :
              i \in DOMAIN claims' /\ (claims'[i].state = "active" <=> Active(i) /\ claims[i].owner # o)
    BY <1>3, <2>1, <2>2, WrittenRows
  <2>4. Claimed(t, n, TRUE)
    BY <2>2, <2>3
  <2> HIDE DEF n
  <2>5. TypeOK'
    <3>1. PICK x \in Thread : thread' = [thread EXCEPT ![t] = x]
      <4>1. TypeOK /\ n \in ClaimIds /\ TRUE \in BOOLEAN
        BY <2>3 DEF IInv
      <4>2. \E x \in Thread : thread' = [thread EXCEPT ![t] = x] /\ x.claim = n
        BY <2>4, <4>1, ClaimedThread, ZenonT(20)
      <4> QED
        BY <4>2
    <3>2. thread' \in [Threads -> Thread]
      BY <3>1 DEF IInv, TypeOK
    <3> QED
      BY <1>1, <2>2, <2>3, <3>2 DEF IInv, TypeOK, n
  <2>6. ASSUME NEW s \in Threads \ {t}
        PROVE  Kept(thread[s], claims')
    <3> DEFINE y == thread[s]
    <3>1. ASSUME y.pc \in {"validate"} \cup Provisioning, y.owner \in Users, Active(y.claim)
          PROVE  claims'[y.claim].state = "active"
      <4>1. y.claim \in DOMAIN claims /\ claims[y.claim].owner = y.owner
        BY <3>1 DEF IInv, Sound, Backed
      <4>2. y.owner # o
        <5>1. y.pc \in Booting
          BY <3>1 DEF Booting
        <5> QED
          BY <1>1, <3>1, <5>1, OneOfUser
      <4> QED
        BY <2>3, <3>1, <4>1, <4>2
    <3>2. ASSUME y.owner \in Connections, ClaimsOf(y.owner) # {}
          PROVE  \E i \in DOMAIN claims' : claims'[i].state = "active" /\ claims'[i].owner = y.owner
      <4>1. CASE y.owner = o
        BY <2>3, <4>1
      <4>2. CASE y.owner # o
        <5>1. PICK i \in DOMAIN claims : Active(i) /\ claims[i].owner = y.owner
          BY <3>2 DEF ClaimsOf
        <5>2. claims'[i].owner = y.owner
          BY <2>3, <5>1 DEF Later
        <5> QED
          BY <2>3, <4>2, <5>1, <5>2
      <4> QED
        BY <4>1, <4>2
    <3> QED
      BY <3>1, <3>2, KeepsClaim
  <2> QED
    BY <1>1, <2>2, <2>3, <2>4, <2>5, <2>6, GetsClaim
<1> QED
  BY <1>2, <1>3

-----------------------------------------------------------------------------
(* Saving, recording, giving up *)

\* A bootstrap goes on to pc, which is no step before the save, while claims change.
LEMMA WalksOver ==
    ASSUME NEW t \in Threads, NEW pc \in Booting, IInv, TypeOK', OneClaim', Inside(thread[t]), Goto(t, pc),
           pc \notin Saving, UNCHANGED <<in_flight, upheavals>>,
           Sound([thread[t] EXCEPT !.pc = pc], claims', boot'),
           \A s \in Threads \ {t} : Sound(thread[s], claims', boot'),
           \A r, s \in Threads \ {t} : AskedAhead(thread[r], thread[s], claims')
    PROVE  IInv'
<1> DEFINE z == thread[t]
<1> DEFINE x == [z EXCEPT !.pc = pc]
<1>1. z \in Thread /\ pc \in Pcs
  BY DEF IInv, TypeOK, Pcs, Booting, Claiming, Provisioning
<1>2. /\ x \in Thread /\ x.pc = pc /\ x.owner = z.owner /\ x.catalog = z.catalog
      /\ x.create = z.create
  BY <1>1, Stepped, ZenonT(20)
<1>3. thread' = [thread EXCEPT ![t] = x]
  BY DEF Goto
<1>4. Sound(x, claims', boot')
  OBVIOUS
<1> HIDE DEF x
<1>5. MarkMoves(z, x, in_flight, in_flight', FALSE)
  BY <1>2 DEF MarkMoves, Inside
<1>6. \A s \in Threads \ {t} : AskedAhead(thread[s], x, claims') /\ AskedAhead(x, thread[s], claims')
  BY <1>2 DEF AskedAhead, Booting, Provisioning, Saving
<1>7. upheavals' >= upheavals
  BY DEF IInv, TypeOK
<1>8. Fits(t, x, claims', boot')
  BY <1>4, <1>6 DEF Fits
<1> QED
  BY <1>2, <1>3, <1>5, <1>7, <1>8, Moves

\* A bootstrap moves on within its type.
LEMMA GotoThread ==
    ASSUME NEW t \in Threads, NEW pc \in Pcs, TypeOK, Goto(t, pc)
    PROVE  thread' \in [Threads -> Thread]
<1>1. thread[t] \in Thread
  BY DEF TypeOK
<1>2. [thread[t] EXCEPT !.pc = pc] \in Thread
  BY <1>1, Stepped, ZenonT(20)
<1>3. thread' = [thread EXCEPT ![t] = [thread[t] EXCEPT !.pc = pc]]
  BY DEF Goto
<1> QED
  BY <1>2, <1>3 DEF TypeOK

LEMMA Saves ==
    ASSUME NEW t \in Threads, IInv, save_bootstrap(t)
    PROVE  IInv'
<1> DEFINE z == thread[t]
<1> DEFINE o == z.owner
<1> DEFINE x == [z EXCEPT !.pc = "record"]
<1> DEFINE saved == [catalog |-> z.catalog, claim |-> z.claim]
<1>1. z \in Thread /\ z.pc = "save" /\ Sound(z, claims, boot)
  BY DEF save_bootstrap, At, IInv, TypeOK
<1>2. /\ boot' = [boot EXCEPT ![o] = saved] /\ Goto(t, "record")
      /\ UNCHANGED <<claims, status, in_flight, upheavals>>
  BY DEF save_bootstrap
<1>3. "record" \in Booting /\ "record" \in Pcs /\ z.pc \in Booting /\ z.pc \in Saving /\ "record" \notin Saving
  BY <1>1 DEF Booting, Pcs, Provisioning, Saving
<1>4. /\ x.pc = "record" /\ x.owner = z.owner /\ x.catalog = z.catalog /\ x.claim = z.claim
      /\ x.create = z.create /\ x.reset = z.reset
  BY <1>1, <1>3, Stepped, ZenonT(20)
<1> HIDE DEF x
<1>5. o \in Owners /\ z.catalog \in Catalogs /\ ~z.create /\ z.claim \in DOMAIN claims
  BY <1>1 DEF Sound, Shape, Backed, Booting, Provisioning, Claiming
<1>6. saved \in Bootstrap /\ saved.catalog = z.catalog
  BY <1>1, <1>5, ConstantsAssumption DEF Bootstrap, IInv, TypeOK, ClaimIds
<1> HIDE DEF saved
<1>7. boot'[o] = saved /\ \A p \in Owners \ {o} : boot'[p] = boot[p]
  BY <1>2, <1>5 DEF IInv, TypeOK
<1>8. Inside(z)
  BY <1>3, <1>5 DEF Inside
<1>9. TypeOK'
  <2>1. thread' \in [Threads -> Thread]
    BY <1>2, <1>3, GotoThread DEF IInv
  <2> QED
    BY <1>2, <1>5, <1>6, <2>1 DEF IInv, TypeOK
<1>10. OneClaim'
  BY <1>2 DEF IInv, OneClaim, Active
<1>11. Sound(x, claims', boot')
  <2>1. Shape(x) /\ Backed(x, claims) /\ Authorised(x, claims)
    BY <1>1, <1>4 DEF Sound, Shape, Backed, Authorised, Booting, Claiming, Provisioning
  <2>2. Unsaved(x, boot') /\ Asked(x, claims, boot')
    BY <1>4 DEF Unsaved, Asked, Saving
  <2> QED
    BY <1>2, <2>1, <2>2 DEF Sound
<1>12. ASSUME NEW s \in Threads \ {t}
       PROVE  Sound(thread[s], claims', boot')
  <2> DEFINE y == thread[s]
  <2>1. Sound(y, claims, boot)
    BY DEF IInv
  <2>2. CASE y.owner = o
    <3>1. Unsaved(y, boot')
      <4> SUFFICES ASSUME y.reset, y.pc \in {"look", "write"} \cup Saving, y.owner \in Users
                   PROVE  FALSE
        BY DEF Unsaved
      <4>1. y.pc \in Booting
        BY DEF Booting, Saving, Provisioning
      <4> QED
        BY <1>3, <2>2, <4>1, OneOfUser
    <3>2. Asked(y, claims, boot')
      <4>1. AskedAhead(y, z, claims)
        BY DEF IInv
      <4>2. y.pc = "begin" => AskedFor(y, claims, boot'[y.owner].catalog)
        BY <1>3, <1>6, <1>7, <2>2, <4>1 DEF AskedAhead
      <4> QED
        BY <2>1, <4>2 DEF Sound, Asked
    <3> QED
      BY <1>2, <2>1, <3>1, <3>2 DEF Sound
  <2>3. CASE y.owner # o
    <3>1. y.pc \in Booting \cup {"begin"} => y.owner \in Owners
      BY <2>1 DEF Sound, Shape, Owners
    <3>2. y.pc \in Booting \cup {"begin"} => boot'[y.owner] = boot[y.owner]
      BY <1>7, <2>3, <3>1
    <3>3. Unsaved(y, boot') /\ Asked(y, claims, boot')
      BY <2>1, <3>2 DEF Sound, Unsaved, Asked, Booting, Saving, Provisioning
    <3> QED
      BY <1>2, <2>1, <3>3 DEF Sound
  <2> QED
    BY <2>2, <2>3
<1>13. \A r, s \in Threads \ {t} : AskedAhead(thread[r], thread[s], claims')
  BY <1>2 DEF IInv
<1>14. Sound([thread[t] EXCEPT !.pc = "record"], claims', boot')
  BY <1>11 DEF x
<1> QED
  BY <1>2, <1>3, <1>8, <1>9, <1>10, <1>12, <1>13, <1>14, WalksOver

LEMMA Records ==
    ASSUME NEW t \in Threads, IInv, update_claim_artifacts(t)
    PROVE  IInv'
<1> DEFINE z == thread[t]
<1> DEFINE n == z.claim
<1> DEFINE row == [claims[n] EXCEPT !.provisioned = TRUE]
<1> DEFINE x == [z EXCEPT !.pc = "defaults"]
<1>1. z \in Thread /\ z.pc = "record" /\ Sound(z, claims, boot)
  BY DEF update_claim_artifacts, At, IInv, TypeOK
<1>2. /\ claims' = [claims EXCEPT ![n] = row] /\ Goto(t, "defaults")
      /\ UNCHANGED <<boot, status, in_flight, upheavals>>
  BY DEF update_claim_artifacts
<1>3. "defaults" \in Booting /\ "defaults" \in Pcs /\ z.pc \in Booting /\ "defaults" \notin Saving
  BY <1>1 DEF Booting, Pcs, Provisioning, Saving
<1>4. /\ x.pc = "defaults" /\ x.owner = z.owner /\ x.catalog = z.catalog /\ x.claim = z.claim
      /\ x.create = z.create /\ x.reset = z.reset
  BY <1>1, <1>3, Stepped, ZenonT(20)
<1> HIDE DEF x
<1>5. claims \in Seq(Claim) /\ DOMAIN claims = 1..Len(claims) /\ n \in DOMAIN claims /\ ~z.create
  BY <1>1 DEF IInv, TypeOK, Sound, Shape, Backed, Booting, Provisioning, Claiming
<1>6. /\ row \in Claim /\ row.owner = claims[n].owner /\ row.catalog = claims[n].catalog
      /\ row.state = claims[n].state
  <2>1. claims[n] \in Claim
    BY <1>5
  <2> QED
    BY <2>1 DEF Claim
<1> HIDE DEF row
<1>7. /\ claims' \in Seq(Claim) /\ Len(claims') = Len(claims) /\ DOMAIN claims' = DOMAIN claims
      /\ \A i \in DOMAIN claims : /\ claims'[i].owner = claims[i].owner
                                  /\ claims'[i].catalog = claims[i].catalog
                                  /\ claims'[i].state = claims[i].state
  BY <1>2, <1>5, <1>6
<1>8. Inside(z)
  BY <1>3, <1>5 DEF Inside
<1>9. TypeOK'
  <2>1. thread' \in [Threads -> Thread]
    BY <1>2, <1>3, GotoThread DEF IInv
  <2> QED
    BY <1>2, <1>7, <2>1 DEF IInv, TypeOK
<1>10. OneClaim'
  BY <1>7 DEF IInv, OneClaim, Active
<1>11. Later(claims, claims')
  BY <1>7 DEF Later
<1>12. Sound(x, claims', boot')
  <2>1. Shape(x) /\ Backed(x, claims')
    BY <1>1, <1>4, <1>7 DEF Sound, Shape, Backed, Booting, Claiming, Provisioning
  <2>2. Authorised(x, claims')
    BY <1>1, <1>4, <1>5, <1>7 DEF Sound, Authorised, Provisioning
  <2>3. Unsaved(x, boot') /\ Asked(x, claims', boot')
    BY <1>4 DEF Unsaved, Asked, Saving
  <2> QED
    BY <2>1, <2>2, <2>3 DEF Sound
<1>13. ASSUME NEW s \in Threads \ {t}
       PROVE  Kept(thread[s], claims')
  <2>1. Backed(thread[s], claims) /\ Authorised(thread[s], claims)
    BY DEF IInv, Sound
  <2> QED
    BY <1>7, <2>1 DEF Backed, Authorised, Kept
<1>14. /\ \A s \in Threads \ {t} : Sound(thread[s], claims', boot')
       /\ \A r, s \in Threads \ {t} : AskedAhead(thread[r], thread[s], claims')
  BY <1>2, <1>9, <1>11, <1>13, OthersKeep
<1>15. Sound([thread[t] EXCEPT !.pc = "defaults"], claims', boot')
  BY <1>12 DEF x
<1> QED
  BY <1>2, <1>3, <1>8, <1>9, <1>10, <1>14, <1>15, WalksOver

LEMMA Releases ==
    ASSUME NEW t \in Threads, IInv, release_claim(t)
    PROVE  IInv'
<1> DEFINE z == thread[t]
<1> DEFINE n == z.claim
<1> DEFINE x == [z EXCEPT !.pc = "end"]
<1>1. z \in Thread /\ z.pc = "undo" /\ Sound(z, claims, boot)
  BY DEF release_claim, At, IInv, TypeOK
<1>2. Goto(t, "end") /\ UNCHANGED <<boot, status, in_flight, upheavals>>
  BY DEF release_claim
<1>3. "end" \in Booting /\ "end" \in Pcs /\ z.pc \in Booting /\ "end" \notin Saving
  BY <1>1 DEF Booting, Pcs, Saving
<1>4. /\ x.pc = "end" /\ x.owner = z.owner /\ x.catalog = z.catalog /\ x.claim = z.claim
      /\ x.create = z.create /\ x.reset = z.reset
  BY <1>1, <1>3, Stepped, ZenonT(20)
<1> HIDE DEF x
<1>5. /\ claims \in Seq(Claim) /\ DOMAIN claims = 1..Len(claims)
      /\ n \in DOMAIN claims /\ claims[n].owner = z.owner
      /\ z.owner \in Users /\ z.owner \notin Connections /\ ~z.create
  BY <1>1, ConstantsAssumption DEF IInv, TypeOK, Sound, Shape, Backed, Booting, Claiming
<1>6. /\ claims' \in Seq(Claim) /\ Len(claims') = Len(claims) /\ DOMAIN claims' = DOMAIN claims
      /\ \A i \in DOMAIN claims : /\ claims'[i].owner = claims[i].owner
                                  /\ claims'[i].catalog = claims[i].catalog
                                  /\ claims'[i].state = "active" => claims[i].state = "active"
                                  /\ i # n /\ claims[i].state = "active" => claims'[i].state = "active"
  <2>1. CASE claims' = Released(claims, {n})
    BY <1>5, <2>1, ReleasedRows
  <2>2. CASE claims' = claims
    BY <1>5, <2>2
  <2> QED
    BY <2>1, <2>2 DEF release_claim
<1>7. Inside(z)
  BY <1>3, <1>5 DEF Inside
<1>8. TypeOK'
  <2>1. thread' \in [Threads -> Thread]
    BY <1>2, <1>3, GotoThread DEF IInv
  <2> QED
    BY <1>2, <1>6, <2>1 DEF IInv, TypeOK
<1>9. OneClaim'
  BY <1>6 DEF IInv, OneClaim, Active
<1>10. Later(claims, claims')
  BY <1>6 DEF Later
<1>11. Sound(x, claims', boot')
  <2>1. Shape(x)
    BY <1>1, <1>4 DEF Sound, Shape, Booting, Claiming
  <2>2. Backed(x, claims') /\ Authorised(x, claims') /\ Unsaved(x, boot') /\ Asked(x, claims', boot')
    BY <1>4 DEF Backed, Authorised, Unsaved, Asked, Provisioning, Saving
  <2> QED
    BY <2>1, <2>2 DEF Sound
<1>12. ASSUME NEW s \in Threads \ {t}
       PROVE  Kept(thread[s], claims')
  <2> DEFINE y == thread[s]
  <2>1. ASSUME y.pc \in {"validate"} \cup Provisioning, y.owner \in Users, Active(y.claim)
        PROVE  claims'[y.claim].state = "active"
    <3>1. y.claim \in DOMAIN claims /\ claims[y.claim].owner = y.owner
      BY <2>1 DEF IInv, Sound, Backed
    <3>2. y.owner # z.owner
      <4>1. y.pc \in Booting
        BY <2>1 DEF Booting
      <4> QED
        BY <1>3, <2>1, <4>1, OneOfUser
    <3> QED
      BY <1>5, <1>6, <2>1, <3>1, <3>2 DEF Active
  <2>2. ASSUME y.owner \in Connections, ClaimsOf(y.owner) # {}
        PROVE  \E i \in DOMAIN claims' : claims'[i].state = "active" /\ claims'[i].owner = y.owner
    BY <1>5, <1>6, <2>2 DEF ClaimsOf, Active
  <2> QED
    BY <2>1, <2>2, KeepsClaim
<1>13. /\ \A s \in Threads \ {t} : Sound(thread[s], claims', boot')
       /\ \A r, s \in Threads \ {t} : AskedAhead(thread[r], thread[s], claims')
  BY <1>2, <1>8, <1>10, <1>12, OthersKeep
<1>14. Sound([thread[t] EXCEPT !.pc = "end"], claims', boot')
  BY <1>11 DEF x
<1> QED
  BY <1>2, <1>3, <1>7, <1>8, <1>9, <1>13, <1>14, WalksOver

-----------------------------------------------------------------------------
(* Upheavals *)

LEMMA Resets ==
    ASSUME NEW u \in Users, IInv, reset_user(u)
    PROVE  IInv'
<1> DEFINE x(t) == [thread[t] EXCEPT !.reset = thread[t].reset \/ thread[t].owner = u]
<1>1. /\ boot' = [boot EXCEPT ![u] = Null]
      /\ claims' = Released(claims, ClaimsOf(u))
      /\ thread' = [t \in Threads |-> x(t)]
      /\ UNCHANGED <<status, in_flight>> /\ upheavals' = upheavals + 1
  BY DEF reset_user
<1>2. u \in Owners /\ u \notin Connections
  BY ConstantsAssumption DEF Owners
<1>3. claims \in Seq(Claim) /\ DOMAIN claims = 1..Len(claims) /\ Len(claims) \in Nat
  BY DEF IInv, TypeOK
<1>4. /\ claims' \in Seq(Claim) /\ Len(claims') = Len(claims) /\ DOMAIN claims' = DOMAIN claims
      /\ \A i \in DOMAIN claims : /\ claims'[i].owner = claims[i].owner
                                  /\ claims'[i].catalog = claims[i].catalog
                                  /\ claims'[i].state = "active" <=> claims[i].state = "active" /\ i \notin ClaimsOf(u)
  BY <1>1, <1>3, ReleasedRows
<1>5. \A i \in DOMAIN claims : claims'[i].state = "active" <=> claims[i].state = "active" /\ claims[i].owner # u
  BY <1>4 DEF ClaimsOf, Active
<1>6. ASSUME NEW t \in Threads
      PROVE  /\ x(t) \in Thread /\ x(t).pc = thread[t].pc /\ x(t).owner = thread[t].owner
             /\ x(t).catalog = thread[t].catalog /\ x(t).claim = thread[t].claim
             /\ x(t).create = thread[t].create
             /\ x(t).reset <=> thread[t].reset \/ thread[t].owner = u
  <2> DEFINE z == thread[t]
  <2> DEFINE b == IF z.reset \/ z.owner = u THEN TRUE ELSE FALSE
  <2>1. z \in Thread
    BY DEF IInv, TypeOK
  <2>2. z.reset \in BOOLEAN
    BY <2>1 DEF Thread
  <2>3. (z.reset \/ z.owner = u) = b
    BY <2>2
  <2>4. x(t) = [z EXCEPT !.reset = b]
    BY <2>3
  <2>5. b \in BOOLEAN /\ (b <=> z.reset \/ z.owner = u)
    OBVIOUS
  <2> HIDE DEF b
  <2> QED
    BY <2>1, <2>4, <2>5 DEF Thread
<1>7. \A t \in Threads : thread'[t] = x(t)
  BY <1>1
<1> HIDE DEF x
<1>8. TypeOK'
  <2>1. thread' \in [Threads -> Thread]
    <3>1. \A t \in Threads : x(t) \in Thread
      BY <1>6
    <3> QED
      BY <1>1, <3>1
  <2> QED
    BY <1>1, <1>2, <1>4, <2>1 DEF IInv, TypeOK
<1>9. OneClaim'
  BY <1>4 DEF IInv, OneClaim, Active
<1>10. \A t \in Threads : Inside(thread'[t]) <=> Inside(thread[t])
  BY <1>6, <1>7 DEF Inside
<1>11. Marked'
  BY <1>1, <1>6, <1>7, <1>10 DEF IInv, Marked
<1>12. MarkedMeansRunning'
  <2> SUFFICES ASSUME NEW o \in in_flight, o \notin Users
               PROVE  \E t \in Threads : /\ thread'[t].owner = o
                                         /\ thread'[t].pc \notin {"free", "begin", "sync"}
                                         /\ ~thread'[t].create
    BY <1>1, <1>8 DEF MarkedMeansRunning, IInv, TypeOK
  <2>1. PICK t \in Threads : /\ thread[t].owner = o
                             /\ thread[t].pc \notin {"free", "begin", "sync"}
                             /\ ~thread[t].create
    BY DEF IInv, MarkedMeansRunning
  <2> QED
    BY <1>6, <1>7, <2>1
<1>13. ASSUME NEW t \in Threads
       PROVE  Sound(thread'[t], claims', boot')
  <2> DEFINE z == thread[t]
  <2>1. Sound(z, claims, boot) /\ Shape(z)
    BY DEF IInv, Sound
  <2>2. Shape(x(t))
    BY <1>6, <2>1 DEF Shape
  <2>3. Backed(x(t), claims')
    BY <1>4, <1>6, <2>1 DEF Sound, Backed
  <2>4. Authorised(x(t), claims')
    <3>1. ASSUME z.pc \in {"validate"} \cup Provisioning, z.owner \in Users, ~z.reset, z.owner # u
          PROVE  claims'[z.claim].state = "active"
      BY <1>5, <2>1, <3>1 DEF Sound, Authorised, Backed
    <3>2. ASSUME z.pc \in Provisioning, z.owner \in Connections
          PROVE  \E i \in DOMAIN claims' : claims'[i].state = "active" /\ claims'[i].owner = z.owner
      BY <1>2, <1>4, <1>5, <2>1, <3>2 DEF Sound, Authorised
    <3> QED
      BY <1>6, <3>1, <3>2 DEF Authorised
  <2>5. \A o \in Owners : boot'[o] # Null => boot'[o] = boot[o]
    BY <1>1, <1>2 DEF IInv, TypeOK
  <2>6. boot'[u] = Null
    BY <1>1, <1>2 DEF IInv, TypeOK
  <2>7. Unsaved(x(t), boot')
    BY <1>6, <2>1, <2>5, <2>6 DEF Sound, Unsaved, Owners
  <2>8. \A c : AskedFor(z, claims, c) => AskedFor(x(t), claims', c)
    BY <1>4, <1>6 DEF AskedFor
  <2>9. Asked(x(t), claims', boot')
    <3>1. z.pc \in {"begin", "sync"} => z.claim <= Len(claims')
      BY <1>4, <2>1 DEF Sound, Asked
    <3>2. z.pc = "begin" /\ boot'[z.owner] # Null => AskedFor(x(t), claims', boot'[z.owner].catalog)
      BY <2>1, <2>5, <2>8 DEF Sound, Asked, Shape, Owners
    <3>3. z.pc = "sync" => AskedFor(x(t), claims', z.catalog)
      BY <2>1, <2>8 DEF Sound, Asked
    <3> QED
      BY <1>6, <3>1, <3>2, <3>3 DEF Asked
  <2> QED
    BY <1>7, <2>2, <2>3, <2>4, <2>7, <2>9 DEF Sound
<1>14. ASSUME NEW s \in Threads, NEW t \in Threads
       PROVE  AskedAhead(thread'[s], thread'[t], claims')
  <2>1. AskedAhead(thread[s], thread[t], claims)
    BY DEF IInv
  <2> QED
    BY <1>4, <1>6, <1>7, <2>1 DEF AskedAhead, AskedFor
<1> QED
  BY <1>8, <1>9, <1>11, <1>12, <1>13, <1>14 DEF IInv

\* Every thread is free.
LEMMA AllFree ==
    ASSUME TypeOK', OneClaim', \A t \in Threads : thread'[t] = Free, in_flight' = {}
    PROVE  IInv'
<1>1. Marked' /\ MarkedMeansRunning'
  BY FreeThread DEF Marked, MarkedMeansRunning
<1>2. \A t \in Threads : Sound(thread'[t], claims', boot')
  BY FreeThread
<1>3. \A s, t \in Threads : AskedAhead(thread'[s], thread'[t], claims')
  BY FreeThread
<1> QED
  BY <1>1, <1>2, <1>3 DEF IInv

LEMMA Restarts ==
    ASSUME IInv, Restart
    PROVE  IInv'
<1>1. /\ thread' = [t \in Threads |-> Free] /\ in_flight' = {} /\ upheavals' = upheavals + 1
      /\ UNCHANGED <<claims, boot, status>>
  BY DEF Restart
<1>2. TypeOK'
  BY <1>1, FreeThread DEF IInv, TypeOK
<1>3. OneClaim'
  BY <1>1 DEF IInv, OneClaim, Active
<1>4. \A t \in Threads : thread'[t] = Free
  BY <1>1
<1> QED
  BY <1>1, <1>2, <1>3, <1>4, AllFree

LEMMA Starts ==
    ASSUME Init
    PROVE  IInv
<1>1. TypeOK
  <2>1. claims \in Seq(Claim) /\ Len(claims) = 0
    BY DEF Init
  <2>2. thread \in [Threads -> Thread]
    BY FreeThread DEF Init
  <2> QED
    BY <2>1, <2>2, ConstantsAssumption DEF Init, TypeOK
<1>2. OneClaim
  BY DEF Init, OneClaim
<1>3. Marked /\ MarkedMeansRunning
  BY FreeThread DEF Init, Marked, MarkedMeansRunning
<1>4. \A t \in Threads : Sound(thread[t], claims, boot)
  BY FreeThread DEF Init
<1>5. \A s, t \in Threads : AskedAhead(thread[s], thread[t], claims)
  BY FreeThread DEF Init
<1> QED
  BY <1>1, <1>2, <1>3, <1>4, <1>5 DEF IInv

-----------------------------------------------------------------------------
(* The theorems *)

LEMMA StepHolds ==
    ASSUME IInv, [Next]_vars
    PROVE  IInv'
<1>1. ASSUME NEW t \in Threads, Step(t)
      PROVE  IInv'
  BY <1>1, Lookup, WritesClaim, ClaimErrs, InsertsConnection, RunBootstrap, Provisions, Saves, Records,
     PushesDefaults, BreaksOff, Releases, EndBootstrap, BeginsSync, EndsSync DEF Step
<1>2. ASSUME NEW t \in Threads, NEW u \in Users,
             (\E c \in Catalogs : bootstrap_start(t, u, c)) \/ start_sync(t, u)
      PROVE  IInv'
  BY <1>2, BootstrapStart, StartSync
<1>3. ASSUME NEW t \in Threads, NEW k \in Connections,
             create_or_resume(t, k) \/ run_connection_bootstrap(t, k) \/ run_connection_sync(t, k)
      PROVE  IInv'
  BY <1>3, CreateOrResume, ConnectionBootstrap, ConnectionSyncs
<1>4. ASSUME NEW u \in Users, reset_user(u)
      PROVE  IInv'
  BY <1>4, Resets
<1>5. CASE Restart
  BY <1>5, Restarts
<1>6. CASE UNCHANGED vars
  BY <1>6 DEF vars, IInv, TypeOK, OneClaim, Active, Marked, MarkedMeansRunning
<1> QED
  BY <1>1, <1>2, <1>3, <1>4, <1>5, <1>6 DEF Next

\* The inductive invariant: the claims and what every thread knows of them, the
\* marks, and what the steps of a thread are made for.
THEOREM ClaimsHold == Spec => []IInv
<1>1. Init => IInv
  BY Starts
<1>2. IInv /\ [Next]_vars => IInv'
  BY StepHolds
<1> QED
  BY <1>1, <1>2, PTL DEF Spec

\* Who provisions a catalog has its claim.
LEMMA AuthorisedThread ==
    ASSUME IInv, NEW t \in Threads, thread[t].pc \in Provisioning, ~thread[t].reset
    PROVE  \E i \in get_active_claim(thread[t].catalog) : claims[i].owner = thread[t].owner
<1> DEFINE x == thread[t]
<1>1. Sound(x, claims, boot) /\ x.pc \in Booting
  BY DEF IInv, Booting
<1>2. x.owner \in Users \/ (x.owner \in Connections /\ x.catalog = TargetOf[x.owner])
  BY <1>1 DEF Sound, Shape, Owners
<1>3. CASE x.owner \in Users
  <2>1. x.claim \in DOMAIN claims /\ claims[x.claim].owner = x.owner /\ claims[x.claim].catalog = x.catalog
    BY <1>1 DEF Sound, Backed
  <2>2. Active(x.claim)
    BY <1>1, <1>3 DEF Sound, Authorised, Active
  <2> QED
    BY <2>1, <2>2 DEF get_active_claim
<1>4. CASE x.owner \in Connections /\ x.catalog = TargetOf[x.owner]
  <2>1. PICK i \in DOMAIN claims : Active(i) /\ claims[i].owner = x.owner
    BY <1>1, <1>4 DEF Sound, Authorised, Active
  <2>2. claims[i].catalog = x.catalog
    BY <1>4, <2>1 DEF IInv, OneClaim
  <2> QED
    BY <2>1, <2>2 DEF get_active_claim
<1> QED
  BY <1>2, <1>3, <1>4

\* As long as a bootstrap provisions a catalog, however old its claim, its owner
\* has the active claim of it, unless the user was reset under the thread.
THEOREM ProvisionsItsOwn == Spec => []ProvisionAuthorised
<1>1. IInv => ProvisionAuthorised
  BY AuthorisedThread DEF ProvisionAuthorised
<1> QED
  BY <1>1, ClaimsHold, PTL

\* No two threads provision one catalog at a time, unless a user was reset under one.
THEOREM OneProvisioner == Spec => []OneProvisionerUnlessReset
<1>1. ASSUME IInv
      PROVE  OneProvisionerUnlessReset
  <2> SUFFICES ASSUME NEW s \in Threads, NEW t \in Threads,
                      thread[s].pc \in Provisioning, ~thread[s].reset,
                      thread[t].pc \in Provisioning, ~thread[t].reset,
                      thread[s].catalog = thread[t].catalog
               PROVE  s = t
    BY DEF OneProvisionerUnlessReset
  <2>1. PICK i \in get_active_claim(thread[s].catalog) : claims[i].owner = thread[s].owner
    BY <1>1, AuthorisedThread
  <2>2. PICK j \in get_active_claim(thread[t].catalog) : claims[j].owner = thread[t].owner
    BY <1>1, AuthorisedThread
  <2>3. i = j
    BY <1>1, <2>1, <2>2 DEF IInv, OneClaim, get_active_claim
  <2>4. Inside(thread[s]) /\ Inside(thread[t])
    BY <1>1 DEF IInv, Sound, Shape, Inside, Booting, Provisioning, Claiming
  <2> QED
    BY <1>1, <2>1, <2>2, <2>3, <2>4 DEF IInv, Marked
<1> QED
  BY <1>1, ClaimsHold, PTL

\* An owner that is marked has a bootstrap running: no refusal, failure or lost
\* race bars it from the next.
THEOREM MarkedRuns == Spec => []MarkedMeansRunning
<1>1. IInv => MarkedMeansRunning
  BY DEF IInv
<1> QED
  BY <1>1, ClaimsHold, PTL

\* A sync runs on a catalog that is somebody else's only by a claim that was made
\* after the sync was asked for.
THEOREM SyncsItsOwn == Spec => []SyncAuthorisedWhenAsked
<1>1. IInv => SyncAuthorisedWhenAsked
  BY DEF IInv, Sound, Asked, AskedFor, SyncAuthorisedWhenAsked, At, get_active_claim, Active
<1> QED
  BY <1>1, ClaimsHold, PTL

\* A catalog that was provisioned is lost only by moving to another, by a reset, or
\* by the failure of the bootstrap that got the claim.
THEOREM RetryKeeps == Spec => RetryKeepsClaim
<1> DEFINE Loses(i) == Active(i) /\ claims[i].provisioned /\ ~Active(i)'
<1> DEFINE Excused(i) ==
       \/ boot'[claims[i].owner] = Null
       \/ ClaimsOf(claims[i].owner)' # {}
       \/ \E t \in Threads : thread[t].claim = i /\ thread[t].fresh
<1>1. ASSUME IInv, [Next]_vars, NEW i \in DOMAIN claims, Loses(i)
      PROVE  Excused(i)
  <2>1. claims \in Seq(Claim) /\ DOMAIN claims = 1..Len(claims)
    BY <1>1 DEF IInv, TypeOK
  <2>2. ASSUME claims' = claims
        PROVE  FALSE
    BY <1>1, <2>2 DEF Active
  <2>3. ASSUME NEW t \in Threads, claim_write(t)
        PROVE  Excused(i)
    <3> DEFINE z == thread[t]
    <3>1. owns_catalog(z.catalog, z.owner)
      BY <2>2, <2>3 DEF claim_write, Locked
    <3>2. z.owner \in Owners /\ z.catalog \in Catalogs /\ (z.owner \in Connections => z.catalog = TargetOf[z.owner])
      BY <1>1, <2>3 DEF IInv, Sound, Shape, claim_write, At, Booting
    <3>3. /\ Len(claims) < MaxClaims
          /\ claims' = Append(Released(claims, ClaimsOf(z.owner)),
                              [catalog |-> z.catalog, owner |-> z.owner, state |-> "active", provisioned |-> FALSE])
      BY <2>3, <3>1 DEF claim_write
    <3>4. /\ Len(claims') \in DOMAIN claims' /\ claims'[Len(claims')].state = "active"
          /\ claims'[Len(claims')].owner = z.owner
          /\ claims'[i].state = "active" <=> Active(i) /\ claims[i].owner # z.owner
          /\ claims'[i].owner = claims[i].owner
      BY <1>1, <3>1, <3>2, <3>3, WrittenRows DEF Later
    <3>5. claims[i].owner = z.owner
      BY <1>1, <3>4 DEF Active
    <3> QED
      BY <3>4, <3>5 DEF ClaimsOf, Active
  <2>4. ASSUME NEW t \in Threads, release_claim(t)
        PROVE  Excused(i)
    <3>1. thread[t].fresh /\ claims' = Released(claims, {thread[t].claim})
      BY <2>2, <2>4 DEF release_claim
    <3>2. thread[t].claim = i
      BY <1>1, <2>1, <3>1, ReleasedRows DEF Active
    <3> QED
      BY <3>1, <3>2
  <2>5. ASSUME NEW t \in Threads, update_claim_artifacts(t)
        PROVE  FALSE
    <3>1. claims' = [claims EXCEPT ![thread[t].claim].provisioned = TRUE]
      BY <2>5 DEF update_claim_artifacts
    <3>2. claims[i] \in Claim
      BY <2>1
    <3>3. claims'[i].state = claims[i].state
      BY <2>1, <3>1, <3>2 DEF Claim
    <3> QED
      BY <1>1, <3>3 DEF Active
  <2>6. ASSUME NEW u \in Users, reset_user(u)
        PROVE  Excused(i)
    <3>1. claims' = Released(claims, ClaimsOf(u)) /\ boot' = [boot EXCEPT ![u] = Null]
      BY <2>6 DEF reset_user
    <3>2. claims[i].owner = u
      BY <1>1, <2>1, <3>1, ReleasedRows DEF Active, ClaimsOf
    <3> QED
      BY <1>1, <3>1, <3>2 DEF IInv, TypeOK, Owners
  <2>7. ASSUME NEW t \in Threads, Step(t)
        PROVE  Excused(i)
    <3>1. CASE claim_write(t) \/ release_claim(t) \/ update_claim_artifacts(t)
      BY <2>3, <2>4, <2>5, <3>1
    <3>2. CASE claim_lookup(t)
      BY <2>2, <3>2 DEF claim_lookup, Locked
    <3>3. CASE \/ ClaimRaises(t) \/ InsertConnection(t) \/ run_bootstrap(t) \/ Provision(t) \/ save_bootstrap(t)
               \/ PushDefaults(t) \/ BootstrapFails(t) \/ end_bootstrap(t) \/ BeginSync(t) \/ EndSync(t)
      BY <2>2, <3>3 DEF ClaimRaises, InsertConnection, run_bootstrap, Provision, save_bootstrap,
                        PushDefaults, BootstrapFails, end_bootstrap, BeginSync, EndSync
    <3> QED
      BY <2>7, <3>1, <3>2, <3>3 DEF Step
  <2>8. ASSUME NEW t \in Threads, NEW u \in Users, (\E c \in Catalogs : bootstrap_start(t, u, c)) \/ start_sync(t, u)
        PROVE  FALSE
    BY <2>2, <2>8 DEF bootstrap_start, start_sync
  <2>9. ASSUME NEW t \in Threads, NEW k \in Connections,
               create_or_resume(t, k) \/ run_connection_bootstrap(t, k) \/ run_connection_sync(t, k)
        PROVE  FALSE
    BY <2>2, <2>9 DEF create_or_resume, run_connection_bootstrap, run_connection_sync
  <2>10. CASE Restart \/ UNCHANGED vars
    BY <2>2, <2>10 DEF Restart, vars
  <2> QED
    BY <1>1, <2>6, <2>7, <2>8, <2>9, <2>10 DEF Next
<1>2. IInv /\ [Next]_vars => [\A i \in DOMAIN claims : Loses(i) => Excused(i)]_claims
  BY <1>1
<1>3. IInv /\ [Next]_vars
         => [\A i \in DOMAIN claims :
                Active(i) /\ claims[i].provisioned /\ ~Active(i)' =>
                    \/ boot'[claims[i].owner] = Null
                    \/ ClaimsOf(claims[i].owner)' # {}
                    \/ \E t \in Threads : thread[t].claim = i /\ thread[t].fresh]_claims
  BY <1>2
<1> QED
  BY <1>3, ClaimsHold, PTL DEF Spec, RetryKeepsClaim

=============================================================================
