------------------------ MODULE ExclusiveAccessProofs ------------------------
(***************************************************************************)
(* Proofs about ExclusiveAccess, for any users, other controllers, types   *)
(* of tokens and bounds.                                                   *)
(***************************************************************************)
EXTENDS ExclusiveAccess, SequenceTheorems, TLAPS

-----------------------------------------------------------------------------
(* Types                                                                     *)

Requesters == Users \cup {None, "get"}
Holders == Others \cup {Us, None}
Request == [access : Accesses, release : BOOLEAN, by : Requesters]
Response ==
  [kind : {"response"}, access : Accesses, release : BOOLEAN, by : Requesters,
   status : Statuses, holder : Holders]
Notification ==
  [kind : {"notification"}, access : Accesses, release : BOOLEAN, by : {None},
   status : {"Success"}, holder : Holders]
Messages == Response \cup Notification
Call == [access : Accesses, release : BOOLEAN, token : BOOLEAN, stay : Nat]
Places == {"idle", "sending", "waiting", "destroying", "releasing", "sendingRelease"}

TypeOK ==
  /\ entity \in Entity \cup {None} /\ network \in Invalidation \cup {None}
  /\ tokens \in [Users -> Token \cup {None}] /\ registered \in SUBSET Users
  /\ pc \in [Users -> Places] /\ call \in [Users -> Call \cup {None}]
  /\ toDevice \in Seq(Request) /\ toController \in Seq(Messages)
  /\ delayed \in SUBSET Query /\ stray \in SUBSET Accesses /\ unreleased \in BOOLEAN
  /\ device \in [Accesses -> Holders] /\ over \in BOOLEAN
  /\ failed \in SUBSET {"Token reference not found", "Token used after its end"}
  /\ calls \in Nat /\ stays \in Nat /\ events \in Nat /\ faults \in Nat

-----------------------------------------------------------------------------
(* Messages in order                                                         *)

Has(w, S) == \E m \in Range(w) : m \in S
Once(w, S) == \A m, n \in DOMAIN w : w[m] \in S /\ w[n] \in S => m = n
\* The last message of S, and those of S that no message of N follows.
Lasts(w, S) == {w[n] : n \in {i \in DOMAIN w : w[i] \in S /\ \A k \in DOMAIN w : k > i => w[k] \notin S}}
Unended(w, S, N) == {w[n] : n \in {i \in DOMAIN w : w[i] \in S /\ \A k \in DOMAIN w : k > i => w[k] \notin N}}

LEMMA AppendIs ==
  ASSUME NEW M, NEW w \in Seq(M), NEW m \in M
  PROVE  LET v == Append(w, m)
         IN  /\ v \in Seq(M) /\ DOMAIN w = 1..Len(w) /\ DOMAIN v = 1..(Len(w) + 1) /\ Len(w) \in Nat
             /\ v[Len(w) + 1] = m /\ \A n \in 1..Len(w) : v[n] = w[n]
             /\ Range(v) = Range(w) \cup {m}
<1>1. /\ Append(w, m) \in Seq(M) /\ DOMAIN w = 1..Len(w) /\ DOMAIN Append(w, m) = 1..(Len(w) + 1)
      /\ Len(w) \in Nat
      /\ Append(w, m)[Len(w) + 1] = m /\ \A n \in 1..Len(w) : Append(w, m)[n] = w[n]
  OBVIOUS
<1> DEFINE v == Append(w, m)
<1>2. PICK l \in Nat : l = Len(w)
  BY <1>1
<1>3. DOMAIN w = 1..l /\ DOMAIN v = 1..(l + 1) /\ v[l + 1] = m /\ \A n \in 1..l : v[n] = w[n]
  BY <1>1, <1>2
<1> HIDE DEF v
<1>4. \A n \in 1..(l + 1) : n \in 1..l \/ n = l + 1
  OBVIOUS
<1>5. \A n \in 1..l : n \in 1..(l + 1)
  OBVIOUS
<1>6. Range(v) \subseteq Range(w) \cup {m}
  BY <1>3, <1>4 DEF Range
<1>7. Range(w) \cup {m} \subseteq Range(v)
  BY <1>3, <1>5 DEF Range
<1>. QED  BY <1>1, <1>6, <1>7 DEF v

LEMMA TailIs ==
  ASSUME NEW M, NEW w \in Seq(M), w # <<>>
  PROVE  LET v == Tail(w)
         IN  /\ v \in Seq(M) /\ DOMAIN w = 1..Len(w) /\ DOMAIN v = 1..(Len(w) - 1) /\ Len(w) \in Nat \ {0}
             /\ Head(w) = w[1] /\ Head(w) \in M /\ \A n \in 1..(Len(w) - 1) : v[n] = w[n + 1]
             /\ Range(w) = Range(v) \cup {Head(w)}
<1>1. /\ Tail(w) \in Seq(M) /\ DOMAIN w = 1..Len(w) /\ DOMAIN Tail(w) = 1..(Len(w) - 1)
      /\ Len(w) \in Nat \ {0} /\ Head(w) = w[1] /\ Head(w) \in M
      /\ \A n \in 1..(Len(w) - 1) : Tail(w)[n] = w[n + 1]
  OBVIOUS
<1> DEFINE v == Tail(w)
<1>2. PICK l \in Nat \ {0} : l = Len(w)
  BY <1>1
<1>3. DOMAIN w = 1..l /\ DOMAIN v = 1..(l - 1) /\ Head(w) = w[1] /\ \A n \in 1..(l - 1) : v[n] = w[n + 1]
  BY <1>1, <1>2
<1> HIDE DEF v
<1>4. \A n \in 1..l : n = 1 \/ (n - 1 \in 1..(l - 1) /\ (n - 1) + 1 = n)
  OBVIOUS
<1>5. \A n \in 1..(l - 1) : n + 1 \in 1..l
  OBVIOUS
<1>6. Range(w) \subseteq Range(v) \cup {Head(w)}
  <2> SUFFICES ASSUME NEW n \in 1..l PROVE w[n] \in Range(v) \cup {w[1]}
    BY <1>3 DEF Range
  <2>1. CASE n = 1
    BY <2>1
  <2>2. CASE n - 1 \in 1..(l - 1) /\ (n - 1) + 1 = n
    BY <1>3, <2>2 DEF Range
  <2>. QED  BY <1>4, <2>1, <2>2
<1>7. Range(v) \cup {Head(w)} \subseteq Range(w)
  BY <1>2, <1>3, <1>5 DEF Range
<1>. QED  BY <1>1, <1>6, <1>7 DEF v

LEMMA EmptyIs ==
  ASSUME NEW S, NEW N
  PROVE  /\ ~Has(<<>>, S) /\ Once(<<>>, S) /\ Range(<<>>) = {}
         /\ Lasts(<<>>, S) = {} /\ Unended(<<>>, S, N) = {}
BY DEF Has, Once, Range, Lasts, Unended

LEMMA HasAppend ==
  ASSUME NEW M, NEW w \in Seq(M), NEW m \in M, NEW S
  PROVE  /\ Has(Append(w, m), S) <=> Has(w, S) \/ m \in S
         /\ Once(w, S) /\ ~(m \in S /\ Has(w, S)) => Once(Append(w, m), S)
<1> DEFINE v == Append(w, m)
<1>1. PICK l \in Nat : /\ DOMAIN w = 1..l /\ DOMAIN v = 1..(l + 1) /\ v[l + 1] = m /\ \A n \in 1..l : v[n] = w[n]
                       /\ Range(v) = Range(w) \cup {m}
  BY AppendIs
<1> HIDE DEF v
<1>2. \A n \in 1..(l + 1) : n \in 1..l \/ n = l + 1
  OBVIOUS
<1>3. Has(v, S) <=> Has(w, S) \/ m \in S
  BY <1>1 DEF Has
<1>4. \A n \in 1..l : w[n] \in S => Has(w, S)
  BY <1>1 DEF Has, Range
<1>5. Once(w, S) /\ ~(m \in S /\ Has(w, S)) => Once(v, S)
  BY <1>1, <1>2, <1>4 DEF Once
<1>. QED  BY <1>3, <1>5 DEF v

LEMMA HasTail ==
  ASSUME NEW M, NEW w \in Seq(M), w # <<>>, NEW S
  PROVE  /\ Has(w, S) <=> Has(Tail(w), S) \/ Head(w) \in S
         /\ Once(w, S) => Once(Tail(w), S) /\ (Head(w) \in S => ~Has(Tail(w), S))
<1> DEFINE v == Tail(w)
<1>1. PICK l \in Nat \ {0} :
        /\ DOMAIN w = 1..l /\ DOMAIN v = 1..(l - 1) /\ Head(w) = w[1] /\ \A n \in 1..(l - 1) : v[n] = w[n + 1]
        /\ Range(w) = Range(v) \cup {Head(w)}
  BY TailIs
<1> HIDE DEF v
<1>2. \A n \in 1..(l - 1) : n + 1 \in 1..l /\ n + 1 # 1 /\ \A m \in 1..(l - 1) : n + 1 = m + 1 => n = m
  OBVIOUS
<1>3. Has(w, S) <=> Has(v, S) \/ Head(w) \in S
  BY <1>1 DEF Has
<1>4. Once(w, S) => Once(v, S)
  BY <1>1, <1>2 DEF Once
<1>5. Once(w, S) /\ Head(w) \in S => ~Has(v, S)
  <2> SUFFICES ASSUME Once(w, S), Head(w) \in S, NEW n \in 1..(l - 1), v[n] \in S PROVE FALSE
    BY <1>1 DEF Has, Range
  <2>1. 1 \in 1..l /\ n + 1 \in 1..l /\ w[n + 1] \in S /\ w[1] \in S
    BY <1>1, <1>2
  <2>. QED  BY <1>1, <1>2, <2>1 DEF Once
<1>. QED  BY <1>3, <1>4, <1>5 DEF v

LEMMA LastsAppend ==
  ASSUME NEW M, NEW w \in Seq(M), NEW m \in M, NEW S
  PROVE  /\ m \in S => Lasts(Append(w, m), S) \subseteq {m}
         /\ m \notin S => Lasts(Append(w, m), S) \subseteq Lasts(w, S)
<1> DEFINE v == Append(w, m)
<1>1. PICK l \in Nat : DOMAIN w = 1..l /\ DOMAIN v = 1..(l + 1) /\ v[l + 1] = m /\ \A n \in 1..l : v[n] = w[n]
  BY AppendIs
<1> HIDE DEF v
<1>2. /\ \A n \in 1..(l + 1) : n \in 1..l \/ n = l + 1
      /\ \A n \in 1..l : l + 1 > n /\ n \in 1..(l + 1)
      /\ l + 1 \in 1..(l + 1)
  OBVIOUS
<1>3. m \in S => Lasts(v, S) \subseteq {m}
  BY <1>1, <1>2 DEF Lasts
<1>4. m \notin S => Lasts(v, S) \subseteq Lasts(w, S)
  <2> SUFFICES ASSUME m \notin S, NEW n \in 1..(l + 1), v[n] \in S, \A k \in 1..(l + 1) : k > n => v[k] \notin S
               PROVE  v[n] \in Lasts(w, S)
    BY <1>1 DEF Lasts
  <2>1. n \in 1..l /\ w[n] = v[n]
    BY <1>1, <1>2
  <2>2. \A k \in 1..l : k > n => w[k] \notin S
    BY <1>1, <1>2
  <2>. QED  BY <1>1, <2>1, <2>2 DEF Lasts
<1>. QED  BY <1>3, <1>4 DEF v

LEMMA LastsTail ==
  ASSUME NEW M, NEW w \in Seq(M), w # <<>>, NEW S
  PROVE  /\ Lasts(Tail(w), S) \subseteq Lasts(w, S)
         /\ Head(w) \in S /\ ~Has(Tail(w), S) => Head(w) \in Lasts(w, S)
<1> DEFINE v == Tail(w)
<1>1. PICK l \in Nat \ {0} :
        /\ DOMAIN w = 1..l /\ DOMAIN v = 1..(l - 1) /\ Head(w) = w[1] /\ \A n \in 1..(l - 1) : v[n] = w[n + 1]
        /\ Range(w) = Range(v) \cup {Head(w)}
  BY TailIs
<1> HIDE DEF v
<1>2. \A n \in 1..l : n > 1 => n - 1 \in 1..(l - 1) /\ (n - 1) + 1 = n
  OBVIOUS
<1>3. Lasts(v, S) \subseteq Lasts(w, S)
  <2> SUFFICES ASSUME NEW n \in 1..(l - 1), v[n] \in S, \A k \in 1..(l - 1) : k > n => v[k] \notin S
               PROVE  v[n] \in Lasts(w, S)
    BY <1>1 DEF Lasts
  <2>1. n + 1 \in 1..l /\ w[n + 1] = v[n]
    BY <1>1
  <2>2. ASSUME NEW k \in 1..l, k > n + 1 PROVE w[k] \notin S
    <3>1. k - 1 \in 1..(l - 1) /\ (k - 1) + 1 = k /\ k - 1 > n
      BY <2>2
    <3>. QED  BY <1>1, <3>1
  <2>. QED  BY <1>1, <2>1, <2>2 DEF Lasts
<1>4. Head(w) \in S /\ ~Has(v, S) => Head(w) \in Lasts(w, S)
  <2> SUFFICES ASSUME Head(w) \in S, ~Has(v, S) PROVE w[1] \in Lasts(w, S)
    BY <1>1
  <2>1. ASSUME NEW k \in 1..l, k > 1 PROVE w[k] \notin S
    <3>1. k - 1 \in 1..(l - 1) /\ v[k - 1] = w[k]
      BY <1>1, <1>2, <2>1
    <3>. QED  BY <1>1, <3>1 DEF Has, Range
  <2>. QED  BY <1>1, <2>1 DEF Lasts
<1>. QED  BY <1>3, <1>4 DEF v

LEMMA UnendedAppend ==
  ASSUME NEW M, NEW w \in Seq(M), NEW m \in M, NEW S, NEW N
  PROVE  /\ Unended(Append(w, m), S, N) \subseteq Unended(w, S, N) \cup ({m} \cap S)
         /\ m \in N => Unended(Append(w, m), S, N) \subseteq {m}
<1> DEFINE v == Append(w, m)
<1>1. PICK l \in Nat : DOMAIN w = 1..l /\ DOMAIN v = 1..(l + 1) /\ v[l + 1] = m /\ \A n \in 1..l : v[n] = w[n]
  BY AppendIs
<1> HIDE DEF v
<1>2. /\ \A n \in 1..(l + 1) : n \in 1..l \/ n = l + 1
      /\ \A n \in 1..l : l + 1 > n /\ n \in 1..(l + 1)
      /\ l + 1 \in 1..(l + 1)
  OBVIOUS
<1>3. Unended(v, S, N) \subseteq Unended(w, S, N) \cup ({m} \cap S)
  <2> SUFFICES ASSUME NEW n \in 1..(l + 1), v[n] \in S, \A k \in 1..(l + 1) : k > n => v[k] \notin N
               PROVE  v[n] \in Unended(w, S, N) \cup ({m} \cap S)
    BY <1>1 DEF Unended
  <2>1. CASE n = l + 1
    BY <1>1, <2>1
  <2>2. CASE n \in 1..l
    <3>1. w[n] = v[n] /\ \A k \in 1..l : k > n => w[k] \notin N
      BY <1>1, <1>2, <2>2
    <3>. QED  BY <1>1, <2>2, <3>1 DEF Unended
  <2>. QED  BY <1>2, <2>1, <2>2
<1>4. m \in N => Unended(v, S, N) \subseteq {m}
  BY <1>1, <1>2 DEF Unended
<1>. QED  BY <1>3, <1>4 DEF v

LEMMA UnendedTail ==
  ASSUME NEW M, NEW w \in Seq(M), w # <<>>, NEW S, NEW N
  PROVE  /\ Unended(Tail(w), S, N) \subseteq Unended(w, S, N)
         /\ Head(w) \in S /\ ~Has(Tail(w), N) => Head(w) \in Unended(w, S, N)
<1> DEFINE v == Tail(w)
<1>1. PICK l \in Nat \ {0} :
        /\ DOMAIN w = 1..l /\ DOMAIN v = 1..(l - 1) /\ Head(w) = w[1] /\ \A n \in 1..(l - 1) : v[n] = w[n + 1]
        /\ Range(w) = Range(v) \cup {Head(w)}
  BY TailIs
<1> HIDE DEF v
<1>2. \A n \in 1..l : n > 1 => n - 1 \in 1..(l - 1) /\ (n - 1) + 1 = n
  OBVIOUS
<1>3. Unended(v, S, N) \subseteq Unended(w, S, N)
  <2> SUFFICES ASSUME NEW n \in 1..(l - 1), v[n] \in S, \A k \in 1..(l - 1) : k > n => v[k] \notin N
               PROVE  v[n] \in Unended(w, S, N)
    BY <1>1 DEF Unended
  <2>1. n + 1 \in 1..l /\ w[n + 1] = v[n]
    BY <1>1
  <2>2. ASSUME NEW k \in 1..l, k > n + 1 PROVE w[k] \notin N
    <3>1. k - 1 \in 1..(l - 1) /\ (k - 1) + 1 = k /\ k - 1 > n
      BY <2>2
    <3>. QED  BY <1>1, <3>1
  <2>. QED  BY <1>1, <2>1, <2>2 DEF Unended
<1>4. Head(w) \in S /\ ~Has(v, N) => Head(w) \in Unended(w, S, N)
  <2> SUFFICES ASSUME Head(w) \in S, ~Has(v, N) PROVE w[1] \in Unended(w, S, N)
    BY <1>1
  <2>1. ASSUME NEW k \in 1..l, k > 1 PROVE w[k] \notin N
    <3>1. k - 1 \in 1..(l - 1) /\ v[k - 1] = w[k]
      BY <1>1, <1>2, <2>1
    <3>. QED  BY <1>1, <3>1 DEF Has, Range
  <2>. QED  BY <1>1, <2>1 DEF Unended
<1>. QED  BY <1>3, <1>4 DEF v

-----------------------------------------------------------------------------
(* Who waits for a message                                                   *)

\* The query of an access, or the command of a user: one message at a time, on its way
\* to the device or back.
Owner(m) == <<m.by, IF m.by = "get" THEN m.access ELSE None>>
Of(x) == {m \in Request \cup Messages : Owner(m) = x}
Sole(w, v, x) == Once(w, Of(x)) /\ Once(v, Of(x)) /\ ~(Has(w, Of(x)) /\ Has(v, Of(x)))
Pending(w, v, x) == Has(w, Of(x)) \/ Has(v, Of(x))

LEMMA SoleSent ==
  ASSUME NEW w \in Seq(Messages), NEW v \in Seq(Request), NEW c \in Request, NEW x, Sole(w, v, x),
         c \in Of(x) => ~Pending(w, v, x)
  PROVE  /\ Sole(w, Append(v, c), x)
         /\ Pending(w, Append(v, c), x) <=> Pending(w, v, x) \/ c \in Of(x)
<1>1. /\ Has(Append(v, c), Of(x)) <=> Has(v, Of(x)) \/ c \in Of(x)
      /\ Once(v, Of(x)) /\ ~(c \in Of(x) /\ Has(v, Of(x))) => Once(Append(v, c), Of(x))
  BY HasAppend
<1>. QED  BY <1>1 DEF Sole, Pending

LEMMA SoleReceived ==
  ASSUME NEW w \in Seq(Messages), NEW v \in Seq(Request), NEW x, w # <<>>, Sole(w, v, x)
  PROVE  /\ Sole(Tail(w), v, x)
         /\ Pending(Tail(w), v, x) <=> Pending(w, v, x) /\ Head(w) \notin Of(x)
<1>1. /\ Has(w, Of(x)) <=> Has(Tail(w), Of(x)) \/ Head(w) \in Of(x)
      /\ Once(w, Of(x)) => Once(Tail(w), Of(x)) /\ (Head(w) \in Of(x) => ~Has(Tail(w), Of(x)))
  BY HasTail
<1>. QED  BY <1>1 DEF Sole, Pending

LEMMA SoleTravels ==
  ASSUME NEW w \in Seq(Messages), NEW v \in Seq(Request), NEW m \in Messages, NEW x, v # <<>>,
         Owner(m) = Owner(Head(v)), Sole(w, v, x)
  PROVE  /\ Sole(Append(w, m), Tail(v), x)
         /\ Pending(Append(w, m), Tail(v), x) <=> Pending(w, v, x)
<1>1. /\ Has(v, Of(x)) <=> Has(Tail(v), Of(x)) \/ Head(v) \in Of(x)
      /\ Once(v, Of(x)) => Once(Tail(v), Of(x)) /\ (Head(v) \in Of(x) => ~Has(Tail(v), Of(x)))
  BY HasTail
<1>2. /\ Has(Append(w, m), Of(x)) <=> Has(w, Of(x)) \/ m \in Of(x)
      /\ Once(w, Of(x)) /\ ~(m \in Of(x) /\ Has(w, Of(x))) => Once(Append(w, m), Of(x))
  BY HasAppend
<1>3. Head(v) \in Request
  BY TailIs
<1>4. m \in Of(x) <=> Head(v) \in Of(x)
  BY <1>3 DEF Of
<1>. QED  BY <1>1, <1>2, <1>4 DEF Sole, Pending

\* A message of nobody is of no query and of no user.
LEMMA SoleOthers ==
  ASSUME NEW w \in Seq(Messages), NEW v \in Seq(Request), NEW m \in Messages, NEW x, m \notin Of(x),
         Sole(w, v, x)
  PROVE  Sole(Append(w, m), v, x) /\ (Pending(Append(w, m), v, x) <=> Pending(w, v, x))
<1>1. /\ Has(Append(w, m), Of(x)) <=> Has(w, Of(x)) \/ m \in Of(x)
      /\ Once(w, Of(x)) /\ ~(m \in Of(x) /\ Has(w, Of(x))) => Once(Append(w, m), Of(x))
  BY HasAppend
<1>. QED  BY <1>1 DEF Sole, Pending

LEMMA NothingPending ==
  ASSUME NEW x PROVE Sole(<<>>, <<>>, x) /\ ~Pending(<<>>, <<>>, x)
BY EmptyIs DEF Sole, Pending

-----------------------------------------------------------------------------
(* The invariant                                                             *)

\* What a thread works on is there.
Thread(u) ==
  /\ pc[u] \in {"sending", "waiting"} =>
       call[u] \in Call /\ (call[u].token => ~call[u].release) /\ call[u].stay \in 0..stays
  /\ TokenLocked(u) \/ u \in registered => tokens[u] \in Token
  /\ u \in registered =>
       /\ tokens[u].valid /\ pc[u] \notin {"releasing", "sendingRelease"}
       /\ network # None => u \notin network.tokens
  /\ tokens[u] \in Token => tokens[u].stay \in 0..stays
Threads == \A u \in Users : Thread(u)

Awaits(u, m) == pc[u] = "waiting" /\ m.access = call[u].access /\ m.release = call[u].release
\* A user who waits has one message at most, which is about its call; when the network
\* is about to answer it, it gets no token.
Waits(u) ==
  /\ Sole(toController, toDevice, <<u, None>>)
  /\ \A m \in Range(toDevice) \cup Range(toController) : m.by = u => Awaits(u, m)
  /\ network # None /\ network.by = u =>
       /\ pc[u] = "waiting" /\ (network.status = "Success" => call[u].release)
       /\ ~Pending(toController, toDevice, <<u, None>>)
Waiting == \A u \in Users : Waits(u)

\* A call is made of an advertised entity.
Timely(u) ==
  pc[u] \in {"sending", "waiting"} /\ entity # None /\ call[u].stay = stays => entity.advertised
InTime == \A u \in Users : Timely(u)

\* Nothing is on its way for an entity that left; an entity expects the answers of the
\* queries that are on their way or are to be sent again, unless one of a former stay was,
\* and expects none once it is advertised, nor before it is asked.
Again(a) == [access |-> a, stay |-> stays]
Expected(a) ==
  /\ Sole(toController, toDevice, <<"get", a>>)
  /\ entity # None =>
       /\ a \in entity.expected <=> Pending(toController, toDevice, <<"get", a>>) \/ Again(a) \in delayed
       /\ ~(Pending(toController, toDevice, <<"get", a>>) /\ Again(a) \in delayed)
Expecting ==
  /\ entity = None => toDevice = <<>> /\ toController = <<>>
  /\ entity # None =>
       /\ entity.advertised => entity.expected = {}
       /\ entity.step # "GetDynamicInfo" => entity.expected = {} /\ ~entity.advertised
       /\ entity.milan => Milan
  /\ \A q \in delayed : q.stay \in 0..stays
  /\ \A a \in Accesses \ stray : Expected(a)

\* What a message says of the state.
Says(m) == IF m.kind = "notification" THEN StateOf(m.holder) ELSE InfoFromStatus(m)
IsFit(m) ==
  /\ m.by = "get" => m.release
  /\ m.kind = "notification" => m.access \in Implemented
  /\ m.kind = "response" /\ m.status = "Success" => m.access \in Implemented /\ (~m.release => m.holder = Us)
  /\ m.kind = "response" /\ m.status = "TimedOut" => faults # 0
Answers ==
  /\ \A c \in Range(toDevice) : c.by = "get" => c.release
  /\ \A m \in Range(toController) : IsFit(m)
  /\ faults = 0 => delayed = {} /\ stray = {}
  /\ entity # None => \A a \in Accesses : entity.state[a] = "Held" => a \in Implemented

\* Once the query of an access is answered, the last message about it is true; when there
\* is none, the state is, or a command is on its way.
On(a) == {m \in Request \cup Messages : m.access = a}
IsTrue(s, a) == s = StateOf(device[a]) \/ (s = "Undefined" /\ faults # 0)
Sends(u, a) == pc[u] = "sending" /\ call[u].access = a
Releases(u, a) == pc[u] = "sendingRelease" /\ tokens[u].access = a
Underway(a) == Has(toDevice, On(a)) \/ \E u \in Users : Sends(u, a) \/ Releases(u, a)
Follows(a) ==
  /\ \A m \in Lasts(toController, On(a)) : IsTrue(Says(m), a)
  /\ ~Has(toController, On(a)) => IsTrue(entity.state[a], a) \/ Underway(a)
InQuestion(a) == Has(toDevice, Of(<<"get", a>>))
Questioned == entity # None /\ ~over /\ entity.step = "GetDynamicInfo"
Following == Questioned => \A a \in Implemented \ stray : InQuestion(a) \/ Follows(a)

\* When nothing is lost, a device that is not held is not said to be, once the message that
\* says so is read, or the answer of the query;
Ending(a) == {m \in Messages : m.access = a /\ (Says(m) = "NotHeld" \/ m.by = "get")}
Ended(a) ==
  /\ ~Has(toController, Ending(a)) => entity.state[a] # "Held"
  /\ \A m \in Unended(toController, On(a), Ending(a)) : Says(m) # "Held"
Holding == Questioned => \A a \in Implemented : ~InQuestion(a) /\ device[a] # Us => Ended(a)
\* and a valid token is held, or revoked by a message, or being revoked or destroyed.
Revoking(u) == TokenLocked(u) \/ (network # None /\ u \in network.tokens)
Valid(u) == tokens[u] \in Token /\ tokens[u].valid /\ tokens[u].stay = stays
Held(a) == device[a] = Us \/ Has(toController, Ending(a))
Given(u) ==
  Valid(u) => entity.advertised /\ (Revoking(u) \/ (u \in registered /\ Held(tokens[u].access)))
Certain == faults = 0 /\ ~over /\ entity # None => Holding /\ \A u \in Users : Given(u)

Inv ==
  TypeOK /\ Threads /\ Waiting /\ InTime /\ Expecting /\ Answers /\ Following /\ Certain

-----------------------------------------------------------------------------
(* The steps, one by one                                                     *)

\* A call begins an operation, or is answered at once.
Begins(u, c) ==
  /\ pc[u] = "idle" /\ network = None /\ ~over /\ Advertised /\ c.stay = stays
  /\ ~InProgress(entity.state[c.access]) /\ (entity.state[c.access] = "Held" => c.release)
  /\ entity' = Begun(c.access, c.release)
  /\ pc' = [pc EXCEPT ![u] = "sending"] /\ call' = [call EXCEPT ![u] = c]
  /\ calls' = calls + 1
  /\ UNCHANGED <<tokenVars, network, toDevice, toController, queryVars, worldVars, over, failed, unreleased>>
Granted(u, access) ==
  /\ pc[u] = "idle" /\ network = None /\ ~over /\ Advertised /\ entity.state[access] = "Held"
  /\ tokens' = [tokens EXCEPT ![u] = [access |-> access, valid |-> TRUE, stay |-> stays]]
  /\ registered' = registered \cup {u} /\ calls' = calls + 1
  /\ UNCHANGED <<entity, pc, call, network, toDevice, toController, queryVars, worldVars, over, failed, unreleased>>
Refused ==
  /\ network = None /\ calls' = calls + 1
  /\ UNCHANGED <<entity, tokenVars, pc, call, network, toDevice, toController, queryVars, worldVars, over, failed, unreleased>>

LEMMA CallIs ==
  ASSUME stays \in Nat, NEW u \in Users, NEW access \in Accesses, NEW release \in BOOLEAN, NEW token \in BOOLEAN,
         Calls(u, access, release, token), token => ~release
  PROVE  \/ \E c \in Call : c.access = access /\ c.release = release /\ c.token = token /\ Begins(u, c)
         \/ token /\ Granted(u, access)
         \/ Refused
<1> DEFINE c == [access |-> access, release |-> release, token |-> token, stay |-> stays]
<1>1. c \in Call /\ c.access = access /\ c.release = release /\ c.token = token /\ c.stay = stays
  BY DEF Call
<1>2. CASE Advertised /\ Immediate(access, release) = None
  <2>1. ~InProgress(entity.state[access]) /\ (entity.state[access] = "Held" => release)
    BY <1>2, NoneIsApart DEF Immediate, Statuses
  <2>2. Begins(u, c)
    BY <1>1, <1>2, <2>1 DEF Calls, Begins
  <2>. QED  BY <1>1, <2>2
<1>3. CASE Advertised /\ Immediate(access, release) = "Success" /\ token
  <2>1. entity.state[access] = "Held"
    BY <1>3, NoneIsApart DEF Immediate, Statuses
  <2>2. None # "Success"
    BY NoneIsApart DEF Statuses
  <2>3. Granted(u, access)
    BY <1>3, <2>1, <2>2 DEF Calls, Granted
  <2>. QED  BY <1>3, <2>3
<1>4. CASE Immediate(access, release) # None /\ ~(token /\ Immediate(access, release) = "Success")
  BY <1>4 DEF Calls, Refused, tokenVars
<1>5. CASE ~Advertised
  BY <1>4, <1>5, NoneIsApart DEF Immediate, Statuses
<1>. QED  BY <1>2, <1>3, <1>4, <1>5

\* The answer that a user waited for; with or without a token.
RepliedTo(u) ==
  /\ pc' = [pc EXCEPT ![u] = "idle"] /\ call' = [call EXCEPT ![u] = None]
  /\ UNCHANGED tokenVars
Sent(u) ==
  /\ pc[u] = "sending" /\ network = None /\ entity # None
  /\ toDevice' = Append(toDevice, Command(call[u].access, call[u].release, u))
  /\ pc' = [pc EXCEPT ![u] = "waiting"]
  /\ UNCHANGED <<call, tokenVars, entity, calls, network, toController, queryVars, worldVars, over, failed, unreleased>>
Unsent(u) ==
  /\ pc[u] = "sending" /\ network = None /\ entity = None /\ RepliedTo(u)
  /\ UNCHANGED <<toDevice, entity, calls, network, toController, queryVars, worldVars, over, failed, unreleased>>

LEMMA SendIs ==
  ASSUME NEW u \in Users, Send(u) PROVE Sent(u) \/ Unsent(u)
<1>1. CASE entity # None
  BY <1>1 DEF Send, Sent
<1>2. CASE entity = None
  BY <1>2 DEF Send, Unsent, Answer, RepliedTo
<1>. QED  BY <1>1, <1>2

\* A user is rid of its token; nothing else changes but its place, who is registered and
\* which assertion failed.
Forgets(u) == pc' = [pc EXCEPT ![u] = "idle"] /\ tokens' = [tokens EXCEPT ![u] = None]
Destroys(u) ==
  /\ \/ pc[u] = "idle" /\ tokens[u] # None /\ pc' = [pc EXCEPT ![u] = "destroying"] /\ UNCHANGED <<tokens, registered>>
     \/ pc[u] = "idle" /\ ~tokens[u].valid /\ tokens' = [tokens EXCEPT ![u] = None] /\ UNCHANGED <<pc, registered>>
     \/ pc[u] = "destroying" /\ registered' = registered \ {u} /\ pc' = [pc EXCEPT ![u] = "releasing"] /\ UNCHANGED tokens
     \/ pc[u] = "destroying" /\ registered' = registered \ {u} /\ Forgets(u)
     \/ pc[u] = "releasing" /\ Forgets(u) /\ UNCHANGED registered
  /\ failed' \subseteq failed \cup {"Token reference not found"}
  /\ unreleased' = (unreleased \/ (pc[u] = "releasing" /\ entity # None /\ ~entity.advertised))
  /\ UNCHANGED <<entity, call, calls, network, toDevice, toController, queryVars, worldVars, over>>

\* The last token is released, unless a command is in progress or there is no entity.
Drops(u) ==
  /\ Destroys(u)
  /\ registered # {} => registered' # {} \/ pc'[u] = "releasing"
  /\ pc[u] = "releasing" => ~Advertised \/ InProgress(entity.state[tokens[u].access])

LEMMA DestroyIs ==
  ASSUME NEW u \in Users, TypeOK, DestroyToken(u) \/ Unregister(u) PROVE Drops(u)
<1>0. unreleased' = unreleased => pc[u] = "releasing" \/ unreleased' = (unreleased \/ FALSE)
  BY DEF TypeOK
<1>1. CASE DestroyToken(u)
  BY <1>0, <1>1 DEF DestroyToken, Destroys, Drops
<1>2. CASE Unregister(u)
  <2>1. failed' \subseteq failed \cup {"Token reference not found"}
    BY <1>2 DEF Unregister
  <2>2. UNCHANGED <<entity, call, calls, network, toDevice, toController, queryVars, worldVars, over, unreleased>>
    BY <1>2 DEF Unregister
  <2>3. /\ pc[u] = "destroying" /\ registered' = registered \ {u}
        /\ (pc' = [pc EXCEPT ![u] = "releasing"] /\ UNCHANGED tokens) \/ Forgets(u)
    BY <1>2 DEF Unregister, Forgets
  <2>4. Destroys(u)
    BY <1>0, <2>1, <2>2, <2>3 DEF Destroys
  <2>5. registered # {} => registered' # {} \/ pc'[u] = "releasing"
    <3>1. CASE registered = {u}
      <4>1. pc' = [pc EXCEPT ![u] = "releasing"]
        BY <1>2, <3>1 DEF Unregister, LastToken
      <4>2. pc \in [Users -> Places]
        BY DEF TypeOK
      <4>. QED  BY <4>1, <4>2
    <3>2. CASE registered # {u}
      BY <2>3, <3>2
    <3>. QED  BY <3>1, <3>2
  <2>. QED  BY <2>3, <2>4, <2>5 DEF Drops
<1>. QED  BY <1>1, <1>2

ReleaseBegins(u) ==
  /\ pc[u] = "releasing" /\ network = None /\ Advertised
  /\ ~InProgress(entity.state[tokens[u].access])
  /\ entity' = Begun(tokens[u].access, TRUE)
  /\ pc' = [pc EXCEPT ![u] = "sendingRelease"]
  /\ UNCHANGED <<tokenVars, call, calls, network, toDevice, toController, queryVars, worldVars, over, failed, unreleased>>

LEMMA ReleaseIs ==
  ASSUME TypeOK, NEW u \in Users, ReleaseForToken(u) PROVE ReleaseBegins(u) \/ Drops(u)
<1>1. CASE Immediate(tokens[u].access, TRUE) = None
  <2>1. Advertised /\ ~InProgress(entity.state[tokens[u].access])
    BY <1>1, NoneIsApart DEF Immediate, Statuses
  <2>2. unreleased' = unreleased
    BY <2>1 DEF ReleaseForToken, Advertised, TypeOK
  <2>. QED  BY <1>1, <2>1, <2>2 DEF ReleaseForToken, ReleaseBegins, tokenVars
<1>2. CASE Immediate(tokens[u].access, TRUE) # None
  <2>1. ~Advertised \/ InProgress(entity.state[tokens[u].access])
    BY <1>2 DEF Immediate
  <2>2. Destroys(u)
    BY <1>2 DEF ReleaseForToken, Destroys, Forgets
  <2>. QED  BY <1>2, <2>1, <2>2 DEF Drops, ReleaseForToken
<1>. QED  BY <1>1, <1>2

-----------------------------------------------------------------------------
(* What the network's thread reads                                           *)

Learnt(m, last) == [Answered(m) EXCEPT !.advertised = last]
Retried(m) == [Updated(m) EXCEPT !.retry = FALSE]

\* The next message is read.
Reads(m) ==
  /\ network = None /\ ~over /\ entity # None /\ toController # <<>> /\ m = Head(toController)
  /\ toController' = Tail(toController)
  /\ UNCHANGED <<calls, toDevice, stray, worldVars, over, failed, unreleased>>
\* The answer of a query: nobody expects it, it is to be sent again, or it says what the
\* state is.
Ignores(m) ==
  /\ Reads(m) /\ m.by = "get" /\ m.access \in stray
  /\ UNCHANGED <<entity, delayed, tokenVars, pc, call, network>>
Retries(m) ==
  /\ Reads(m) /\ m.by = "get" /\ m.status = "TimedOut" /\ m.access \in entity.expected
  /\ entity' = Retried(m) /\ delayed' = delayed \cup {Again(m.access)}
  /\ UNCHANGED <<tokenVars, pc, call, network>>
Learns(m) ==
  /\ Reads(m) /\ m.by = "get" /\ m.access \in entity.expected
  /\ \E last \in BOOLEAN : (last => entity.expected \subseteq {m.access}) /\ entity' = Learnt(m, last)
  /\ UNCHANGED <<delayed, tokenVars, pc, call, network>>
\* Another message: tokens are to be invalidated, a user is answered, or nobody waits.
Revokes(m) ==
  /\ Reads(m) /\ m.by # "get" /\ entity' = Updated(m) /\ UNCHANGED delayed
  /\ Revoked(Updated(m), m.access) # {}
  /\ registered' = registered \ Revoked(Updated(m), m.access)
  /\ network' = [tokens |-> Revoked(Updated(m), m.access), by |-> m.by, status |-> m.status]
  /\ UNCHANGED <<tokens, pc, call>>
Tells(m) ==
  /\ Reads(m) /\ m.by \in Users /\ entity' = Updated(m) /\ UNCHANGED delayed
  /\ Revoked(Updated(m), m.access) = {} /\ Answer(m.by, m.status) /\ UNCHANGED network
Passes(m) ==
  /\ Reads(m) /\ m.by = None /\ entity' = Updated(m) /\ UNCHANGED delayed
  /\ Revoked(Updated(m), m.access) = {} /\ UNCHANGED <<tokenVars, pc, call, network>>

LEMMA HeadIs ==
  ASSUME TypeOK, toController # <<>>
  PROVE  /\ Head(toController) \in Messages /\ Head(toController) \in Range(toController)
         /\ Range(Tail(toController)) \subseteq Range(toController)
         /\ Tail(toController) \in Seq(Messages)
<1>1. PICK w \in Seq(Messages) : w = toController
  BY DEF TypeOK
<1>2. w # <<>>
  BY <1>1
<1>3. Head(w) \in Messages /\ Range(w) = Range(Tail(w)) \cup {Head(w)} /\ Tail(w) \in Seq(Messages)
  BY <1>2, TailIs
<1>. QED  BY <1>1, <1>3

LEMMA RangeSent ==
  ASSUME TypeOK, NEW c \in Request
  PROVE  Range(Append(toDevice, c)) = Range(toDevice) \cup {c}
<1>1. PICK q \in Seq(Request) : q = toDevice
  BY DEF TypeOK
<1>2. Range(Append(q, c)) = Range(q) \cup {c}
  BY AppendIs
<1>. QED  BY <1>1, <1>2

LEMMA RangeTold ==
  ASSUME TypeOK, NEW m \in Messages
  PROVE  Range(Append(toController, m)) = Range(toController) \cup {m}
<1>1. PICK w \in Seq(Messages) : w = toController
  BY DEF TypeOK
<1>2. Range(Append(w, m)) = Range(w) \cup {m}
  BY AppendIs
<1>. QED  BY <1>1, <1>2

\* The answer of a query is expected.
LEMMA AnswerExpected ==
  ASSUME TypeOK, Expecting, toController # <<>>, Head(toController).by = "get", entity # None,
         Head(toController).access \notin stray
  PROVE  Head(toController).access \in entity.expected
<1> DEFINE m == Head(toController)
<1>1. m \in Messages /\ m \in Range(toController)
  BY HeadIs
<1>2. m.access \in Accesses
  BY <1>1 DEF Messages, Response, Notification
<1>3. m \in Of(<<"get", m.access>>)
  BY <1>1 DEF Of, Owner
<1>4. Pending(toController, toDevice, <<"get", m.access>>)
  BY <1>1, <1>3 DEF Pending, Has
<1>. QED  BY <1>2, <1>4 DEF Expecting, Expected

-----------------------------------------------------------------------------
(* What a step makes of the entity                                           *)

LEMMA StateOfIs ==
  /\ StateOf(Us) = "Held" /\ StateOf(None) = "NotHeld"
  /\ \A o \in Others : StateOf(o) = "HeldByOther"
BY ConstantsAssumption DEF StateOf

LEMMA SaysIs ==
  ASSUME NEW m \in Messages
  PROVE  /\ Says(m) \in States /\ m.access \in Accesses /\ m.release \in BOOLEAN /\ m.by \in Requesters
         /\ m.holder \in Holders /\ m.status \in Statuses
         /\ m.kind = "notification" => m.by = None
<1>1. /\ m.access \in Accesses /\ m.release \in BOOLEAN /\ m.by \in Requesters
      /\ m.holder \in Holders /\ m.status \in Statuses
      /\ m.kind = "notification" => m.by = None
  BY DEF Messages, Response, Notification, Requesters, Statuses
<1>2. StateOf(m.holder) \in States
  BY DEF StateOf, States
<1>3. InfoFromStatus(m) \in States
  BY <1>2 DEF InfoFromStatus, States
<1>. QED  BY <1>1, <1>2, <1>3 DEF Says

\* What of the entity a message, a call or a step of the enumeration leaves alone.
Same(e) ==
  /\ e \in Entity /\ e.advertised = entity.advertised /\ e.expected = entity.expected
  /\ e.step = entity.step /\ (e.milan => entity.milan)

LEMMA Updates ==
  ASSUME entity \in Entity, NEW m \in Messages
  PROVE  Same(Updated(m)) /\ Updated(m).state = [entity.state EXCEPT ![m.access] = Says(m)]
<1>1. Says(m) \in States /\ m.access \in Accesses
  BY SaysIs
<1>2. PICK b \in BOOLEAN : b = (entity.milan /\ (m.kind = "notification" \/ StillMilan(m)))
  OBVIOUS
<1>3. PICK t \in States : t = Says(m)
  BY <1>1
<1>4. Updated(m) = [entity EXCEPT !.state[m.access] = t, !.milan = b]
  BY <1>2, <1>3 DEF Updated, Says
<1>5. PICK e : e = [entity EXCEPT !.state[m.access] = t, !.milan = b]
  OBVIOUS
<1>6. /\ e \in Entity /\ e.advertised = entity.advertised /\ e.expected = entity.expected
      /\ e.step = entity.step /\ e.milan = b
  BY <1>5 DEF Entity
<1>7. e.state = [entity.state EXCEPT ![m.access] = t]
  BY <1>5 DEF Entity
<1>8. b => entity.milan
  BY <1>2
<1>. QED  BY <1>3, <1>4, <1>5, <1>6, <1>7, <1>8 DEF Same

LEMMA Retrying ==
  ASSUME entity \in Entity, NEW m \in Messages
  PROVE  Same(Retried(m)) /\ Retried(m).state = [entity.state EXCEPT ![m.access] = Says(m)]
<1>1. PICK e : e = Updated(m)
  OBVIOUS
<1>2. Same(e) /\ e.state = [entity.state EXCEPT ![m.access] = Says(m)]
  BY <1>1, Updates
<1>3. PICK f : f = [e EXCEPT !.retry = FALSE]
  OBVIOUS
<1>4. /\ f \in Entity /\ f.advertised = e.advertised /\ f.expected = e.expected /\ f.step = e.step
      /\ f.milan = e.milan /\ f.state = e.state
  BY <1>2, <1>3 DEF Entity, Same
<1>5. Retried(m) = f
  BY <1>1, <1>3 DEF Retried
<1>. QED  BY <1>2, <1>4, <1>5 DEF Same

LEMMA Learning ==
  ASSUME entity \in Entity, NEW m \in Messages, NEW last \in BOOLEAN
  PROVE  /\ Learnt(m, last) \in Entity /\ Learnt(m, last).advertised = last
         /\ Learnt(m, last).expected = entity.expected \ {m.access}
         /\ Learnt(m, last).step = entity.step /\ (Learnt(m, last).milan => entity.milan)
         /\ Learnt(m, last).state = [entity.state EXCEPT ![m.access] = Says(m)]
<1>1. PICK e : e = Updated(m)
  OBVIOUS
<1>2. Same(e) /\ e.state = [entity.state EXCEPT ![m.access] = Says(m)]
  BY <1>1, Updates
<1>3. PICK f : f = [e EXCEPT !.expected = @ \ {m.access}]
  OBVIOUS
<1>4. /\ f \in Entity /\ f.expected = entity.expected \ {m.access} /\ f.step = e.step
      /\ f.milan = e.milan /\ f.state = e.state
  BY <1>2, <1>3 DEF Entity, Same
<1>5. PICK g : g = [f EXCEPT !.advertised = last]
  OBVIOUS
<1>6. /\ g \in Entity /\ g.expected = f.expected /\ g.step = f.step /\ g.milan = f.milan
      /\ g.state = f.state /\ g.advertised = last
  BY <1>4, <1>5 DEF Entity
<1>7. Learnt(m, last) = g
  BY <1>1, <1>3, <1>5 DEF Learnt, Answered
<1>. QED  BY <1>2, <1>4, <1>6, <1>7 DEF Same

LEMMA Beginning ==
  ASSUME entity \in Entity, NEW access \in Accesses, NEW release \in BOOLEAN
  PROVE  LET e == Begun(access, release)
         IN  /\ Same(e) /\ InProgress(e.state[access])
             /\ \A a \in Accesses : a # access => e.state[a] = entity.state[a]
<1>1. PICK s \in States : s = (IF release THEN "ReleaseInProgress" ELSE "TakeInProgress") /\ InProgress(s)
  BY DEF States, InProgress
<1>2. PICK e : e = Begun(access, release)
  OBVIOUS
<1>3. e = [entity EXCEPT !.state[access] = s]
  BY <1>1, <1>2 DEF Begun
<1>4. /\ e \in Entity /\ e.advertised = entity.advertised /\ e.expected = entity.expected
      /\ e.step = entity.step /\ e.milan = entity.milan
  BY <1>3 DEF Entity
<1>5. e.state[access] = s /\ \A a \in Accesses : a # access => e.state[a] = entity.state[a]
  BY <1>3 DEF Entity
<1>. QED  BY <1>1, <1>2, <1>4, <1>5 DEF Same

LEMMA ReceiveIs ==
  ASSUME TypeOK, Expecting, Receive
  PROVE  \E m \in Messages : Ignores(m) \/ Retries(m) \/ Learns(m) \/ Revokes(m) \/ Tells(m) \/ Passes(m)
<1>1. network = None /\ ~over /\ toController # <<>>
  BY DEF Receive
<1>2. entity # None
  BY <1>1 DEF Expecting
<1>3. PICK m \in Messages : m = Head(toController)
  BY <1>1, HeadIs
<1>4. Reads(m)
  BY <1>1, <1>2, <1>3 DEF Receive, Reads
<1>5. CASE m.by = "get"
  <2>1. GetResult(m) /\ UNCHANGED <<tokenVars, pc, call, network>>
    BY <1>3, <1>5 DEF Receive
  <2>2. CASE m.access \notin entity.expected
    <3>1. m.access \in stray
      BY <1>1, <1>2, <1>3, <1>5, <2>2, AnswerExpected
    <3>. QED  BY <1>2, <1>4, <1>5, <2>1, <2>2, <3>1 DEF GetResult, Ignores
  <2>3. CASE m.access \in entity.expected /\ m.status = "TimedOut" /\ entity' = [Updated(m) EXCEPT !.retry = FALSE]
             /\ delayed' = delayed \cup {[access |-> m.access, stay |-> stays]}
    BY <1>4, <1>5, <2>1, <2>3 DEF Retries, Retried, Again
  <2>4. CASE m.access \in entity.expected /\ UNCHANGED delayed
             /\ \E last \in BOOLEAN : /\ last => Answered(m).expected = {}
                                      /\ entity' = [Answered(m) EXCEPT !.advertised = last]
    <3>1. Answered(m).expected = entity.expected \ {m.access}
      <4>1. entity \in Entity
        BY <1>2 DEF TypeOK
      <4>2. PICK e : e = Updated(m)
        OBVIOUS
      <4>3. e \in Entity /\ e.expected = entity.expected
        BY <4>1, <4>2, Updates DEF Same
      <4>. QED  BY <4>2, <4>3 DEF Answered, Entity
    <3>2. Answered(m).expected = {} => entity.expected \subseteq {m.access}
      BY <3>1
    <3>3. \E last \in BOOLEAN : (last => entity.expected \subseteq {m.access}) /\ entity' = Learnt(m, last)
      BY <2>4, <3>2 DEF Learnt
    <3>. QED  BY <1>4, <1>5, <2>1, <2>4, <3>3 DEF Learns
  <2>. QED  BY <1>2, <2>1, <2>2, <2>3, <2>4 DEF GetResult
<1>6. CASE m.by # "get"
  <2>1. Updated(m) # None
    <3>1. entity \in Entity
      BY <1>2 DEF TypeOK
    <3>. QED  BY <3>1, Updates, NoneIsApart DEF Same
  <2>2. /\ entity' = Updated(m) /\ UNCHANGED delayed
        /\ Continue(m.by, m.status, Revoked(Updated(m), m.access))
    BY <1>2, <1>3, <1>6, <2>1 DEF Receive
  <2>3. CASE Revoked(Updated(m), m.access) # {}
    BY <1>4, <1>6, <2>2, <2>3 DEF Continue, Revokes
  <2>4. CASE Revoked(Updated(m), m.access) = {} /\ m.by \in Users
    BY <1>4, <2>2, <2>4 DEF Continue, Tells
  <2>5. CASE Revoked(Updated(m), m.access) = {} /\ m.by \notin Users
    <3>1. m.by = None
      BY <1>6, <2>5, SaysIs DEF Requesters
    <3>. QED  BY <1>4, <2>2, <2>5, <3>1 DEF Continue, Passes
  <2>. QED  BY <2>3, <2>4, <2>5
<1>. QED  BY <1>5, <1>6

-----------------------------------------------------------------------------
(* What the device and the other controllers do                              *)

\* A command goes, its response comes.
Travels(c, m) ==
  /\ toDevice # <<>> /\ c = Head(toDevice) /\ toDevice' = Tail(toDevice)
  /\ toController' = Append(toController, m)
  /\ m.kind = "response" /\ m.access = c.access /\ m.release = c.release /\ m.by = c.by
  /\ UNCHANGED <<entity, tokenVars, userVars, network, stays, events, queryVars, over, failed, unreleased>>
Holds(c) ==
  IF Processed(c).status = "Success" THEN [device EXCEPT ![c.access] = Processed(c).holder] ELSE device
Replies(c, m) == Travels(c, m) /\ m = Processed(c) /\ device' = Holds(c) /\ UNCHANGED faults
Loses(c, m) ==
  /\ Travels(c, m) /\ m.status = "TimedOut" /\ device' \in {device, Holds(c)} /\ faults' = faults + 1

LEMMA RangeTravels ==
  ASSUME TypeOK, NEW c \in Request, NEW m \in Response, Travels(c, m)
  PROVE  Range(toDevice) = Range(toDevice') \cup {c} /\ Range(toController') = Range(toController) \cup {m}
<1>1. PICK q \in Seq(Request) : q = toDevice
  BY DEF TypeOK
<1>2. Range(q) = Range(Tail(q)) \cup {Head(q)}
  BY <1>1, TailIs DEF Travels
<1>3. m \in Messages
  BY DEF Messages
<1>. QED  BY <1>1, <1>2, <1>3, RangeTold DEF Travels

LEMMA ProcessedIs ==
  ASSUME NEW c \in Request
  PROVE  LET m == Processed(c)
         IN  /\ m \in Response /\ m.access = c.access /\ m.release = c.release /\ m.by = c.by
             /\ m.status \in {"Success", "HeldByOther", "NotSupported"}
             /\ m.status = "Success" => m.holder = (IF c.release THEN None ELSE Us)
             /\ m.status = "Success" \/ m.status = "HeldByOther" => c.access \in Implemented
             /\ m.status = "HeldByOther" => device[c.access] \in Others
             /\ m.status = "NotSupported" => c.access \notin Implemented
<1>0. c.access \in Accesses /\ c.release \in BOOLEAN /\ c.by \in Requesters
  BY DEF Request
<1>1. CASE c.access \notin Implemented
  <2>1. PICK m : m = Message("response", c, "NotSupported", None)
    OBVIOUS
  <2>2. m \in Response /\ m.access = c.access /\ m.release = c.release /\ m.by = c.by /\ m.status = "NotSupported"
    BY <1>0, <2>1 DEF Message, Response, Holders, Statuses
  <2>. QED  BY <1>1, <2>1, <2>2 DEF Processed
<1>2. CASE c.access \in Implemented /\ device[c.access] \in Others
  <2>1. PICK m : m = Message("response", c, "HeldByOther", device[c.access])
    OBVIOUS
  <2>2. m \in Response /\ m.access = c.access /\ m.release = c.release /\ m.by = c.by /\ m.status = "HeldByOther"
    BY <1>0, <1>2, <2>1 DEF Message, Response, Holders, Statuses
  <2>. QED  BY <1>2, <2>1, <2>2 DEF Processed
<1>3. CASE c.access \in Implemented /\ device[c.access] \notin Others
  <2>1. PICK h \in Holders : h = (IF c.release THEN None ELSE Us)
    BY DEF Holders
  <2>2. PICK m : m = Message("response", c, "Success", h)
    OBVIOUS
  <2>3. m \in Response /\ m.access = c.access /\ m.release = c.release /\ m.by = c.by /\ m.status = "Success"
        /\ m.holder = h
    BY <1>0, <2>2 DEF Message, Response, Holders, Statuses
  <2>. QED  BY <1>3, <2>1, <2>2, <2>3 DEF Processed
<1>. QED  BY <1>1, <1>2, <1>3

LEMMA HoldsIs ==
  ASSUME NEW c \in Request, device \in [Accesses -> Holders]
  PROVE  /\ Holds(c) \in [Accesses -> Holders]
         /\ \A a \in Accesses : a # c.access => Holds(c)[a] = device[a]
         /\ Processed(c).status = "Success" => Holds(c)[c.access] = Processed(c).holder
         /\ Processed(c).status # "Success" => Holds(c) = device
<1>1. c.access \in Accesses
  BY DEF Request
<1>2. PICK m \in Response : m = Processed(c)
  BY ProcessedIs
<1>3. m.holder \in Holders
  BY DEF Response
<1>. QED  BY <1>1, <1>2, <1>3 DEF Holds

LEMMA LostIs ==
  ASSUME NEW c \in Request
  PROVE  LET m == Message("response", c, "TimedOut", None)
         IN  /\ m \in Response /\ m.kind = "response" /\ m.access = c.access /\ m.release = c.release
             /\ m.by = c.by /\ m.status = "TimedOut"
<1>0. c.access \in Accesses /\ c.release \in BOOLEAN /\ c.by \in Requesters
  BY DEF Request
<1>. QED  BY <1>0 DEF Message, Response, Holders, Statuses

LEMMA ProcessIs ==
  ASSUME TypeOK, Process \/ Lose
  PROVE  \E c \in Request, m \in Response : Replies(c, m) \/ Loses(c, m)
<1>1. toDevice # <<>>
  BY DEF Process, Lose
<1>2. PICK c \in Request : c = Head(toDevice)
  BY <1>1, TailIs DEF TypeOK
<1>3. PICK l \in Response : /\ l = Message("response", c, "TimedOut", None)
                            /\ l.kind = "response" /\ l.access = c.access /\ l.release = c.release /\ l.by = c.by
                            /\ l.status = "TimedOut"
  BY LostIs
<1>4. PICK m \in Response : /\ m = Processed(c) /\ m.access = c.access /\ m.release = c.release /\ m.by = c.by
  BY ProcessedIs
<1>5. m.kind = "response"
  BY DEF Response
<1>6. CASE Process
  <2>1. device' = Holds(c)
    BY <1>2, <1>6 DEF Process, Holds
  <2>2. CASE toController' = Append(toController, m) /\ UNCHANGED faults
    <3>1. Travels(c, m)
      BY <1>1, <1>2, <1>4, <1>5, <1>6, <2>2 DEF Process, Travels
    <3>. QED  BY <1>4, <2>1, <2>2, <3>1 DEF Replies
  <2>3. CASE toController' = Append(toController, l) /\ faults' = faults + 1
    <3>1. Travels(c, l)
      BY <1>1, <1>2, <1>3, <1>6, <2>3 DEF Process, Travels
    <3>. QED  BY <1>3, <2>1, <2>3, <3>1 DEF Loses
  <2>. QED  BY <1>2, <1>3, <1>4, <1>6, <2>2, <2>3 DEF Process
<1>7. CASE Lose
  <2>1. Travels(c, l)
    BY <1>1, <1>2, <1>3, <1>7 DEF Lose, Travels, userVars
  <2>. QED  BY <1>3, <1>7, <2>1 DEF Lose, Loses
<1>. QED  BY <1>6, <1>7

\* Another access, and a message that says it when the entity is there.
News(access, holder) ==
  Message("notification", Command(access, holder = None, None), "Success", holder)
Changes(access, holder) ==
  /\ device[access] = None \/ holder = None
  /\ device' = [device EXCEPT ![access] = holder] /\ events' = events + 1
  /\ \/ entity # None /\ toController' = Append(toController, News(access, holder))
     \/ (entity = None \/ entity.step # "GetDynamicInfo") /\ UNCHANGED toController
  /\ UNCHANGED <<entity, tokenVars, userVars, network, toDevice, stays, faults, queryVars, over, failed, unreleased>>

LEMMA NewsIs ==
  ASSUME NEW access \in Accesses, NEW holder \in Holders
  PROVE  LET m == News(access, holder)
         IN  /\ m \in Notification /\ m.access = access /\ m.by = None /\ m.kind = "notification"
             /\ m.holder = holder
BY DEF News, Message, Command, Notification

LEMMA BecomesIs ==
  ASSUME OtherTakes \/ AccessEnds
  PROVE  \E access \in Implemented, holder \in Others \cup {None} : Changes(access, holder)
<1>1. ASSUME NEW a \in Implemented, NEW h, Becomes(a, h), device[a] = None \/ h = None PROVE Changes(a, h)
  <2>1. PICK told \in {entity # None, Registered} :
          toController' = IF told THEN Append(toController, News(a, h)) ELSE toController
    BY <1>1 DEF Becomes, News
  <2>2. told => entity # None
    BY <2>1 DEF Registered
  <2>3. ~told => entity = None \/ entity.step # "GetDynamicInfo"
    BY <2>1 DEF Registered
  <2>. QED  BY <1>1, <2>1, <2>2, <2>3 DEF Becomes, Changes
<1>2. CASE OtherTakes
  <2>1. PICK a \in Implemented, o \in Others : device[a] = None /\ Becomes(a, o)
    BY <1>2 DEF OtherTakes
  <2>. QED  BY <1>1, <2>1
<1>3. CASE AccessEnds
  <2>1. PICK a \in Implemented : Becomes(a, None)
    BY <1>3 DEF AccessEnds
  <2>. QED  BY <1>1, <2>1
<1>. QED  BY <1>2, <1>3

-----------------------------------------------------------------------------
(* The other steps                                                           *)

Invalidates(u) ==
  /\ network # None /\ u \in network.tokens /\ ~TokenLocked(u)
  /\ network' = [network EXCEPT !.tokens = @ \ {u}]
  /\ \/ tokens[u] = None /\ failed' = failed \cup {"Token used after its end"} /\ UNCHANGED tokens
     \/ tokens[u] # None /\ tokens' = [tokens EXCEPT ![u].valid = FALSE] /\ UNCHANGED failed
  /\ UNCHANGED <<entity, registered, userVars, toDevice, toController, queryVars, worldVars, over, unreleased>>
\* The network's thread has invalidated all: the user it is about is answered.
Concludes ==
  /\ network # None /\ network.tokens = {} /\ network' = None
  /\ (network.by \in Users /\ Answer(network.by, network.status)) \/ (network.by \notin Users /\ UNCHANGED <<tokenVars, pc, call>>)
  /\ UNCHANGED <<entity, calls, toDevice, toController, queryVars, worldVars, over, failed, unreleased>>
Released(a) ==
  IF entity # None /\ MustRelease(entity.state[a]) THEN <<Command(a, TRUE, None)>> ELSE <<>>

\* The enumeration goes on: before the queries are sent, with the queries, until the
\* entity is advertised.
Prepares ==
  /\ entity # None /\ ~over /\ entity.step # "GetDynamicInfo"
  /\ entity' \in Entity /\ entity'.advertised = entity.advertised /\ entity'.expected = entity.expected
  /\ entity'.step # "GetDynamicInfo" /\ (entity'.milan => entity.milan \/ Milan)
  /\ entity'.state = entity.state
  /\ UNCHANGED <<tokenVars, userVars, network, toDevice, toController, queryVars, worldVars,
                 over, failed, unreleased>>
QueryOf(a) == Command(a, TRUE, "get")
Questions ==
  /\ entity # None /\ ~over /\ entity.step # "GetDynamicInfo"
  /\ entity' \in Entity /\ entity'.advertised = entity.advertised /\ entity'.step = "GetDynamicInfo"
  /\ entity'.expected = Queried(entity.milan) /\ entity'.milan = entity.milan
  /\ \A a \in Accesses : entity'.state[a] = (IF a \in Queried(entity.milan) THEN entity.state[a] ELSE "NotSupported")
  /\ toDevice' = IF entity.milan THEN Append(toDevice, QueryOf("Lock"))
                 ELSE Append(Append(toDevice, QueryOf("Acquire")), QueryOf("Lock"))
  /\ UNCHANGED <<tokenVars, userVars, network, toController, queryVars, worldVars, over, failed, unreleased>>
Publishes ==
  /\ entity # None /\ ~over /\ entity.step = "GetDynamicInfo" /\ entity.expected = {}
  /\ entity' \in Entity /\ entity'.advertised /\ entity'.expected = {} /\ entity'.step = entity.step
  /\ entity'.milan = entity.milan /\ entity'.state = entity.state
  /\ UNCHANGED <<tokenVars, userVars, network, toDevice, toController, queryVars, worldVars,
                 over, failed, unreleased>>
\* A query is sent again, when there is an entity.
Resends(q) ==
  /\ entity # None /\ ~over /\ q \in delayed /\ delayed' = delayed \ {q}
  /\ toDevice' = Append(toDevice, QueryOf(q.access))
  /\ stray' = stray \cup {a \in {q.access} : q.stay # stays}
  /\ UNCHANGED <<entity, tokenVars, userVars, network, toController, worldVars, over, failed, unreleased>>
Abandons(q) ==
  /\ entity = None /\ q \in delayed /\ delayed' = delayed \ {q}
  /\ UNCHANGED <<entity, tokenVars, userVars, network, toDevice, toController, stray, worldVars,
                 over, failed, unreleased>>

\* What users ask for: tokens of the types there are, or, themselves, what they may.
Asked(c) ==
  /\ c.token => ~c.release /\ c.access \in TokenTypes
  /\ c.token \/ c.release \/ "take" \in Direct
AskStep == \/ \E u \in Users, c \in Call : Asked(c) /\ Begins(u, c)
           \/ \E u \in Users, a \in TokenTypes : Granted(u, a)
           \/ Refused
CallStep == \/ \E u \in Users, c \in Call : (c.token => ~c.release) /\ Begins(u, c)
            \/ \E u \in Users, a \in Accesses : Granted(u, a)
            \/ Refused
SendStep == \E u \in Users : Sent(u) \/ Unsent(u) \/ SendRelease(u)
DropStep == \E u \in Users : Drops(u) \/ ReleaseBegins(u)
TokenStep == \E u \in Users : Destroys(u) \/ ReleaseBegins(u)
ReadStep == \E m \in Messages : Ignores(m) \/ Retries(m) \/ Learns(m) \/ Revokes(m) \/ Tells(m) \/ Passes(m)
RevokeStep == Concludes \/ \E u \in Users : Invalidates(u)
StayStep == OnEntityOnline \/ OnEntityOffline \/ Shutdown
EnumStep == Prepares \/ Questions \/ Publishes \/ \E q \in Query : Resends(q) \/ Abandons(q)
DeviceStep == \/ \E c \in Request, m \in Response : Replies(c, m) \/ Loses(c, m)
              \/ \E a \in Implemented, h \in Others \cup {None} : Changes(a, h)

LEMMA PreparesIs ==
  ASSUME TypeOK, OnGetMilanInfoResult \/ OnRegisterUnsolicitedNotificationsResult
  PROVE  Prepares
<1>1. /\ entity \in Entity /\ entity # None /\ ~over /\ entity.step # "GetDynamicInfo" /\ Milan \in BOOLEAN
  BY ConstantsAssumption DEF TypeOK, Enumerates, OnGetMilanInfoResult, OnRegisterUnsolicitedNotificationsResult
<1>2. UNCHANGED <<tokenVars, userVars, network, toDevice, toController, queryVars, worldVars,
                  over, failed, unreleased>>
  BY DEF OnGetMilanInfoResult, OnRegisterUnsolicitedNotificationsResult
<1>3. PICK b \in BOOLEAN, s \in Steps :
        /\ entity' = [entity EXCEPT !.milan = b, !.step = s] /\ (b => entity.milan \/ Milan)
        /\ s # "GetDynamicInfo"
  <2>1. CASE OnGetMilanInfoResult
    BY <1>1, <2>1 DEF OnGetMilanInfoResult, Steps
  <2>2. CASE OnRegisterUnsolicitedNotificationsResult
    <3>1. [entity EXCEPT !.milan = entity.milan, !.step = "GetStaticModel"] = [entity EXCEPT !.step = "GetStaticModel"]
      BY <1>1 DEF Entity
    <3>. QED  BY <1>1, <2>2, <3>1 DEF OnRegisterUnsolicitedNotificationsResult, Steps, Entity
  <2>. QED  BY <2>1, <2>2
<1>4. /\ entity' \in Entity /\ entity'.advertised = entity.advertised /\ entity'.expected = entity.expected
      /\ entity'.step = s /\ entity'.milan = b /\ entity'.state = entity.state
  BY <1>1, <1>3 DEF Entity
<1>. QED  BY <1>1, <1>2, <1>3, <1>4 DEF Prepares

LEMMA TwoMore ==
  ASSUME NEW w \in Seq(Request), NEW c \in Request, NEW d \in Request
  PROVE  w \o <<c>> = Append(w, c) /\ w \o <<c, d>> = Append(Append(w, c), d)
OBVIOUS

LEMMA QueryIs ==
  ASSUME NEW a \in Accesses
  PROVE  QueryOf(a) \in Request /\ QueryOf(a).access = a /\ QueryOf(a).release /\ QueryOf(a).by = "get"
BY DEF QueryOf, Command, Request, Requesters

LEMMA QuestionsIs ==
  ASSUME TypeOK, GetDynamicInfo PROVE Questions
<1>1. entity \in Entity /\ entity # None /\ ~over /\ entity.step # "GetDynamicInfo" /\ entity.milan \in BOOLEAN
  BY DEF TypeOK, Enumerates, GetDynamicInfo, Entity
<1>2. PICK t \in [Accesses -> States] :
        t = [a \in Accesses |-> IF a \in Queried(entity.milan) THEN entity.state[a] ELSE "NotSupported"]
  BY <1>1 DEF Entity, States
<1>3. PICK x \in SUBSET Accesses : x = Queried(entity.milan)
  BY DEF Queried, Accesses
<1>4. entity' = [entity EXCEPT !.step = "GetDynamicInfo", !.expected = x, !.state = t]
  BY <1>2, <1>3 DEF GetDynamicInfo
<1>5. /\ entity' \in Entity /\ entity'.advertised = entity.advertised /\ entity'.expected = x
      /\ entity'.step = "GetDynamicInfo" /\ entity'.milan = entity.milan /\ entity'.state = t
  BY <1>1, <1>4 DEF Entity, Steps
<1>6. /\ toDevice \in Seq(Request)
      /\ QueryOf("Acquire") \in Request /\ QueryOf("Lock") \in Request
  BY QueryIs DEF TypeOK, Accesses
<1>7. toDevice' = IF entity.milan THEN Append(toDevice, QueryOf("Lock"))
                  ELSE Append(Append(toDevice, QueryOf("Acquire")), QueryOf("Lock"))
  BY <1>6, TwoMore DEF GetDynamicInfo, Queries, QueryOf
<1>. QED  BY <1>1, <1>2, <1>3, <1>5, <1>7 DEF Questions, GetDynamicInfo

LEMMA PublishesIs ==
  ASSUME TypeOK, Advertise PROVE Publishes
<1>1. entity \in Entity /\ entity # None /\ ~over /\ entity.step = "GetDynamicInfo" /\ entity.expected = {}
  BY DEF TypeOK, Enumerates, Advertise
<1>2. entity' = [entity EXCEPT !.advertised = TRUE]
  BY DEF Advertise
<1>3. /\ entity' \in Entity /\ entity'.advertised /\ entity'.expected = {} /\ entity'.step = entity.step
      /\ entity'.milan = entity.milan /\ entity'.state = entity.state
  BY <1>1, <1>2 DEF Entity
<1>. QED  BY <1>1, <1>3 DEF Publishes, Advertise

LEMMA SendDelayedIs ==
  ASSUME TypeOK, SendDelayed PROVE \E q \in Query : Resends(q) \/ Abandons(q)
<1>1. PICK q \in delayed :
        /\ delayed' = delayed \ {q}
        /\ IF entity = None THEN UNCHANGED <<toDevice, stray>>
           ELSE /\ toDevice' = Append(toDevice, Command(q.access, TRUE, "get"))
                /\ stray' = stray \cup {a \in {q.access} : q.stay # stays}
  BY DEF SendDelayed
<1>2. q \in Query
  BY DEF TypeOK
<1>3. CASE entity # None
  BY <1>1, <1>2, <1>3 DEF SendDelayed, Resends, QueryOf
<1>4. CASE entity = None
  BY <1>1, <1>2, <1>4 DEF SendDelayed, Abandons
<1>. QED  BY <1>3, <1>4

LEMMA FineStepIs ==
  ASSUME TypeOK, Expecting, Next
  PROVE  AskStep \/ SendStep \/ DropStep \/ ReadStep \/ RevokeStep \/ StayStep \/ EnumStep \/ DeviceStep
<1>0. stays \in Nat
  BY DEF TypeOK
<1>1. ASSUME NEW u \in Users, RequestExclusiveAccess(u) PROVE AskStep
  <2>1. PICK a \in TokenTypes : Calls(u, a, FALSE, TRUE)
    BY <1>1 DEF RequestExclusiveAccess
  <2>2. a \in Accesses
    BY ConstantsAssumption DEF Accesses
  <2>3. \/ \E c \in Call : c.access = a /\ ~c.release /\ c.token /\ Begins(u, c)
        \/ Granted(u, a)
        \/ Refused
    BY <1>0, <2>1, <2>2, CallIs
  <2>. QED  BY <2>3 DEF AskStep, Asked
<1>2. ASSUME NEW u \in Users, CallDirectly(u) PROVE AskStep
  <2>1. PICK a \in Accesses, what \in Direct : Calls(u, a, what = "release", FALSE)
    BY <1>2 DEF CallDirectly
  <2>2. PICK b \in BOOLEAN : b = (what = "release")
    OBVIOUS
  <2>3. Calls(u, a, b, FALSE)
    BY <2>1, <2>2
  <2>4. (\E c \in Call : c.release = b /\ ~c.token /\ Begins(u, c)) \/ Refused
    <3>1. PICK t \in BOOLEAN : t = FALSE
      OBVIOUS
    <3>2. Calls(u, a, b, t)
      BY <2>3, <3>1
    <3>3. \/ \E c \in Call : c.access = a /\ c.release = b /\ c.token = t /\ Begins(u, c)
          \/ t /\ Granted(u, a)
          \/ Refused
      BY <1>0, <3>1, <3>2, CallIs
    <3>. QED  BY <3>1, <3>3
  <2>5. b \/ "take" \in Direct
    BY <2>2, ConstantsAssumption
  <2>. QED  BY <2>4, <2>5 DEF AskStep, Asked
<1>3. ASSUME NEW u \in Users, UserStep(u) PROVE SendStep \/ DropStep
  BY <1>3, SendIs, DestroyIs, ReleaseIs DEF UserStep, SendStep, DropStep
<1>4. ASSUME NEW u \in Users, DestroyToken(u) PROVE DropStep
  BY <1>4, DestroyIs DEF DropStep
<1>5. ASSUME NetworkStep PROVE ReadStep \/ RevokeStep
  <2>1. CASE Receive
    BY <2>1, ReceiveIs DEF ReadStep
  <2>2. CASE InvalidateToken
    <3>1. PICK u \in network.tokens :
            /\ ~TokenLocked(u) /\ network' = [network EXCEPT !.tokens = @ \ {u}]
            /\ \/ tokens[u] = None /\ failed' = failed \cup {"Token used after its end"} /\ UNCHANGED tokens
               \/ tokens[u] # None /\ tokens' = [tokens EXCEPT ![u].valid = FALSE] /\ UNCHANGED failed
      BY <2>2 DEF InvalidateToken
    <3>2. network \in Invalidation
      BY <2>2 DEF InvalidateToken, TypeOK
    <3>3. u \in Users
      BY <3>2 DEF Invalidation
    <3>4. Invalidates(u)
      BY <2>2, <3>1 DEF InvalidateToken, Invalidates
    <3>. QED  BY <3>3, <3>4 DEF RevokeStep
  <2>3. CASE TokensInvalidated
    BY <2>3 DEF TokensInvalidated, Concludes, RevokeStep
  <2>. QED  BY <1>5, <2>1, <2>2, <2>3 DEF NetworkStep
<1>6. CASE Process \/ Lose \/ OtherTakes \/ AccessEnds
  BY <1>6, ProcessIs, BecomesIs DEF DeviceStep
<1>7. CASE OnGetMilanInfoResult \/ OnRegisterUnsolicitedNotificationsResult \/ GetDynamicInfo \/ Advertise \/ SendDelayed
  BY <1>7, PreparesIs, QuestionsIs, PublishesIs, SendDelayedIs DEF EnumStep
<1>. QED  BY <1>1, <1>2, <1>3, <1>4, <1>5, <1>6, <1>7 DEF Next, StayStep

LEMMA StepIs ==
  ASSUME AskStep \/ SendStep \/ DropStep \/ ReadStep \/ RevokeStep \/ StayStep \/ EnumStep \/ DeviceStep
  PROVE  CallStep \/ SendStep \/ TokenStep \/ ReadStep \/ RevokeStep \/ StayStep \/ EnumStep \/ DeviceStep
<1>1. TokenTypes \subseteq Accesses
  BY ConstantsAssumption DEF Accesses
<1>2. AskStep => CallStep
  BY <1>1 DEF AskStep, CallStep, Asked
<1>3. DropStep => TokenStep
  BY DEF DropStep, TokenStep, Drops
<1>. QED  BY <1>2, <1>3

-----------------------------------------------------------------------------
(* Types, and what threads work on                                           *)

LEMMA InvInit == Init => Inv
<1> SUFFICES ASSUME Init PROVE Inv
  OBVIOUS
<1>1. TypeOK
  <2>1. toDevice \in Seq(Request) /\ toController \in Seq(Messages)
    BY DEF Init
  <2>2. device \in [Accesses -> Holders]
    BY DEF Init, Holders
  <2>3. pc \in [Users -> Places] /\ call \in [Users -> Call \cup {None}] /\ tokens \in [Users -> Token \cup {None}]
    BY DEF Init, Places
  <2>. QED  BY <2>1, <2>2, <2>3 DEF Init, TypeOK
<1>2. Threads
  BY NoneIsApart DEF Init, Threads, Thread, TokenLocked
<1>3. Waiting /\ InTime
  BY NothingPending, EmptyIs DEF Init, Waiting, Waits, InTime, Timely
<1>4. Expecting
  BY NothingPending DEF Init, Expecting, Expected
<1>5. Answers
  BY EmptyIs DEF Init, Answers
<1>6. Following /\ Certain
  BY DEF Init, Following, Questioned, Certain
<1>. QED  BY <1>1, <1>2, <1>3, <1>4, <1>5, <1>6 DEF Inv

LEMMA InvStutter ==
  ASSUME Inv, UNCHANGED vars PROVE Inv'
<1>1. UNCHANGED <<entity, tokens, registered, pc, call, network, toDevice, toController,
                  delayed, device, over, failed, stray, unreleased, calls, stays, events, faults>>
  BY DEF vars
<1>2. TypeOK'
  BY <1>1 DEF Inv, TypeOK
<1>3. Threads'
  BY <1>1 DEF Inv, Threads, Thread, TokenLocked
<1>4. Waiting' /\ InTime'
  BY <1>1 DEF Inv, Waiting, Waits, Awaits, InTime, Timely
<1>5. Expecting'
  BY <1>1 DEF Inv, Expecting, Expected, Again
<1>6. Answers'
  BY <1>1 DEF Inv, Answers, IsFit
<1>7. Following'
  BY <1>1 DEF Inv, Following, Questioned, InQuestion, Follows, IsTrue, Underway, Sends, Releases
<1>8. Certain'
  BY <1>1 DEF Inv, Certain, Holding, Questioned, InQuestion, Ended, Given, Valid, Held, Revoking, TokenLocked
<1>. QED  BY <1>2, <1>3, <1>4, <1>5, <1>6, <1>7, <1>8 DEF Inv

\* An answer keeps the types; it gives a token only to a call that asked for one.
LEMMA AnswerIs ==
  ASSUME TypeOK, NEW u \in Users, call[u] \in Call, NEW status, Answer(u, status)
  PROVE  /\ pc' = [pc EXCEPT ![u] = "idle"] /\ call' = [call EXCEPT ![u] = None]
         /\ tokens' \in [Users -> Token \cup {None}] /\ registered' \in SUBSET Users
         /\ \/ UNCHANGED <<tokens, registered>>
            \/ /\ call[u].token /\ status = "Success" /\ call[u].access \in Accesses
               /\ tokens' = [tokens EXCEPT ![u] = [access |-> call[u].access, valid |-> TRUE, stay |-> call[u].stay]]
               /\ registered' = registered \cup {u}
<1>1. pc' = [pc EXCEPT ![u] = "idle"] /\ call' = [call EXCEPT ![u] = None]
  BY DEF Answer
<1>2. call[u].access \in Accesses /\ call[u].stay \in Nat
  BY DEF Call
<1>3. CASE call[u].token /\ status = "Success"
  <2>1. PICK t \in Token : t = [access |-> call[u].access, valid |-> TRUE, stay |-> call[u].stay]
    BY <1>2 DEF TypeOK, Token
  <2>2. tokens' = [tokens EXCEPT ![u] = t] /\ registered' = registered \cup {u}
    BY <1>3, <2>1 DEF Answer
  <2>. QED  BY <1>1, <1>2, <1>3, <2>1, <2>2 DEF TypeOK
<1>4. CASE ~(call[u].token /\ status = "Success")
  BY <1>1, <1>4 DEF Answer, TypeOK, tokenVars
<1>. QED  BY <1>3, <1>4

LEMMA TypesOfCalls ==
  ASSUME TypeOK, CallStep PROVE TypeOK'
<1>0. calls' \in Nat
  <2>1. calls' = calls + 1
    BY DEF CallStep, Begins, Granted, Refused
  <2>2. calls \in Nat
    BY DEF TypeOK
  <2>. QED  BY <2>1, <2>2
<1>1. ASSUME NEW u \in Users, NEW c \in Call, Begins(u, c) PROVE TypeOK'
  <2>1. entity' \in Entity
    <3>1. entity \in Entity /\ c.access \in Accesses /\ c.release \in BOOLEAN
      BY <1>1 DEF Begins, Advertised, Call, TypeOK
    <3>. QED  BY <1>1, <3>1, Beginning DEF Begins, Same
  <2>2. pc' \in [Users -> Places] /\ call' \in [Users -> Call \cup {None}]
    BY <1>1 DEF Begins, TypeOK, Places
  <2>. QED  BY <1>0, <1>1, <2>1, <2>2 DEF Begins, TypeOK, tokenVars, worldVars, queryVars
<1>2. ASSUME NEW u \in Users, NEW a \in Accesses, Granted(u, a) PROVE TypeOK'
  <2>1. PICK t \in Token : t = [access |-> a, valid |-> TRUE, stay |-> stays]
    BY DEF Token, TypeOK
  <2>2. tokens' \in [Users -> Token \cup {None}] /\ registered' \in SUBSET Users
    BY <1>2, <2>1 DEF Granted, TypeOK
  <2>. QED  BY <1>0, <1>2, <2>2 DEF Granted, TypeOK, worldVars, queryVars
<1>3. CASE Refused
  BY <1>0, <1>3 DEF Refused, TypeOK, tokenVars, worldVars, queryVars
<1>. QED  BY <1>1, <1>2, <1>3 DEF CallStep

LEMMA TypesOfSends ==
  ASSUME TypeOK, Threads, SendStep PROVE TypeOK'
<1>1. ASSUME NEW u \in Users, Sent(u) PROVE TypeOK'
  <2>1. call[u] \in Call
    BY <1>1 DEF Sent, Threads, Thread
  <2>2. Command(call[u].access, call[u].release, u) \in Request
    BY <2>1 DEF Command, Request, Call, Requesters
  <2>3. toDevice' \in Seq(Request)
    BY <1>1, <2>2, AppendIs DEF Sent, TypeOK
  <2>4. pc' \in [Users -> Places]
    BY <1>1 DEF Sent, TypeOK, Places
  <2>. QED  BY <1>1, <2>3, <2>4 DEF Sent, TypeOK, tokenVars, worldVars, queryVars
<1>2. ASSUME NEW u \in Users, Unsent(u) PROVE TypeOK'
  <2>1. pc' \in [Users -> Places] /\ call' \in [Users -> Call \cup {None}]
    BY <1>2 DEF Unsent, RepliedTo, TypeOK, Places
  <2>. QED  BY <1>2, <2>1 DEF Unsent, RepliedTo, TypeOK, tokenVars, worldVars, queryVars
<1>3. ASSUME NEW u \in Users, SendRelease(u) PROVE TypeOK'
  <2>1. tokens[u].access \in Accesses
    BY <1>3 DEF SendRelease, Threads, Thread, TokenLocked, Token
  <2>2. Command(tokens[u].access, TRUE, None) \in Request
    BY <2>1 DEF Command, Request, Requesters
  <2>3. toDevice' \in Seq(Request)
    BY <1>3, <2>2, AppendIs DEF SendRelease, TypeOK
  <2>4. pc' \in [Users -> Places] /\ tokens' \in [Users -> Token \cup {None}]
    BY <1>3 DEF SendRelease, TypeOK, Places
  <2>. QED  BY <1>3, <2>3, <2>4 DEF SendRelease, TypeOK, worldVars, queryVars
<1>. QED  BY <1>1, <1>2, <1>3 DEF SendStep

LEMMA TypesOfTokens ==
  ASSUME TypeOK, Threads, TokenStep PROVE TypeOK'
<1>1. ASSUME NEW u \in Users, Destroys(u) PROVE TypeOK'
  <2>1. pc' \in [Users -> Places]
    BY <1>1 DEF Destroys, Forgets, TypeOK, Places
  <2>2. tokens' \in [Users -> Token \cup {None}]
    BY <1>1 DEF Destroys, Forgets, TypeOK
  <2>3. registered' \in SUBSET Users
    BY <1>1 DEF Destroys, Forgets, TypeOK
  <2>. QED  BY <1>1, <2>1, <2>2, <2>3 DEF Destroys, TypeOK, worldVars, queryVars
<1>2. ASSUME NEW u \in Users, ReleaseBegins(u) PROVE TypeOK'
  <2>1. tokens[u].access \in Accesses
    BY <1>2 DEF ReleaseBegins, Threads, Thread, TokenLocked, Token
  <2>2. entity \in Entity
    BY <1>2 DEF ReleaseBegins, Advertised, TypeOK
  <2>3. entity' \in Entity
    BY <1>2, <2>1, <2>2, Beginning DEF ReleaseBegins, Same
  <2>4. pc' \in [Users -> Places]
    BY <1>2 DEF ReleaseBegins, TypeOK, Places
  <2>. QED  BY <1>2, <2>3, <2>4 DEF ReleaseBegins, TypeOK, tokenVars, worldVars, queryVars
<1>. QED  BY <1>1, <1>2 DEF TokenStep

\* A user that is told something waits for it.
LEMMA Awaited ==
  ASSUME TypeOK, Threads, Waiting, NEW m \in Messages, Reads(m), m.by \in Users
  PROVE  /\ m.by \in Users /\ Awaits(m.by, m) /\ call[m.by] \in Call
         /\ call[m.by].token => ~m.release
<1>1. m \in Range(toController)
  BY HeadIs DEF Reads
<1>2. Awaits(m.by, m)
  BY <1>1 DEF Waiting, Waits
<1>. QED  BY <1>2 DEF Threads, Thread, Awaits

LEMMA AgainIs ==
  ASSUME TypeOK, NEW a \in Accesses
  PROVE  Again(a) \in Query /\ Again(a).access = a /\ Again(a).stay = stays
BY DEF Again, Query, TypeOK

LEMMA TypesOfReads ==
  ASSUME TypeOK, Threads, Waiting, ReadStep PROVE TypeOK'
<1> SUFFICES ASSUME NEW m \in Messages, Ignores(m) \/ Retries(m) \/ Learns(m) \/ Revokes(m) \/ Tells(m) \/ Passes(m) PROVE TypeOK'
  BY DEF ReadStep
<1>1. /\ Reads(m) /\ toController' \in Seq(Messages) /\ entity \in Entity /\ m.access \in Accesses
      /\ m.status \in Statuses /\ m.by \in Requesters
  BY HeadIs, SaysIs DEF Ignores, Retries, Learns, Revokes, Tells, Passes, Reads, TypeOK
<1>2. UNCHANGED <<calls, toDevice, stray, worldVars, over, failed, unreleased>>
  BY <1>1 DEF Reads
<1>a. CASE Ignores(m)
  BY <1>1, <1>2, <1>a DEF Ignores, TypeOK, tokenVars, worldVars
<1>3. CASE Retries(m)
  <2>1. entity' \in Entity
    BY <1>1, <1>3, Retrying DEF Retries, Same
  <2>2. delayed' \in SUBSET Query
    BY <1>1, <1>3, AgainIs DEF Retries, TypeOK
  <2>. QED  BY <1>1, <1>2, <1>3, <2>1, <2>2 DEF Retries, TypeOK, tokenVars, worldVars
<1>4. CASE Learns(m)
  <2>1. PICK last \in BOOLEAN : entity' = Learnt(m, last)
    BY <1>4 DEF Learns
  <2>2. entity' \in Entity
    BY <1>1, <2>1, Learning
  <2>. QED  BY <1>1, <1>2, <1>4, <2>2 DEF Learns, TypeOK, tokenVars, worldVars
<1>5. CASE Revokes(m)
  <2>1. entity' \in Entity
    BY <1>1, <1>5, Updates DEF Revokes, Same
  <2>2. PICK r \in SUBSET Users : r = Revoked(Updated(m), m.access)
    <3>1. Revoked(Updated(m), m.access) \in SUBSET Users
      BY DEF Revoked, TypeOK
    <3>. QED  BY <3>1
  <2>3. network' = [tokens |-> r, by |-> m.by, status |-> m.status]
    BY <1>5, <2>2 DEF Revokes
  <2>4. m.by \in Users \cup {None}
    BY <1>1, <1>5 DEF Revokes, Requesters
  <2>5. network' \in Invalidation
    BY <1>1, <2>3, <2>4 DEF Invalidation
  <2>6. registered' \in SUBSET Users
    BY <1>5 DEF Revokes, TypeOK
  <2>. QED  BY <1>1, <1>2, <1>5, <2>1, <2>5, <2>6 DEF Revokes, TypeOK, tokenVars, worldVars, queryVars
<1>6. CASE Tells(m)
  <2>1. entity' \in Entity
    BY <1>1, <1>6, Updates DEF Tells, Same
  <2>2. m.by \in Users /\ call[m.by] \in Call
    BY <1>1, <1>6, Awaited DEF Tells
  <2>3. Answer(m.by, m.status)
    BY <1>6 DEF Tells
  <2>4. /\ pc' = [pc EXCEPT ![m.by] = "idle"] /\ call' = [call EXCEPT ![m.by] = None]
        /\ tokens' \in [Users -> Token \cup {None}] /\ registered' \in SUBSET Users
    BY <2>2, <2>3, AnswerIs
  <2>5. pc' \in [Users -> Places] /\ call' \in [Users -> Call \cup {None}]
    BY <2>4 DEF TypeOK, Places
  <2>. QED  BY <1>1, <1>2, <1>6, <2>1, <2>4, <2>5 DEF Tells, TypeOK, worldVars, queryVars
<1>7. CASE Passes(m)
  <2>1. entity' \in Entity
    BY <1>1, <1>7, Updates DEF Passes, Same
  <2>. QED  BY <1>1, <1>2, <1>7, <2>1 DEF Passes, TypeOK, tokenVars, worldVars, queryVars
<1>. QED  BY <1>a, <1>3, <1>4, <1>5, <1>6, <1>7

LEMMA TypesOfRevocations ==
  ASSUME TypeOK, Threads, Waiting, RevokeStep PROVE TypeOK'
<1>1. ASSUME NEW u \in Users, Invalidates(u) PROVE TypeOK'
  <2>1. network \in Invalidation
    BY <1>1 DEF Invalidates, TypeOK
  <2>2. network' \in Invalidation
    BY <1>1, <2>1 DEF Invalidates, Invalidation
  <2>3. tokens' \in [Users -> Token \cup {None}]
    <3>1. CASE tokens[u] = None
      BY <1>1, <3>1 DEF Invalidates, TypeOK
    <3>2. CASE tokens[u] # None
      <4>1. PICK t \in Token : t = [tokens[u] EXCEPT !.valid = FALSE]
        BY <3>2 DEF TypeOK, Token
      <4>2. tokens' = [tokens EXCEPT ![u] = t]
        BY <1>1, <3>2, <4>1 DEF Invalidates
      <4>. QED  BY <4>2 DEF TypeOK
    <3>. QED  BY <3>1, <3>2
  <2>4. failed' \in SUBSET {"Token reference not found", "Token used after its end"}
    BY <1>1 DEF Invalidates, TypeOK
  <2>. QED  BY <1>1, <2>2, <2>3, <2>4 DEF Invalidates, TypeOK, userVars, worldVars, queryVars
<1>2. CASE Concludes
  <2>1. CASE network.by \in Users
    <3>1. call[network.by] \in Call /\ Answer(network.by, network.status)
      BY <1>2, <2>1 DEF Concludes, Waiting, Waits, Threads, Thread
    <3>2. /\ pc' = [pc EXCEPT ![network.by] = "idle"] /\ call' = [call EXCEPT ![network.by] = None]
          /\ tokens' \in [Users -> Token \cup {None}] /\ registered' \in SUBSET Users
      BY <2>1, <3>1, AnswerIs
    <3>3. pc' \in [Users -> Places] /\ call' \in [Users -> Call \cup {None}]
      BY <3>2 DEF TypeOK, Places
    <3>. QED  BY <1>2, <3>2, <3>3 DEF Concludes, TypeOK, worldVars, queryVars
  <2>2. CASE network.by \notin Users
    BY <1>2, <2>2 DEF Concludes, TypeOK, tokenVars, worldVars, queryVars
  <2>. QED  BY <2>1, <2>2
<1>. QED  BY <1>1, <1>2 DEF RevokeStep

LEMMA TypesOfStays ==
  ASSUME TypeOK, Threads, Expecting, StayStep PROVE TypeOK'
<1>1. CASE OnEntityOnline
  <2>1. entity' \in Entity
    <3>1. PICK s \in [Accesses -> States] : s = [a \in Accesses |-> "Undefined"]
      BY DEF States
    <3>2. entity' = [advertised |-> FALSE, milan |-> FALSE, step |-> "GetMilanInfo", expected |-> {},
                     retry |-> TRUE, state |-> s]
      BY <1>1, <3>1 DEF OnEntityOnline
    <3>. QED  BY <3>2 DEF Entity, Steps
  <2>3. stays' \in Nat
    <3>1. stays \in Nat
      BY DEF TypeOK
    <3>. QED  BY <1>1, <3>1 DEF OnEntityOnline
  <2>. QED  BY <1>1, <2>1, <2>3 DEF OnEntityOnline, TypeOK, tokenVars, userVars, queryVars
<1>2. CASE OnEntityOffline
  <2>1. toDevice' \in Seq(Request) /\ toController' \in Seq(Messages)
    BY <1>2 DEF OnEntityOffline
  <2>2. device' \in [Accesses -> Holders]
    BY <1>2 DEF OnEntityOffline, TypeOK, Holders
  <2>3. pc' \in [Users -> Places] /\ call' \in [Users -> Call \cup {None}]
    BY <1>2 DEF OnEntityOffline, TypeOK, Places
  <2>. QED  BY <1>2, <2>1, <2>2, <2>3 DEF OnEntityOffline, TypeOK, tokenVars, queryVars
<1>3. CASE Shutdown
  <2>1. toDevice' \in Seq(Request)
    <3>1. Released("Acquire") \in Seq(Request) /\ Released("Lock") \in Seq(Request)
      <4>1. \A a \in Accesses : Command(a, TRUE, None) \in Request
        BY DEF Command, Request, Requesters
      <4>2. \A a \in Accesses : Released(a) \in Seq(Request)
        <5> SUFFICES ASSUME NEW a \in Accesses PROVE Released(a) \in Seq(Request)
          OBVIOUS
        <5>1. PICK c \in Request : c = Command(a, TRUE, None)
          BY <4>1
        <5>2. <<c>> \in Seq(Request) /\ <<>> \in Seq(Request)
          OBVIOUS
        <5>3. Released(a) = <<c>> \/ Released(a) = <<>>
          BY <5>1 DEF Released
        <5>. QED  BY <5>2, <5>3
      <4>. QED  BY <4>2 DEF Accesses
    <3>2. toDevice' = toDevice \o Released("Acquire") \o Released("Lock")
      BY <1>3 DEF Shutdown, Released
    <3>. QED  BY <3>1, <3>2, ConcatProperties DEF TypeOK
  <2>2. tokens' \in [Users -> Token \cup {None}]
    <3>1. \A u \in registered : [tokens[u] EXCEPT !.valid = FALSE] \in Token
      BY DEF Threads, Thread, Token, TypeOK
    <3>. QED  BY <1>3, <3>1 DEF Shutdown, TypeOK
  <2>. QED  BY <1>3, <2>1, <2>2 DEF Shutdown, TypeOK, userVars, worldVars, queryVars
<1>. QED  BY <1>1, <1>2, <1>3 DEF StayStep

LEMMA TypesOfTheDevice ==
  ASSUME TypeOK, DeviceStep PROVE TypeOK'
<1>1. ASSUME NEW c \in Request, NEW m \in Response, Replies(c, m) \/ Loses(c, m) PROVE TypeOK'
  <2>1. Travels(c, m)
    BY <1>1 DEF Replies, Loses
  <2>2. toDevice' \in Seq(Request) /\ toController' \in Seq(Messages)
    BY <2>1, TailIs, AppendIs DEF Travels, TypeOK, Messages
  <2>3. Holds(c) \in [Accesses -> Holders]
    BY HoldsIs DEF TypeOK
  <2>4. device' \in [Accesses -> Holders]
    BY <1>1, <2>3 DEF Replies, Loses, TypeOK
  <2>5. faults \in Nat
    BY DEF TypeOK
  <2>6. faults' \in Nat
    BY <1>1, <2>5 DEF Replies, Loses
  <2>. QED  BY <2>1, <2>2, <2>4, <2>6 DEF Travels, TypeOK, tokenVars, userVars, queryVars
<1>2. ASSUME NEW a \in Implemented, NEW h \in Others \cup {None}, Changes(a, h) PROVE TypeOK'
  <2>1. a \in Accesses /\ h \in Holders
    BY DEF Implemented, Accesses, Holders
  <2>2. News(a, h) \in Messages
    BY <2>1, NewsIs DEF Messages
  <2>3. toController' \in Seq(Messages)
    <3>1. PICK w \in Seq(Messages) : w = toController
      BY DEF TypeOK
    <3>2. Append(w, News(a, h)) \in Seq(Messages)
      BY <2>2, AppendIs
    <3>. QED  BY <1>2, <3>1, <3>2 DEF Changes
  <2>4. device' \in [Accesses -> Holders]
    BY <1>2, <2>1 DEF Changes, TypeOK
  <2>5. events \in Nat
    BY DEF TypeOK
  <2>6. events' \in Nat
    BY <1>2, <2>5 DEF Changes
  <2>. QED  BY <1>2, <2>3, <2>4, <2>6 DEF Changes, TypeOK, tokenVars, userVars, queryVars
<1>. QED  BY <1>1, <1>2 DEF DeviceStep

LEMMA TypesOfTheEnumeration ==
  ASSUME TypeOK, EnumStep PROVE TypeOK'
<1>0. \A a \in Accesses : QueryOf(a) \in Request
  BY QueryIs
<1>1. CASE Prepares
  BY <1>1 DEF Prepares, TypeOK, tokenVars, userVars, queryVars, worldVars
<1>2. CASE Questions
  <2>1. PICK v \in Seq(Request) : v = toDevice
    BY DEF TypeOK
  <2>2. QueryOf("Acquire") \in Request /\ QueryOf("Lock") \in Request
    BY <1>0 DEF Accesses
  <2>3. /\ Append(v, QueryOf("Lock")) \in Seq(Request)
        /\ Append(Append(v, QueryOf("Acquire")), QueryOf("Lock")) \in Seq(Request)
    BY <2>2, AppendIs
  <2>4. toDevice' \in Seq(Request)
    BY <1>2, <2>1, <2>3 DEF Questions
  <2>. QED  BY <1>2, <2>4 DEF Questions, TypeOK, tokenVars, userVars, queryVars, worldVars
<1>3. CASE Publishes
  BY <1>3 DEF Publishes, TypeOK, tokenVars, userVars, queryVars, worldVars
<1>4. ASSUME NEW q \in Query, Resends(q) PROVE TypeOK'
  <2>1. q.access \in Accesses
    BY DEF Query
  <2>2. toDevice' \in Seq(Request)
    BY <1>0, <1>4, <2>1, AppendIs DEF Resends, TypeOK
  <2>3. stray' \in SUBSET Accesses /\ delayed' \in SUBSET Query
    BY <1>4, <2>1 DEF Resends, TypeOK
  <2>. QED  BY <1>4, <2>2, <2>3 DEF Resends, TypeOK, tokenVars, userVars, worldVars
<1>5. ASSUME NEW q \in Query, Abandons(q) PROVE TypeOK'
  BY <1>5 DEF Abandons, TypeOK, tokenVars, userVars, worldVars
<1>. QED  BY <1>1, <1>2, <1>3, <1>4, <1>5 DEF EnumStep

LEMMA ThreadsOfCalls ==
  ASSUME TypeOK, Threads, CallStep PROVE Threads'
<1> SUFFICES ASSUME NEW v \in Users PROVE Thread(v)'
  BY DEF Threads
<1>0. Thread(v)
  BY DEF Threads
<1>1. ASSUME NEW u \in Users, NEW c \in Call, c.token => ~c.release, Begins(u, c) PROVE Thread(v)'
  <2>1. CASE u = v
    <3>1. pc[v] = "idle" /\ pc'[v] = "sending" /\ call'[v] = c
      BY <1>1, <2>1 DEF Begins, TypeOK
    <3>2. stays \in Nat
      BY DEF TypeOK
    <3>3. c.stay \in 0..stays
      BY <1>1, <3>2 DEF Begins
    <3>. QED  BY <1>0, <1>1, <3>1, <3>3 DEF Begins, Thread, TokenLocked, tokenVars, worldVars
  <2>2. CASE u # v
    <3>1. pc'[v] = pc[v] /\ call'[v] = call[v]
      BY <1>1, <2>2 DEF Begins, TypeOK
    <3>. QED  BY <1>0, <1>1, <3>1 DEF Begins, Thread, TokenLocked, tokenVars, worldVars
  <2>. QED  BY <2>1, <2>2
<1>2. ASSUME NEW u \in Users, NEW a \in Accesses, Granted(u, a) PROVE Thread(v)'
  <2>0. network' = None /\ UNCHANGED <<pc, call, stays>>
    BY <1>2 DEF Granted, worldVars
  <2>1. CASE u = v
    <3>1. PICK t \in Token : t = [access |-> a, valid |-> TRUE, stay |-> stays]
      BY DEF Token, TypeOK
    <3>2. tokens'[v] = t /\ t.valid /\ t.stay = stays
      BY <1>2, <2>1, <3>1 DEF Granted, TypeOK
    <3>3. stays \in Nat
      BY DEF TypeOK
    <3>4. stays \in 0..stays
      BY <3>3
    <3>. QED  BY <1>0, <1>2, <2>0, <2>1, <3>2, <3>4 DEF Thread, TokenLocked, Granted
  <2>2. CASE u # v
    <3>1. tokens'[v] = tokens[v] /\ (v \in registered' => v \in registered)
      BY <1>2, <2>2 DEF Granted, TypeOK
    <3>. QED  BY <1>0, <2>0, <3>1 DEF Thread, TokenLocked
  <2>. QED  BY <2>1, <2>2
<1>3. CASE Refused
  BY <1>0, <1>3 DEF Refused, Thread, TokenLocked, tokenVars, worldVars
<1>. QED  BY <1>1, <1>2, <1>3 DEF CallStep

LEMMA ThreadsOfSends ==
  ASSUME TypeOK, Threads, SendStep PROVE Threads'
<1> SUFFICES ASSUME NEW v \in Users PROVE Thread(v)'
  BY DEF Threads
<1>0. Thread(v)
  BY DEF Threads
<1>1. ASSUME NEW u \in Users, Sent(u) PROVE Thread(v)'
  <2>1. UNCHANGED <<call, tokens, registered, network, stays>>
    BY <1>1 DEF Sent, tokenVars, worldVars
  <2>2. \/ pc'[v] = pc[v]
        \/ pc[v] = "sending" /\ pc'[v] = "waiting"
    BY <1>1 DEF Sent, TypeOK
  <2>. QED  BY <1>0, <2>1, <2>2 DEF Thread, TokenLocked
<1>2. ASSUME NEW u \in Users, Unsent(u) PROVE Thread(v)'
  <2>1. UNCHANGED <<tokens, registered, network, stays>>
    BY <1>2 DEF Unsent, RepliedTo, tokenVars, worldVars
  <2>2. \/ pc'[v] = pc[v] /\ call'[v] = call[v]
        \/ pc[v] = "sending" /\ pc'[v] = "idle"
    BY <1>2 DEF Unsent, RepliedTo, TypeOK
  <2>. QED  BY <1>0, <2>1, <2>2 DEF Thread, TokenLocked
<1>3. ASSUME NEW u \in Users, SendRelease(u) PROVE Thread(v)'
  <2>1. UNCHANGED <<call, registered, network, stays>>
    BY <1>3 DEF SendRelease, worldVars
  <2>2. \/ pc'[v] = pc[v] /\ tokens'[v] = tokens[v]
        \/ pc[v] = "sendingRelease" /\ pc'[v] = "idle" /\ tokens'[v] = None
    BY <1>3 DEF SendRelease, TypeOK
  <2>3. CASE pc'[v] = pc[v] /\ tokens'[v] = tokens[v]
    BY <1>0, <2>1, <2>3 DEF Thread, TokenLocked
  <2>4. CASE pc[v] = "sendingRelease" /\ pc'[v] = "idle" /\ tokens'[v] = None
    <3>1. v \notin registered /\ None \notin Token
      BY <1>0, <2>4, NoneIsApart DEF Thread
    <3>. QED  BY <2>1, <2>4, <3>1 DEF Thread, TokenLocked
  <2>. QED  BY <2>2, <2>3, <2>4
<1>. QED  BY <1>1, <1>2, <1>3 DEF SendStep

LEMMA ThreadsOfTokens ==
  ASSUME TypeOK, Threads, TokenStep PROVE Threads'
<1> SUFFICES ASSUME NEW v \in Users PROVE Thread(v)'
  BY DEF Threads
<1>0. Thread(v) /\ (tokens[v] # None => tokens[v] \in Token)
  BY DEF Threads, TypeOK
<1>1. ASSUME NEW u \in Users, Destroys(u) PROVE Thread(v)'
  <2>1. UNCHANGED <<call, network, stays>>
    BY <1>1 DEF Destroys, worldVars
  <2>2. CASE v # u
    <3>1. pc'[v] = pc[v] /\ tokens'[v] = tokens[v] /\ (v \in registered' <=> v \in registered)
      BY <1>1, <2>2 DEF Destroys, Forgets, TypeOK
    <3>. QED  BY <1>0, <2>1, <3>1 DEF Thread, TokenLocked
  <2>3. CASE v = u /\ tokens'[v] = tokens[v]
    <3>1. \/ pc[v] = "idle" /\ tokens[v] # None /\ pc'[v] = "destroying" /\ registered' = registered
          \/ pc[v] = "idle" /\ pc'[v] = "idle" /\ registered' = registered
          \/ pc[v] = "destroying" /\ pc'[v] = "releasing" /\ v \notin registered'
          \/ pc'[v] = "idle" /\ v \notin registered'
          \/ pc[v] = "releasing" /\ pc'[v] = "idle" /\ registered' = registered
      BY <1>1, <2>3 DEF Destroys, Forgets, TypeOK
    <3>. QED  BY <1>0, <2>1, <2>3, <3>1 DEF Thread, TokenLocked
  <2>4. CASE v = u /\ tokens'[v] = None
    <3>1. \/ pc[v] = "idle" /\ pc'[v] = "idle" /\ ~tokens[v].valid /\ registered' = registered
          \/ pc'[v] = "idle" /\ v \notin registered'
          \/ pc[v] = "releasing" /\ pc'[v] = "idle" /\ registered' = registered
          \/ tokens'[v] = tokens[v]
      BY <1>1, <2>4 DEF Destroys, Forgets, TypeOK
    <3>. QED  BY <1>0, <2>1, <2>3, <2>4, <3>1, NoneIsApart DEF Thread, TokenLocked
  <2>5. tokens'[v] = tokens[v] \/ tokens'[v] = None
    BY <1>1 DEF Destroys, Forgets, TypeOK
  <2>. QED  BY <2>2, <2>3, <2>4, <2>5
<1>2. ASSUME NEW u \in Users, ReleaseBegins(u) PROVE Thread(v)'
  <2>1. UNCHANGED <<call, tokens, registered, network, stays>>
    BY <1>2 DEF ReleaseBegins, tokenVars, worldVars
  <2>2. \/ pc'[v] = pc[v]
        \/ pc[v] = "releasing" /\ pc'[v] = "sendingRelease"
    BY <1>2 DEF ReleaseBegins, TypeOK
  <2>. QED  BY <1>0, <2>1, <2>2 DEF Thread, TokenLocked
<1>. QED  BY <1>1, <1>2 DEF TokenStep

\* What an answer does to the thread of its user, and to the others.
LEMMA ThreadAnswered ==
  ASSUME TypeOK, Threads, NEW u \in Users, pc[u] = "waiting", NEW status, Answer(u, status),
         network' = None, stays' = stays, NEW v \in Users
  PROVE  Thread(v)'
<1>0. Thread(v) /\ Thread(u)
  BY DEF Threads
<1>1. call[u] \in Call
  BY <1>0 DEF Thread
<1>2. /\ pc' = [pc EXCEPT ![u] = "idle"] /\ call' = [call EXCEPT ![u] = None]
      /\ \/ UNCHANGED <<tokens, registered>>
         \/ /\ call[u].token /\ status = "Success" /\ call[u].access \in Accesses
            /\ tokens' = [tokens EXCEPT ![u] = [access |-> call[u].access, valid |-> TRUE, stay |-> call[u].stay]]
            /\ registered' = registered \cup {u}
  BY <1>1, AnswerIs
<1>3. CASE UNCHANGED <<tokens, registered>>
  <2>1. \/ pc'[v] = pc[v] /\ call'[v] = call[v]
        \/ v = u /\ pc'[v] = "idle"
    BY <1>2 DEF TypeOK
  <2>. QED  BY <1>0, <1>3, <2>1 DEF Thread, TokenLocked
<1>4. CASE call[u].access \in Accesses /\ tokens' = [tokens EXCEPT ![u] = [access |-> call[u].access, valid |-> TRUE, stay |-> call[u].stay]]
           /\ registered' = registered \cup {u}
  <2>1. CASE v = u
    <3>0. call[u].stay \in Nat /\ call[u].stay \in 0..stays
      BY <1>0, <1>1 DEF Thread, Call
    <3>1. PICK t \in Token : t = [access |-> call[u].access, valid |-> TRUE, stay |-> call[u].stay]
      BY <1>4, <3>0 DEF Token
    <3>2. tokens'[v] = t /\ t.valid /\ t.stay = call[u].stay /\ pc'[v] = "idle"
      BY <1>2, <1>4, <2>1, <3>1 DEF TypeOK
    <3>. QED  BY <3>0, <3>2 DEF Thread, TokenLocked
  <2>2. CASE v # u
    <3>1. pc'[v] = pc[v] /\ call'[v] = call[v] /\ tokens'[v] = tokens[v] /\ (v \in registered' => v \in registered)
      BY <1>2, <1>4, <2>2 DEF TypeOK
    <3>. QED  BY <1>0, <3>1 DEF Thread, TokenLocked
  <2>. QED  BY <2>1, <2>2
<1>. QED  BY <1>2, <1>3, <1>4

LEMMA ThreadsOfReads ==
  ASSUME TypeOK, Threads, Waiting, ReadStep PROVE Threads'
<1> SUFFICES ASSUME NEW m \in Messages, Ignores(m) \/ Retries(m) \/ Learns(m) \/ Revokes(m) \/ Tells(m) \/ Passes(m),
                    NEW v \in Users
             PROVE  Thread(v)'
  BY DEF ReadStep, Threads
<1>0. Thread(v)
  BY DEF Threads
<1>1. Reads(m) /\ network = None /\ stays' = stays
  BY DEF Ignores, Retries, Learns, Revokes, Tells, Passes, Reads, worldVars
<1>2. CASE Ignores(m) \/ Retries(m) \/ Learns(m) \/ Passes(m)
  <2>1. UNCHANGED <<tokens, registered, pc, call, network>>
    BY <1>2 DEF Ignores, Retries, Learns, Passes, tokenVars
  <2>. QED  BY <1>0, <1>1, <2>1 DEF Thread, TokenLocked
<1>3. CASE Revokes(m)
  <2> DEFINE r == Revoked(Updated(m), m.access)
  <2>1. UNCHANGED <<tokens, pc, call>> /\ registered' = registered \ r /\ network'.tokens = r
    BY <1>3 DEF Revokes
  <2> HIDE DEF r
  <2>. QED  BY <1>0, <1>1, <2>1 DEF Thread, TokenLocked
<1>4. CASE Tells(m)
  <2>1. pc[m.by] = "waiting" /\ m.by \in Users
    BY <1>1, <1>4, Awaited DEF Tells, Awaits
  <2>2. Answer(m.by, m.status) /\ network' = None
    BY <1>1, <1>4 DEF Tells
  <2>. QED  BY <1>1, <2>1, <2>2, ThreadAnswered
<1>. QED  BY <1>2, <1>3, <1>4

LEMMA ThreadsOfTheRest ==
  ASSUME TypeOK, Threads, Waiting, RevokeStep \/ StayStep \/ EnumStep \/ DeviceStep PROVE Threads'
<1> SUFFICES ASSUME NEW v \in Users PROVE Thread(v)'
  BY DEF Threads
<1>0. Thread(v) /\ (tokens[v] # None => tokens[v] \in Token)
  BY DEF Threads, TypeOK
<1>1. ASSUME NEW u \in Users, Invalidates(u) PROVE Thread(v)'
  <2>1. UNCHANGED <<pc, call, registered, stays>>
    BY <1>1 DEF Invalidates, userVars, worldVars
  <2>2. network \in Invalidation
    BY <1>1 DEF Invalidates, TypeOK
  <2>3. network'.tokens = network.tokens \ {u}
    BY <1>1, <2>2 DEF Invalidates, Invalidation
  <2>4. network # None /\ u \in network.tokens
    BY <1>1 DEF Invalidates
  <2>5. CASE tokens'[v] = tokens[v]
    BY <1>0, <2>1, <2>3, <2>4, <2>5 DEF Thread, TokenLocked
  <2>6. CASE tokens'[v] # tokens[v]
    <3>1. v = u /\ tokens[u] # None /\ tokens' = [tokens EXCEPT ![u].valid = FALSE]
      BY <1>1, <2>6 DEF Invalidates, TypeOK
    <3>2. PICK t : t = [tokens[u] EXCEPT !.valid = FALSE]
      OBVIOUS
    <3>3. t \in Token /\ t.stay = tokens[u].stay
      BY <1>0, <3>1, <3>2 DEF Token
    <3>4. tokens'[v] = t
      BY <3>1, <3>2 DEF TypeOK
    <3>5. v \notin registered
      BY <1>0, <2>4, <3>1 DEF Thread
    <3>. QED  BY <1>0, <2>1, <3>1, <3>3, <3>4, <3>5 DEF Thread, TokenLocked
  <2>. QED  BY <2>5, <2>6
<1>2. CASE Concludes
  <2>1. CASE network.by \in Users
    <3>1. pc[network.by] = "waiting"
      BY <1>2, <2>1 DEF Concludes, Waiting, Waits
    <3>. QED  BY <1>2, <2>1, <3>1, ThreadAnswered DEF Concludes, worldVars
  <2>2. CASE network.by \notin Users
    BY <1>0, <1>2, <2>2 DEF Concludes, Thread, TokenLocked, tokenVars, worldVars
  <2>. QED  BY <2>1, <2>2
<1>3. CASE OnEntityOnline
  <2>1. UNCHANGED <<tokens, registered, pc, call, network>> /\ stays' = stays + 1
    BY <1>3 DEF OnEntityOnline, tokenVars, userVars
  <2>2. stays \in Nat
    BY DEF TypeOK
  <2>3. \A n \in 0..stays : n \in 0..stays'
    BY <2>1, <2>2
  <2>. QED  BY <1>0, <2>1, <2>3 DEF Thread, TokenLocked
<1>4. CASE OnEntityOffline
  <2>1. UNCHANGED <<tokens, registered, network, stays>>
    BY <1>4 DEF OnEntityOffline, tokenVars
  <2>2. \/ pc'[v] = pc[v] /\ call'[v] = call[v]
        \/ pc'[v] = "idle" /\ pc[v] = "waiting"
    BY <1>4 DEF OnEntityOffline
  <2>. QED  BY <1>0, <2>1, <2>2 DEF Thread, TokenLocked
<1>5. CASE Shutdown
  <2>1. UNCHANGED <<pc, call, stays, network>> /\ registered' = {} /\ pc[v] \in {"idle", "waiting"}
    BY <1>5 DEF Shutdown, userVars, worldVars
  <2>2. CASE v \in registered
    <3>1. PICK t : t = [tokens[v] EXCEPT !.valid = FALSE]
      OBVIOUS
    <3>2. t \in Token /\ t.stay = tokens[v].stay /\ tokens[v] \in Token
      BY <1>0, <2>2, <3>1 DEF Thread, Token
    <3>3. tokens'[v] = t
      BY <1>5, <2>2, <3>1 DEF Shutdown
    <3>. QED  BY <1>0, <2>1, <3>2, <3>3 DEF Thread, TokenLocked
  <2>3. CASE v \notin registered
    <3>1. tokens'[v] = tokens[v]
      BY <1>5, <2>3 DEF Shutdown
    <3>. QED  BY <1>0, <2>1, <3>1 DEF Thread, TokenLocked
  <2>. QED  BY <2>2, <2>3
<1>6. CASE DeviceStep
  <2>1. UNCHANGED <<tokens, registered, pc, call, network, stays>>
    BY <1>6 DEF DeviceStep, Replies, Loses, Travels, Changes, tokenVars, userVars
  <2>. QED  BY <1>0, <2>1 DEF Thread, TokenLocked
<1>7. CASE EnumStep
  <2>1. UNCHANGED <<tokens, registered, pc, call, network, stays>>
    BY <1>7 DEF EnumStep, Prepares, Questions, Publishes, Resends, Abandons, tokenVars, userVars, worldVars
  <2>. QED  BY <1>0, <2>1 DEF Thread, TokenLocked
<1>. QED  BY <1>1, <1>2, <1>3, <1>4, <1>5, <1>6, <1>7 DEF RevokeStep, StayStep

-----------------------------------------------------------------------------
(* Who waits, and what is expected                                           *)


LEMMA SentBy ==
  ASSUME NEW c \in Request, NEW x
  PROVE  /\ c \in Of(x) <=> Owner(c) = x
         /\ \A u \in Users : c \in Of(<<u, None>>) <=> c.by = u
         /\ \A a \in Accesses : c \in Of(<<"get", a>>) <=> c.by = "get" /\ c.access = a
<1>1. c.by \in Requesters
  BY DEF Request
<1>2. "get" \notin Users \cup {None}
  BY ConstantsAssumption
<1>. QED  BY <1>1, <1>2 DEF Of, Owner, Requesters

LEMMA ReadBy ==
  ASSUME NEW m \in Messages, NEW x
  PROVE  /\ m \in Of(x) <=> Owner(m) = x
         /\ \A u \in Users : m \in Of(<<u, None>>) <=> m.by = u
         /\ \A a \in Accesses : m \in Of(<<"get", a>>) <=> m.by = "get" /\ m.access = a
<1>1. m.by \in Requesters
  BY SaysIs
<1>2. "get" \notin Users \cup {None}
  BY ConstantsAssumption
<1>. QED  BY <1>1, <1>2 DEF Of, Owner, Requesters

LEMMA PendingIs ==
  ASSUME NEW w \in Seq(Messages), NEW q \in Seq(Request), NEW u \in Users
  PROVE  Pending(w, q, <<u, None>>) <=> \E m \in Range(q) \cup Range(w) : m.by = u
<1>1. Range(w) \subseteq Messages /\ Range(q) \subseteq Request
  BY DEF Range
<1>2. \A m \in Range(w) : m \in Of(<<u, None>>) <=> m.by = u
  BY <1>1, ReadBy
<1>3. \A m \in Range(q) : m \in Of(<<u, None>>) <=> m.by = u
  BY <1>1, SentBy
<1>. QED  BY <1>2, <1>3 DEF Pending, Has

\* A step that only moves the messages of x, or leaves them alone.
Still(x) ==
  /\ Sole(toController, toDevice, x)'
  /\ Pending(toController, toDevice, x)' <=> Pending(toController, toDevice, x)
\* The messages of u after the step are about what its messages were about.
Alike(u) ==
  \A m \in Range(toDevice') \cup Range(toController') : m.by = u =>
    \E n \in Range(toDevice) \cup Range(toController) :
      n.by = u /\ n.access = m.access /\ n.release = m.release

LEMMA WaitsOn ==
  ASSUME NEW u \in Users, Waits(u), Still(<<u, None>>), Alike(u), pc'[u] = pc[u], call'[u] = call[u],
         network' = None \/ network'.by # u \/ (network # None /\ network'.by = network.by /\ network'.status = network.status)
  PROVE  Waits(u)'
<1>1. ASSUME NEW m \in Range(toDevice') \cup Range(toController'), m.by = u PROVE Awaits(u, m)'
  <2>1. PICK n \in Range(toDevice) \cup Range(toController) :
          n.by = u /\ n.access = m.access /\ n.release = m.release
    BY <1>1 DEF Alike
  <2>2. Awaits(u, n)
    BY <2>1 DEF Waits
  <2>. QED  BY <2>1, <2>2 DEF Awaits
<1>2. network' # None /\ network'.by = u =>
        /\ pc'[u] = "waiting" /\ (network'.status = "Success" => call'[u].release)
        /\ ~Pending(toController, toDevice, <<u, None>>)'
  BY DEF Waits, Still
<1>. QED  BY <1>1, <1>2 DEF Waits, Still

\* A user without a message may do what it wants.
LEMMA WaitsNot ==
  ASSUME TypeOK', NEW u \in Users, Sole(toController, toDevice, <<u, None>>)',
         ~Pending(toController, toDevice, <<u, None>>)', network' = None \/ network'.by # u
  PROVE  Waits(u)'
<1>1. toController' \in Seq(Messages) /\ toDevice' \in Seq(Request)
  BY DEF TypeOK
<1>2. PICK w \in Seq(Messages), q \in Seq(Request) : w = toController' /\ q = toDevice'
  BY <1>1
<1>3. ~Pending(w, q, <<u, None>>)
  BY <1>2
<1>4. \A m \in Range(q) \cup Range(w) : m.by # u
  BY <1>3, PendingIs
<1>. QED  BY <1>2, <1>4 DEF Waits

LEMMA Idle ==
  ASSUME TypeOK, NEW u \in Users, Waits(u), pc[u] # "waiting"
  PROVE  ~Pending(toController, toDevice, <<u, None>>) /\ (network # None => network.by # u)
<1>1. \A m \in Range(toDevice) \cup Range(toController) : m.by # u
  BY DEF Waits, Awaits
<1>2. PICK w \in Seq(Messages), q \in Seq(Request) : w = toController /\ q = toDevice
  BY DEF TypeOK
<1>3. ~Pending(w, q, <<u, None>>)
  BY <1>1, <1>2, PendingIs
<1>4. network # None => network.by # u
  BY DEF Waits
<1>. QED  BY <1>2, <1>3, <1>4

\* What the steps do with the messages.
LEMMA StillUnchanged ==
  ASSUME UNCHANGED <<toController, toDevice>>, NEW x, Sole(toController, toDevice, x)
  PROVE  Still(x)
<1>. QED  BY DEF Still

LEMMA StillSends ==
  ASSUME TypeOK, NEW c \in Request, toController' = toController, toDevice' = Append(toDevice, c),
         NEW x, c \notin Of(x), Sole(toController, toDevice, x)
  PROVE  Still(x)
<1>1. /\ Sole(toController, Append(toDevice, c), x)
      /\ Pending(toController, Append(toDevice, c), x) <=> Pending(toController, toDevice, x) \/ c \in Of(x)
  BY SoleSent DEF TypeOK
<1>. QED  BY <1>1 DEF Still

LEMMA StillReads ==
  ASSUME TypeOK, NEW m \in Messages, Reads(m), toDevice' = toDevice,
         NEW x, Sole(toController, toDevice, x)
  PROVE  /\ Sole(toController, toDevice, x)'
         /\ Pending(toController, toDevice, x)' <=> Pending(toController, toDevice, x) /\ m \notin Of(x)
<1>1. /\ Sole(Tail(toController), toDevice, x)
      /\ Pending(Tail(toController), toDevice, x) <=> Pending(toController, toDevice, x) /\ Head(toController) \notin Of(x)
  BY SoleReceived DEF TypeOK, Reads
<1>. QED  BY <1>1 DEF Reads

LEMMA StillTravels ==
  ASSUME TypeOK, NEW c \in Request, NEW m \in Response, Travels(c, m), NEW x, Sole(toController, toDevice, x)
  PROVE  Still(x)
<1>1. Owner(m) = Owner(Head(toDevice)) /\ m \in Messages
  BY DEF Travels, Owner, Messages
<1>2. /\ Sole(Append(toController, m), Tail(toDevice), x)
      /\ Pending(Append(toController, m), Tail(toDevice), x) <=> Pending(toController, toDevice, x)
  BY <1>1, SoleTravels DEF Travels, TypeOK
<1>. QED  BY <1>2 DEF Still, Travels

LEMMA StillTold ==
  ASSUME TypeOK, NEW m \in Messages, toDevice' = toDevice, toController' = Append(toController, m),
         NEW x, m \notin Of(x), Sole(toController, toDevice, x)
  PROVE  Still(x)
<1>1. Sole(Append(toController, m), toDevice, x)
      /\ (Pending(Append(toController, m), toDevice, x) <=> Pending(toController, toDevice, x))
  BY SoleOthers DEF TypeOK
<1>. QED  BY <1>1 DEF Still

LEMMA AlikeWhenFewer ==
  ASSUME NEW u \in Users,
         \A m \in Range(toDevice') \cup Range(toController') :
           m \in Range(toDevice) \cup Range(toController) \/ m.by # u
  PROVE  Alike(u)
BY DEF Alike

LEMMA WaitingOnCalls ==
  ASSUME TypeOK, TypeOK', Waiting, CallStep PROVE Waiting'
<1> SUFFICES ASSUME NEW v \in Users PROVE Waits(v)'
  BY DEF Waiting
<1>0. Waits(v)
  BY DEF Waiting
<1>1. UNCHANGED <<toController, toDevice>> /\ network' = None
  BY DEF CallStep, Begins, Granted, Refused
<1>2. Still(<<v, None>>) /\ Alike(v)
  BY <1>0, <1>1, StillUnchanged DEF Waits, Alike
<1>3. CASE pc'[v] = pc[v] /\ call'[v] = call[v]
  BY <1>0, <1>1, <1>2, <1>3, WaitsOn
<1>4. CASE pc[v] = "idle"
  <2>1. ~Pending(toController, toDevice, <<v, None>>)
    BY <1>0, <1>4, Idle
  <2>. QED  BY <1>1, <1>2, <2>1, WaitsNot DEF Still
<1>5. (pc'[v] = pc[v] /\ call'[v] = call[v]) \/ pc[v] = "idle"
  BY DEF CallStep, Begins, Granted, Refused, TypeOK
<1>. QED  BY <1>3, <1>4, <1>5

LEMMA WaitingOnSends ==
  ASSUME TypeOK, TypeOK', Threads, Waiting, SendStep PROVE Waiting'
<1> SUFFICES ASSUME NEW u \in Users, Sent(u) \/ Unsent(u) \/ SendRelease(u), NEW v \in Users PROVE Waits(v)'
  BY DEF Waiting, SendStep
<1>0. Waits(v) /\ network' = None /\ toController' = toController
  BY DEF Waiting, Sent, Unsent, SendRelease
<1>1. CASE Sent(u)
  <2>1. PICK c : c = Command(call[u].access, call[u].release, u)
    OBVIOUS
  <2>2. c \in Request /\ c.by = u /\ c.access = call[u].access /\ c.release = call[u].release
    <3>1. call[u] \in Call
      BY <1>1 DEF Sent, Threads, Thread
    <3>. QED  BY <2>1, <3>1 DEF Command, Request, Call, Requesters
  <2>3. toDevice' = Append(toDevice, c) /\ Range(toDevice') = Range(toDevice) \cup {c}
    BY <1>1, <2>1, <2>2, RangeSent DEF Sent
  <2>4. CASE v = u
    <3>1. pc[u] = "sending" /\ pc'[u] = "waiting" /\ call'[u] = call[u]
      BY <1>1 DEF Sent, TypeOK
    <3>2. ~Pending(toController, toDevice, <<u, None>>)
      BY <1>0, <2>4, <3>1, Idle
    <3>3. Sole(toController, Append(toDevice, c), <<u, None>>)
      BY <1>0, <2>2, <2>4, <3>2, SoleSent DEF TypeOK, Waits
    <3>4. \A m \in Range(toDevice) \cup Range(toController) : m.by # u
      BY <1>0, <2>4, <3>1 DEF Waits, Awaits
    <3>5. \A m \in Range(toDevice') \cup Range(toController') : m.by = u => Awaits(u, m)'
      BY <1>0, <2>2, <2>3, <3>1, <3>4 DEF Awaits
    <3>. QED  BY <1>0, <2>3, <2>4, <3>3, <3>5 DEF Waits
  <2>5. CASE v # u
    <3>1. pc'[v] = pc[v] /\ call'[v] = call[v]
      BY <1>1, <2>5 DEF Sent, TypeOK
    <3>2. c \notin Of(<<v, None>>)
      BY <2>2, <2>5, SentBy
    <3>3. Still(<<v, None>>)
      BY <1>0, <2>2, <2>3, <3>2, StillSends DEF Waits
    <3>4. Alike(v)
      BY <1>0, <2>2, <2>3, <2>5, AlikeWhenFewer
    <3>. QED  BY <1>0, <3>1, <3>3, <3>4, WaitsOn
  <2>. QED  BY <2>4, <2>5
<1>2. CASE Unsent(u)
  <2>1. toDevice' = toDevice
    BY <1>2 DEF Unsent
  <2>2. Still(<<v, None>>) /\ Alike(v)
    BY <1>0, <2>1, StillUnchanged DEF Waits, Alike
  <2>3. CASE v = u
    <3>1. ~Pending(toController, toDevice, <<v, None>>)
      BY <1>0, <1>2, <2>3, Idle DEF Unsent
    <3>. QED  BY <1>0, <2>2, <3>1, WaitsNot DEF Still
  <2>4. CASE v # u
    <3>1. pc'[v] = pc[v] /\ call'[v] = call[v]
      BY <1>2, <2>4 DEF Unsent, RepliedTo, TypeOK
    <3>. QED  BY <1>0, <2>2, <3>1, WaitsOn
  <2>. QED  BY <2>3, <2>4
<1>3. CASE SendRelease(u)
  <2>1. PICK c \in Request : c = Command(tokens[u].access, TRUE, None) /\ c.by = None
    <3>1. tokens[u].access \in Accesses
      BY <1>3 DEF SendRelease, Threads, Thread, TokenLocked, Token
    <3>2. PICK c : c = Command(tokens[u].access, TRUE, None)
      OBVIOUS
    <3>3. c \in Request /\ c.by = None
      BY <3>1, <3>2 DEF Command, Request, Requesters
    <3>. QED  BY <3>2, <3>3
  <2>2. toDevice' = toDevice \/ (toDevice' = Append(toDevice, c) /\ Range(toDevice') = Range(toDevice) \cup {c})
    BY <1>3, <2>1, RangeSent DEF SendRelease
  <2>3. c.by # v /\ c \notin Of(<<v, None>>)
    BY <2>1, SentBy, ConstantsAssumption
  <2>4. Still(<<v, None>>) /\ Alike(v)
    <3>1. CASE toDevice' = toDevice
      BY <1>0, <3>1, StillUnchanged DEF Waits, Alike
    <3>2. CASE toDevice' = Append(toDevice, c) /\ Range(toDevice') = Range(toDevice) \cup {c}
      <4>1. Still(<<v, None>>)
        BY <1>0, <2>3, <3>2, StillSends DEF Waits
      <4>2. Alike(v)
        BY <1>0, <2>3, <3>2, AlikeWhenFewer
      <4>. QED  BY <4>1, <4>2
    <3>. QED  BY <2>2, <3>1, <3>2
  <2>5. CASE v = u
    <3>1. ~Pending(toController, toDevice, <<v, None>>)
      BY <1>0, <1>3, <2>5, Idle DEF SendRelease
    <3>. QED  BY <1>0, <2>4, <3>1, WaitsNot DEF Still
  <2>6. CASE v # u
    <3>1. pc'[v] = pc[v] /\ call'[v] = call[v]
      BY <1>3, <2>6 DEF SendRelease, TypeOK
    <3>. QED  BY <1>0, <2>4, <3>1, WaitsOn
  <2>. QED  BY <2>5, <2>6
<1>. QED  BY <1>1, <1>2, <1>3

LEMMA WaitingOnTokens ==
  ASSUME TypeOK, TypeOK', Waiting, TokenStep PROVE Waiting'
<1> SUFFICES ASSUME NEW u \in Users, Destroys(u) \/ ReleaseBegins(u), NEW v \in Users PROVE Waits(v)'
  BY DEF Waiting, TokenStep
<1>0. Waits(v) /\ UNCHANGED <<toController, toDevice, network, call>>
  BY DEF Waiting, Destroys, ReleaseBegins
<1>1. Still(<<v, None>>) /\ Alike(v)
  BY <1>0, StillUnchanged DEF Waits, Alike
<1>2. CASE pc'[v] = pc[v]
  BY <1>0, <1>1, <1>2, WaitsOn
<1>3. CASE pc[v] # "waiting"
  <2>1. ~Pending(toController, toDevice, <<v, None>>) /\ (network # None => network.by # v)
    BY <1>0, <1>3, Idle
  <2>. QED  BY <1>0, <1>1, <2>1, WaitsNot DEF Still
<1>4. pc'[v] = pc[v] \/ pc[v] # "waiting"
  BY DEF Destroys, Forgets, ReleaseBegins, TypeOK
<1>. QED  BY <1>2, <1>3, <1>4

LEMMA AlikeReads ==
  ASSUME TypeOK, NEW m \in Messages, Reads(m), NEW u \in Users PROVE Alike(u)
<1>1. Range(toController') \subseteq Range(toController) /\ toDevice' = toDevice
  BY HeadIs DEF Reads
<1>. QED  BY <1>1, AlikeWhenFewer

\* What tells a user that it has its release.
LEMMA RevokedIs ==
  ASSUME TypeOK, entity \in Entity, NEW m \in Messages
  PROVE  Revoked(Updated(m), m.access) =
           IF entity.advertised /\ Says(m) = "NotHeld"
           THEN {u \in registered : tokens[u].access = m.access} ELSE {}
<1>1. PICK e \in Entity : e = Updated(m)
  BY Updates DEF Same
<1>2. m.access \in Accesses /\ Says(m) \in States
  BY SaysIs
<1>3. e.advertised = entity.advertised /\ e.state = [entity.state EXCEPT ![m.access] = Says(m)]
  BY <1>1, Updates DEF Same
<1>4. e.state[m.access] = Says(m)
  BY <1>2, <1>3 DEF Entity
<1>5. Revoked(e, m.access) = IF entity.advertised /\ Says(m) = "NotHeld"
           THEN {u \in registered : tokens[u].access = m.access} ELSE {}
  BY <1>3, <1>4 DEF Revoked
<1>. QED  BY <1>1, <1>5

LEMMA WaitingOnReads ==
  ASSUME TypeOK, TypeOK', Threads, Waiting, Answers, ReadStep PROVE Waiting'
<1> SUFFICES ASSUME NEW m \in Messages, Ignores(m) \/ Retries(m) \/ Learns(m) \/ Revokes(m) \/ Tells(m) \/ Passes(m),
                    NEW v \in Users
             PROVE  Waits(v)'
  BY DEF ReadStep, Waiting
<1>0. Waits(v) /\ Reads(m) /\ network = None
  BY DEF Waiting, Ignores, Retries, Learns, Revokes, Tells, Passes, Reads
<1>a. m \in Of(<<v, None>>) <=> m.by = v
  BY ReadBy
<1>b. m \in Range(toController) /\ (m.by = v => Awaits(v, m))
  <2>1. m \in Range(toController)
    BY <1>0, HeadIs DEF Reads
  <2>. QED  BY <1>0, <2>1 DEF Waits
<1>2. Alike(v)
  BY <1>0, AlikeReads
<1>3. /\ Sole(toController, toDevice, <<v, None>>)'
      /\ Pending(toController, toDevice, <<v, None>>)' <=> Pending(toController, toDevice, <<v, None>>) /\ m.by # v
  BY <1>0, <1>a, StillReads DEF Waits, Reads
<1>4. CASE m.by # v
  <2>1. Still(<<v, None>>)
    BY <1>3, <1>4 DEF Still
  <2>2. pc'[v] = pc[v] /\ call'[v] = call[v]
    <3>1. CASE Ignores(m) \/ Retries(m) \/ Learns(m) \/ Revokes(m) \/ Passes(m)
      BY <3>1 DEF Ignores, Retries, Learns, Revokes, Passes
    <3>2. CASE Tells(m)
      BY <1>4, <3>2 DEF Tells, Answer, TypeOK
    <3>. QED  BY <3>1, <3>2
  <2>3. network' = None \/ network'.by # v
    BY <1>0, <1>4 DEF Ignores, Retries, Learns, Revokes, Tells, Passes
  <2>. QED  BY <1>0, <1>2, <2>1, <2>2, <2>3, WaitsOn
<1>5. CASE m.by = v /\ Revokes(m)
  <2>1. UNCHANGED <<pc, call>> /\ network'.by = v /\ network'.status = m.status
    BY <1>5 DEF Revokes
  <2>2. Awaits(v, m)
    BY <1>b, <1>5
  <2>3. m.status = "Success" => m.release
    <3>1. SUFFICES ASSUME m.status = "Success", ~m.release PROVE FALSE
      BY SaysIs
    <3>2. m.kind = "response"
      BY <1>5, ConstantsAssumption, SaysIs DEF Messages, Response, Notification
    <3>3. m.holder = Us
      BY <1>b, <3>1, <3>2 DEF Answers, IsFit
    <3>4. Says(m) # "NotHeld"
      <4>1. Says(m) = InfoFromStatus(m)
        BY <3>2 DEF Says
      <4>2. InfoFromStatus(m) = StateOf(Us)
        BY <3>1, <3>3 DEF InfoFromStatus
      <4>. QED  BY <4>1, <4>2, StateOfIs
    <3>5. entity \in Entity
      BY <1>0 DEF Reads, TypeOK
    <3>6. Revoked(Updated(m), m.access) = {}
      BY <3>4, <3>5, RevokedIs
    <3>. QED  BY <1>5, <3>6 DEF Revokes
  <2>4. ~Pending(toController, toDevice, <<v, None>>)'
    BY <1>3, <1>5
  <2>5. \A n \in Range(toDevice') \cup Range(toController') : n.by = v => Awaits(v, n)'
    <3>1. toController' \in Seq(Messages) /\ toDevice' \in Seq(Request)
      BY DEF TypeOK
    <3>2. PICK w \in Seq(Messages), q \in Seq(Request) : w = toController' /\ q = toDevice'
      BY <3>1
    <3>3. \A n \in Range(q) \cup Range(w) : n.by # v
      BY <2>4, <3>2, PendingIs
    <3>. QED  BY <3>2, <3>3
  <2>6. Sole(toController, toDevice, <<v, None>>)'
    BY <1>3
  <2>7. pc'[v] = "waiting" /\ (network'.status = "Success" => call'[v].release)
    BY <2>1, <2>2, <2>3 DEF Awaits
  <2>. QED  BY <2>4, <2>5, <2>6, <2>7 DEF Waits
<1>6. CASE m.by = v /\ Tells(m)
  BY <1>0, <1>3, <1>6, WaitsNot DEF Tells
<1>7. m.by = v => Revokes(m) \/ Tells(m)
  BY ConstantsAssumption DEF Ignores, Retries, Learns, Passes
<1>. QED  BY <1>4, <1>5, <1>6, <1>7

\* What the end of the controller sends.
LEMMA ReleasedIs ==
  ASSUME NEW q \in Seq(Request), NEW a \in Accesses
  PROVE  /\ q \o Released(a) \in Seq(Request)
         /\ \/ q \o Released(a) = q
            \/ /\ entity # None
               /\ \E c \in Request : /\ c.by = None /\ c.release /\ q \o Released(a) = Append(q, c)
                                     /\ Range(q \o Released(a)) = Range(q) \cup {c}
<1>1. CASE Released(a) = <<>>
  BY <1>1
<1>2. CASE entity # None /\ Released(a) = <<Command(a, TRUE, None)>>
  <2>1. PICK c : c = Command(a, TRUE, None)
    OBVIOUS
  <2>2. c \in Request /\ c.by = None /\ c.release
    BY <2>1 DEF Command, Request, Requesters
  <2>3. q \o <<c>> = Append(q, c)
    BY <2>2, AppendProperties
  <2>4. Range(Append(q, c)) = Range(q) \cup {c} /\ Append(q, c) \in Seq(Request)
    BY <2>2, AppendIs
  <2>. QED  BY <1>2, <2>1, <2>2, <2>3, <2>4
<1>. QED  BY <1>1, <1>2 DEF Released

LEMMA ShutdownIs ==
  ASSUME TypeOK, Shutdown
  PROVE  /\ entity = None => toDevice' = toDevice
         /\ \A c \in Range(toDevice') : c \in Range(toDevice) \/ (c \in Request /\ c.by = None /\ c.release)
         /\ \A x : Sole(toController, toDevice, x) /\ (\A c \in Request : c.by = None => c \notin Of(x)) => Still(x)
<1>1. PICK q \in Seq(Request) : q = toDevice \o Released("Acquire")
  BY ReleasedIs DEF TypeOK, Accesses
<1>2. toDevice' = q \o Released("Lock") /\ toController' = toController
  BY <1>1 DEF Shutdown, Released
<1>3. PICK q2 \in Seq(Request) : q2 = toDevice'
  BY <1>2, ReleasedIs DEF Accesses
<1>4. /\ \/ q = toDevice
         \/ entity # None /\ \E c \in Request : c.by = None /\ c.release /\ q = Append(toDevice, c) /\ Range(q) = Range(toDevice) \cup {c}
      /\ \/ q2 = q
         \/ entity # None /\ \E c \in Request : c.by = None /\ c.release /\ q2 = Append(q, c) /\ Range(q2) = Range(q) \cup {c}
  BY <1>1, <1>2, <1>3, ReleasedIs DEF TypeOK, Accesses
<1>5. \A c \in Range(q2) : c \in Range(toDevice) \/ (c \in Request /\ c.by = None /\ c.release)
  BY <1>4
<1>6. ASSUME NEW x, Sole(toController, toDevice, x), \A c \in Request : c.by = None => c \notin Of(x)
      PROVE  Still(x)
  <2>0. toController \in Seq(Messages) /\ toDevice \in Seq(Request)
    BY DEF TypeOK
  <2>1. Sole(toController, q, x) /\ (Pending(toController, q, x) <=> Pending(toController, toDevice, x))
    <3>1. ASSUME NEW c \in Request, c.by = None, q = Append(toDevice, c)
          PROVE  Sole(toController, q, x) /\ (Pending(toController, q, x) <=> Pending(toController, toDevice, x))
      BY <1>6, <2>0, <3>1, SoleSent
    <3>. QED  BY <1>4, <1>6, <3>1
  <2>2. Sole(toController, q2, x) /\ (Pending(toController, q2, x) <=> Pending(toController, q, x))
    <3>1. ASSUME NEW c \in Request, c.by = None, q2 = Append(q, c)
          PROVE  Sole(toController, q2, x) /\ (Pending(toController, q2, x) <=> Pending(toController, q, x))
      BY <1>6, <2>0, <2>1, <3>1, SoleSent
    <3>. QED  BY <1>4, <2>1, <3>1
  <2>. QED  BY <1>2, <1>3, <2>1, <2>2 DEF Still
<1>. QED  BY <1>3, <1>4, <1>5, <1>6

\* An entity that comes online finds nothing on its way.
LEMMA OnlineIs ==
  ASSUME TypeOK, Expecting, OnEntityOnline
  PROVE  /\ toController = <<>> /\ toController' = <<>> /\ toDevice = <<>> /\ toDevice' = <<>>
         /\ \A x : Sole(toController, toDevice, x)' /\ ~Pending(toController, toDevice, x)'
<1>1. toController = <<>> /\ toController' = <<>> /\ toDevice = <<>> /\ toDevice' = <<>>
  BY DEF OnEntityOnline, Expecting
<1>. QED  BY <1>1, NothingPending

\* What a query that is sent is, and what those of the enumeration are.
LEMMA QuerySent ==
  ASSUME NEW w \in Seq(Messages), NEW v \in Seq(Request), NEW b \in Accesses, NEW q, q = Append(v, QueryOf(b))
  PROVE  /\ q \in Seq(Request) /\ Range(q) = Range(v) \cup {QueryOf(b)}
         /\ Has(q, Of(<<"get", b>>))
         /\ \A u \in Users : Sole(w, v, <<u, None>>) =>
              /\ Sole(w, q, <<u, None>>) /\ (Pending(w, q, <<u, None>>) <=> Pending(w, v, <<u, None>>))
         /\ Sole(w, v, <<"get", b>>) /\ ~Pending(w, v, <<"get", b>>) => Sole(w, q, <<"get", b>>)
         /\ \A a \in Accesses \ {b} : Sole(w, v, <<"get", a>>) =>
              /\ Sole(w, q, <<"get", a>>) /\ (Pending(w, q, <<"get", a>>) <=> Pending(w, v, <<"get", a>>))
<1>1. PICK c \in Request : c = QueryOf(b) /\ c.access = b /\ c.by = "get"
  BY QueryIs
<1>2. q \in Seq(Request) /\ Range(q) = Range(v) \cup {c}
  BY <1>1, AppendIs
<1>3. c \in Of(<<"get", b>>) /\ \A a \in Accesses \ {b} : c \notin Of(<<"get", a>>)
  BY <1>1, SentBy
<1>4. \A u \in Users : c \notin Of(<<u, None>>)
  BY <1>1, SentBy, ConstantsAssumption
<1>5. Has(q, Of(<<"get", b>>))
  BY <1>2, <1>3 DEF Has
<1>6. ASSUME NEW x, Sole(w, v, x), c \notin Of(x)
      PROVE  Sole(w, q, x) /\ (Pending(w, q, x) <=> Pending(w, v, x))
  BY <1>1, <1>6, SoleSent
<1>7. ASSUME NEW x, Sole(w, v, x), ~Pending(w, v, x) PROVE Sole(w, q, x)
  BY <1>1, <1>7, SoleSent
<1>. QED  BY <1>1, <1>2, <1>3, <1>4, <1>5, <1>6, <1>7

LEMMA QuestionsSend ==
  ASSUME TypeOK, Questions
  PROVE  /\ \A c \in Range(toDevice') : c \in Range(toDevice) \/ \E a \in Queried(entity.milan) : c = QueryOf(a)
         /\ Range(toDevice) \subseteq Range(toDevice')
         /\ \A u \in Users : Sole(toController, toDevice, <<u, None>>) => Still(<<u, None>>)
         /\ \A a \in Queried(entity.milan) : Has(toDevice', Of(<<"get", a>>))
         /\ \A a \in Accesses : Sole(toController, toDevice, <<"get", a>>) /\ ~Pending(toController, toDevice, <<"get", a>>) =>
              /\ Sole(toController, toDevice, <<"get", a>>)'
              /\ Pending(toController, toDevice, <<"get", a>>)' <=> a \in Queried(entity.milan)
<1>1. PICK w \in Seq(Messages), v \in Seq(Request) : w = toController /\ v = toDevice
  BY DEF TypeOK
<1>2. PICK q : q = toDevice'
  OBVIOUS
<1>3. toController' = w
  BY <1>1 DEF Questions
<1>4. {"Acquire", "Lock"} = Accesses
  BY DEF Accesses
<1>5. CASE entity.milan
  <2>1. q = Append(v, QueryOf("Lock")) /\ Queried(entity.milan) = {"Lock"}
    BY <1>1, <1>2, <1>5 DEF Questions, Queried
  <2>2. /\ q \in Seq(Request) /\ Range(q) = Range(v) \cup {QueryOf("Lock")}
        /\ Has(q, Of(<<"get", "Lock">>))
        /\ \A u \in Users : Sole(w, v, <<u, None>>) =>
             /\ Sole(w, q, <<u, None>>) /\ (Pending(w, q, <<u, None>>) <=> Pending(w, v, <<u, None>>))
        /\ Sole(w, v, <<"get", "Lock">>) /\ ~Pending(w, v, <<"get", "Lock">>) => Sole(w, q, <<"get", "Lock">>)
        /\ \A a \in Accesses \ {"Lock"} : Sole(w, v, <<"get", a>>) =>
             /\ Sole(w, q, <<"get", a>>) /\ (Pending(w, q, <<"get", a>>) <=> Pending(w, v, <<"get", a>>))
    BY <1>4, <2>1, QuerySent
  <2>3. \A u \in Users : Sole(w, v, <<u, None>>) => Still(<<u, None>>)
    BY <1>1, <1>2, <1>3, <2>2 DEF Still
  <2>4. \A a \in Accesses : Sole(w, v, <<"get", a>>) /\ ~Pending(w, v, <<"get", a>>) =>
           Sole(w, q, <<"get", a>>) /\ (Pending(w, q, <<"get", a>>) <=> a \in Queried(entity.milan))
    BY <2>1, <2>2 DEF Pending
  <2>. QED  BY <1>1, <1>2, <1>3, <2>1, <2>2, <2>3, <2>4
<1>6. CASE ~entity.milan
  <2>0. PICK p : p = Append(v, QueryOf("Acquire"))
    OBVIOUS
  <2>1. q = Append(p, QueryOf("Lock")) /\ Queried(entity.milan) = {"Acquire", "Lock"}
    BY <1>1, <1>2, <1>4, <1>6, <2>0 DEF Questions, Queried
  <2>2. /\ p \in Seq(Request) /\ Range(p) = Range(v) \cup {QueryOf("Acquire")}
        /\ Has(p, Of(<<"get", "Acquire">>))
        /\ \A u \in Users : Sole(w, v, <<u, None>>) =>
             /\ Sole(w, p, <<u, None>>) /\ (Pending(w, p, <<u, None>>) <=> Pending(w, v, <<u, None>>))
        /\ Sole(w, v, <<"get", "Acquire">>) /\ ~Pending(w, v, <<"get", "Acquire">>) => Sole(w, p, <<"get", "Acquire">>)
        /\ \A a \in Accesses \ {"Acquire"} : Sole(w, v, <<"get", a>>) =>
             /\ Sole(w, p, <<"get", a>>) /\ (Pending(w, p, <<"get", a>>) <=> Pending(w, v, <<"get", a>>))
    BY <1>4, <2>0, QuerySent
  <2>3. /\ q \in Seq(Request) /\ Range(q) = Range(p) \cup {QueryOf("Lock")}
        /\ Has(q, Of(<<"get", "Lock">>))
        /\ \A u \in Users : Sole(w, p, <<u, None>>) =>
             /\ Sole(w, q, <<u, None>>) /\ (Pending(w, q, <<u, None>>) <=> Pending(w, p, <<u, None>>))
        /\ Sole(w, p, <<"get", "Lock">>) /\ ~Pending(w, p, <<"get", "Lock">>) => Sole(w, q, <<"get", "Lock">>)
        /\ \A a \in Accesses \ {"Lock"} : Sole(w, p, <<"get", a>>) =>
             /\ Sole(w, q, <<"get", a>>) /\ (Pending(w, q, <<"get", a>>) <=> Pending(w, p, <<"get", a>>))
    BY <1>4, <2>1, <2>2, QuerySent
  <2>4. \A u \in Users : Sole(w, v, <<u, None>>) => Still(<<u, None>>)
    BY <1>1, <1>2, <1>3, <2>2, <2>3 DEF Still
  <2>5. Has(q, Of(<<"get", "Acquire">>))
    BY <2>2, <2>3 DEF Has
  <2>6. "Acquire" # "Lock"
    OBVIOUS
  <2>7. ASSUME NEW a \in Accesses, Sole(w, v, <<"get", a>>), ~Pending(w, v, <<"get", a>>)
        PROVE  Sole(w, q, <<"get", a>>) /\ Pending(w, q, <<"get", a>>)
    <3>1. CASE a = "Acquire"
      BY <2>2, <2>3, <2>5, <2>6, <2>7, <3>1 DEF Pending
    <3>2. CASE a = "Lock"
      BY <2>2, <2>3, <2>6, <2>7, <3>2 DEF Pending
    <3>. QED  BY <1>4, <3>1, <3>2
  <2>8. \A c \in Range(q) : c \in Range(v) \/ \E a \in Queried(entity.milan) : c = QueryOf(a)
    BY <2>1, <2>2, <2>3
  <2>9. \A a \in Queried(entity.milan) : Has(q, Of(<<"get", a>>))
    BY <2>1, <2>3, <2>5
  <2>10. Range(v) \subseteq Range(q)
    BY <2>2, <2>3
  <2>11. \A a \in Accesses : a \in Queried(entity.milan)
    BY <1>4, <2>1
  <2>. QED  BY <1>1, <1>2, <1>3, <2>4, <2>7, <2>8, <2>9, <2>10, <2>11
<1>. QED  BY <1>5, <1>6

LEMMA WaitingOnTheRest ==
  ASSUME TypeOK, TypeOK', Threads, Waiting, Expecting, RevokeStep \/ StayStep \/ EnumStep \/ DeviceStep PROVE Waiting'
<1> SUFFICES ASSUME NEW v \in Users PROVE Waits(v)'
  BY DEF Waiting
<1>0. Waits(v)
  BY DEF Waiting
<1>1. ASSUME NEW u \in Users, Invalidates(u) PROVE Waits(v)'
  <2>1. UNCHANGED <<toController, toDevice, pc, call>>
    BY <1>1 DEF Invalidates, userVars
  <2>2. network' # None => network # None /\ network'.by = network.by /\ network'.status = network.status
    <3>1. network \in Invalidation
      BY <1>1 DEF Invalidates, TypeOK
    <3>. QED  BY <1>1, <3>1 DEF Invalidates, Invalidation
  <2>3. Still(<<v, None>>) /\ Alike(v)
    BY <1>0, <2>1, StillUnchanged DEF Waits, Alike
  <2>. QED  BY <1>0, <2>1, <2>2, <2>3, WaitsOn
<1>2. CASE Concludes
  <2>1. UNCHANGED <<toController, toDevice>> /\ network' = None /\ network # None
    BY <1>2 DEF Concludes
  <2>2. Still(<<v, None>>) /\ Alike(v)
    BY <1>0, <2>1, StillUnchanged DEF Waits, Alike
  <2>3. CASE v = network.by
    <3>1. ~Pending(toController, toDevice, <<v, None>>)
      BY <1>0, <2>1, <2>3 DEF Waits
    <3>. QED  BY <2>1, <2>2, <3>1, WaitsNot DEF Still
  <2>4. CASE v # network.by
    <3>1. pc'[v] = pc[v] /\ call'[v] = call[v]
      BY <1>2, <2>4 DEF Concludes, Answer, TypeOK
    <3>. QED  BY <1>0, <2>1, <2>2, <3>1, WaitsOn
  <2>. QED  BY <2>3, <2>4
<1>3. CASE OnEntityOnline
  <2>1. network' = None
    BY <1>3 DEF OnEntityOnline
  <2>2. Sole(toController, toDevice, <<v, None>>)' /\ ~Pending(toController, toDevice, <<v, None>>)'
    BY <1>3, OnlineIs
  <2>. QED  BY <2>1, <2>2, WaitsNot
<1>4. CASE OnEntityOffline
  <2>1. network' = None /\ toController' = <<>> /\ toDevice' = <<>>
    BY <1>4 DEF OnEntityOffline
  <2>. QED  BY <2>1, NothingPending, WaitsNot
<1>5. CASE Shutdown
  <2>1. UNCHANGED <<pc, call, network, toController>>
    BY <1>5 DEF Shutdown, userVars
  <2>2. None # v
    BY ConstantsAssumption
  <2>3. Still(<<v, None>>)
    <3>1. \A c \in Request : c.by = None => c \notin Of(<<v, None>>)
      BY <2>2, SentBy
    <3>. QED  BY <1>0, <1>5, <3>1, ShutdownIs DEF Waits
  <2>4. Alike(v)
    <3>1. \A m \in Range(toDevice') \cup Range(toController') :
           m \in Range(toDevice) \cup Range(toController) \/ m.by # v
      BY <1>5, <2>1, <2>2, ShutdownIs
    <3>. QED  BY <3>1, AlikeWhenFewer
  <2>. QED  BY <1>0, <2>1, <2>3, <2>4, WaitsOn
<1>6. ASSUME NEW c \in Request, NEW m \in Response, Replies(c, m) \/ Loses(c, m) PROVE Waits(v)'
  <2>1. Travels(c, m)
    BY <1>6 DEF Replies, Loses
  <2>2. UNCHANGED <<pc, call, network>>
    BY <2>1 DEF Travels, userVars
  <2>3. Still(<<v, None>>)
    BY <1>0, <2>1, StillTravels DEF Waits
  <2>4. Range(toDevice) = Range(toDevice') \cup {c} /\ Range(toController') = Range(toController) \cup {m}
    BY <2>1, RangeTravels
  <2>5. Alike(v)
    BY <2>1, <2>4 DEF Travels, Alike
  <2>. QED  BY <1>0, <2>2, <2>3, <2>5, WaitsOn
<1>7. ASSUME NEW a \in Implemented, NEW h \in Others \cup {None}, Changes(a, h) PROVE Waits(v)'
  <2>1. UNCHANGED <<pc, call, network, toDevice>>
    BY <1>7 DEF Changes, userVars
  <2>2. PICK m \in Messages : m = News(a, h) /\ m.by = None
    BY NewsIs DEF Implemented, Accesses, Holders, Messages
  <2>3. m.by # v /\ m \notin Of(<<v, None>>)
    BY <2>2, ReadBy, ConstantsAssumption
  <2>4. \/ toController' = toController
        \/ toController' = Append(toController, m) /\ Range(toController') = Range(toController) \cup {m}
    BY <1>7, <2>2, RangeTold DEF Changes
  <2>5. Still(<<v, None>>)
    BY <1>0, <2>1, <2>3, <2>4, StillUnchanged, StillTold DEF Waits
  <2>6. Alike(v)
    BY <2>1, <2>3, <2>4, AlikeWhenFewer
  <2>. QED  BY <1>0, <2>1, <2>5, <2>6, WaitsOn
<1>8. ASSUME Prepares \/ Publishes \/ \E q \in Query : Abandons(q) PROVE Waits(v)'
  <2>1. UNCHANGED <<toController, toDevice, pc, call, network>>
    BY <1>8 DEF Prepares, Publishes, Abandons, userVars
  <2>2. Still(<<v, None>>) /\ Alike(v)
    BY <1>0, <2>1, StillUnchanged DEF Waits, Alike
  <2>. QED  BY <1>0, <2>1, <2>2, WaitsOn
<1>9. CASE Questions
  <2>1. UNCHANGED <<toController, pc, call, network>>
    BY <1>9 DEF Questions, userVars
  <2>2. Still(<<v, None>>)
    BY <1>0, <1>9, QuestionsSend DEF Waits
  <2>3. \A c \in Range(toDevice') : c \in Range(toDevice) \/ \E a \in Accesses : c = QueryOf(a)
    BY <1>9, QuestionsSend DEF Queried, Accesses
  <2>4. \A c \in Range(toDevice') : c \in Range(toDevice) \/ c.by # v
    BY <2>3, QueryIs, ConstantsAssumption
  <2>5. Alike(v)
    BY <2>1, <2>4, AlikeWhenFewer
  <2>. QED  BY <1>0, <2>1, <2>2, <2>5, WaitsOn
<1>10. ASSUME NEW q \in Query, Resends(q) PROVE Waits(v)'
  <2>1. UNCHANGED <<toController, pc, call, network>>
    BY <1>10 DEF Resends, userVars
  <2>2. PICK c \in Request : c = QueryOf(q.access) /\ c.by = "get"
    BY QueryIs DEF Query
  <2>3. toDevice' = Append(toDevice, c) /\ Range(toDevice') = Range(toDevice) \cup {c}
    BY <1>10, <2>2, RangeSent DEF Resends
  <2>4. c.by # v /\ c \notin Of(<<v, None>>)
    BY <2>2, SentBy, ConstantsAssumption
  <2>5. Still(<<v, None>>)
    BY <1>0, <2>1, <2>3, <2>4, StillSends DEF Waits
  <2>6. Alike(v)
    BY <2>1, <2>3, <2>4, AlikeWhenFewer
  <2>. QED  BY <1>0, <2>1, <2>5, <2>6, WaitsOn
<1>. QED  BY <1>1, <1>2, <1>3, <1>4, <1>5, <1>6, <1>7, <1>8, <1>9, <1>10 DEF EnumStep, RevokeStep, StayStep, DeviceStep

\* An entity that stays is advertised as long as it does, and its queries are sent once.
EntityOn ==
  /\ entity # None /\ entity' \in Entity /\ entity' # None /\ stays' = stays /\ (over => over')
  /\ entity.advertised => entity'.advertised
  /\ entity.step = "GetDynamicInfo" => entity'.step = "GetDynamicInfo"
  /\ entity'.step = "GetDynamicInfo" => entity.step = "GetDynamicInfo" \/ Questions
  /\ entity'.advertised /\ ~entity.advertised =>
       Publishes \/ \E m \in Messages : Learns(m)

LEMMA EntityKept ==
  ASSUME TypeOK, TypeOK', Threads, Expecting, entity' # None, ~OnEntityOnline,
         CallStep \/ SendStep \/ TokenStep \/ ReadStep \/ RevokeStep \/ StayStep \/ EnumStep \/ DeviceStep
  PROVE  EntityOn
<1>0. entity' \in Entity /\ (entity # None => entity \in Entity)
  BY DEF TypeOK
<1>a. ASSUME entity' = entity, stays' = stays, over => over' PROVE EntityOn
  BY <1>0, <1>a DEF EntityOn
<1>b. ASSUME entity # None, Same(entity'), stays' = stays, over => over' PROVE EntityOn
  BY <1>0, <1>b DEF EntityOn, Same
<1>1. CASE CallStep
  <2>1. ASSUME NEW u \in Users, NEW c \in Call, Begins(u, c) PROVE EntityOn
    <3>1. c.access \in Accesses /\ c.release \in BOOLEAN /\ entity # None
      BY <2>1 DEF Call, Begins, Advertised
    <3>. QED  BY <1>0, <1>b, <2>1, <3>1, Beginning DEF Begins, worldVars
  <2>2. CASE \E u \in Users, a \in Accesses : Granted(u, a)
    BY <1>a, <2>2 DEF Granted, worldVars
  <2>3. CASE Refused
    BY <1>a, <2>3 DEF Refused, worldVars
  <2>. QED  BY <1>1, <2>1, <2>2, <2>3 DEF CallStep
<1>2. CASE SendStep
  <2>1. entity' = entity /\ stays' = stays /\ over' = over
    BY <1>2 DEF SendStep, Sent, Unsent, SendRelease, worldVars
  <2>. QED  BY <1>a, <2>1
<1>3. CASE TokenStep
  <2> SUFFICES ASSUME NEW u \in Users, Destroys(u) \/ ReleaseBegins(u) PROVE EntityOn
    BY <1>3 DEF TokenStep
  <2>1. CASE Destroys(u)
    BY <1>a, <2>1 DEF Destroys, worldVars
  <2>2. CASE ReleaseBegins(u)
    <3>1. tokens[u].access \in Accesses /\ entity # None
      BY <2>2 DEF ReleaseBegins, Advertised, Threads, Thread, TokenLocked, Token
    <3>. QED  BY <1>0, <1>b, <2>2, <3>1, Beginning DEF ReleaseBegins, worldVars
  <2>. QED  BY <2>1, <2>2
<1>4. CASE ReadStep
  <2> SUFFICES ASSUME NEW m \in Messages,
                      Ignores(m) \/ Retries(m) \/ Learns(m) \/ Revokes(m) \/ Tells(m) \/ Passes(m)
               PROVE  EntityOn
    BY <1>4 DEF ReadStep
  <2>0. entity # None /\ entity \in Entity /\ stays' = stays /\ over' = over
    BY <1>0 DEF Ignores, Retries, Learns, Revokes, Tells, Passes, Reads, worldVars
  <2>1. CASE Ignores(m)
    BY <1>a, <2>0, <2>1 DEF Ignores
  <2>2. CASE Retries(m)
    BY <1>b, <2>0, <2>2, Retrying DEF Retries
  <2>3. CASE Learns(m)
    <3>1. PICK last \in BOOLEAN : entity' = Learnt(m, last)
      BY <2>3 DEF Learns
    <3>2. entity'.step = entity.step
      BY <2>0, <3>1, Learning
    <3>3. ~entity.advertised
      BY <2>0, <2>3 DEF Learns, Expecting
    <3>. QED  BY <1>0, <2>0, <2>3, <3>2, <3>3 DEF EntityOn
  <2>4. CASE Revokes(m) \/ Tells(m) \/ Passes(m)
    BY <1>b, <2>0, <2>4, Updates DEF Revokes, Tells, Passes
  <2>. QED  BY <2>1, <2>2, <2>3, <2>4
<1>5. CASE RevokeStep
  BY <1>a, <1>5 DEF RevokeStep, Concludes, Invalidates, worldVars
<1>6. CASE StayStep
  BY <1>a, <1>6 DEF StayStep, OnEntityOffline, Shutdown, worldVars
<1>7. CASE EnumStep
  <2>1. CASE Prepares
    BY <1>0, <2>1 DEF Prepares, EntityOn, worldVars
  <2>2. CASE Questions
    BY <1>0, <2>2 DEF Questions, EntityOn, worldVars
  <2>3. CASE Publishes
    BY <1>0, <2>3 DEF Publishes, EntityOn, worldVars
  <2>4. CASE \E q \in Query : Resends(q) \/ Abandons(q)
    BY <1>a, <2>4 DEF Resends, Abandons, worldVars
  <2>. QED  BY <1>7, <2>1, <2>2, <2>3, <2>4 DEF EnumStep
<1>8. CASE DeviceStep
  BY <1>a, <1>8 DEF DeviceStep, Replies, Loses, Travels, Changes
<1>. QED  BY <1>1, <1>2, <1>3, <1>4, <1>5, <1>6, <1>7, <1>8

LEMMA InTimeKept ==
  ASSUME TypeOK, TypeOK', Threads, Waiting, Expecting, InTime,
         CallStep \/ SendStep \/ TokenStep \/ ReadStep \/ RevokeStep \/ StayStep \/ EnumStep \/ DeviceStep
  PROVE  InTime'
<1> SUFFICES ASSUME NEW v \in Users, entity' # None PROVE Timely(v)'
  BY DEF InTime, Timely
<1>0. Timely(v) /\ pc \in [Users -> Places] /\ call \in [Users -> Call \cup {None}]
  BY DEF InTime, TypeOK
<1>1. CASE OnEntityOnline
  <2>1. pc'[v] = pc[v] /\ call'[v] = call[v] /\ stays' = stays + 1 /\ stays \in Nat
    BY <1>1 DEF OnEntityOnline, userVars, TypeOK
  <2>2. pc[v] \in {"sending", "waiting"} => call[v].stay \in 0..stays
    BY DEF Threads, Thread
  <2>. QED  BY <2>1, <2>2 DEF Timely
<1> SUFFICES ASSUME ~OnEntityOnline PROVE Timely(v)'
  BY <1>1
<1>2. EntityOn
  BY EntityKept
<1>a. ASSUME pc'[v] \notin {"sending", "waiting"} PROVE Timely(v)'
  BY <1>a DEF Timely
<1>b. ASSUME call'[v] = call[v], pc'[v] \in {"sending", "waiting"} => pc[v] \in {"sending", "waiting"}
      PROVE  Timely(v)'
  BY <1>0, <1>2, <1>b DEF Timely, EntityOn
<1>3. CASE CallStep
  <2>1. ASSUME NEW u \in Users, NEW c \in Call, Begins(u, c) PROVE Timely(v)'
    <3>1. CASE u = v
      <4>1. entity.advertised
        BY <2>1 DEF Begins, Advertised
      <4>. QED  BY <1>2, <4>1 DEF EntityOn, Timely
    <3>2. CASE u # v
      BY <1>0, <1>b, <2>1, <3>2 DEF Begins
    <3>. QED  BY <3>1, <3>2
  <2>2. CASE Refused \/ \E u \in Users, a \in Accesses : Granted(u, a)
    BY <1>b, <2>2 DEF Granted, Refused
  <2>. QED  BY <1>3, <2>1, <2>2 DEF CallStep
<1>4. CASE SendStep
  <2>1. PICK u \in Users : Sent(u) \/ Unsent(u) \/ SendRelease(u)
    BY <1>4 DEF SendStep
  <2>2. CASE u = v
    BY <1>0, <1>a, <1>b, <2>1, <2>2 DEF Sent, Unsent, RepliedTo, SendRelease
  <2>3. CASE u # v
    BY <1>0, <1>b, <2>1, <2>3 DEF Sent, Unsent, RepliedTo, SendRelease
  <2>. QED  BY <2>2, <2>3
<1>5. CASE TokenStep
  <2>1. PICK u \in Users : Destroys(u) \/ ReleaseBegins(u)
    BY <1>5 DEF TokenStep
  <2>2. call' = call
    BY <2>1 DEF Destroys, ReleaseBegins
  <2>3. pc'[v] = pc[v] \/ pc'[v] \notin {"sending", "waiting"}
    BY <1>0, <2>1 DEF Destroys, Forgets, ReleaseBegins
  <2>. QED  BY <1>a, <1>b, <2>2, <2>3
<1>c. ASSUME NEW u \in Users, NEW status, Answer(u, status) PROVE Timely(v)'
  <2>1. CASE u = v
    BY <1>0, <1>a, <1>c, <2>1 DEF Answer
  <2>2. CASE u # v
    BY <1>0, <1>b, <1>c, <2>2 DEF Answer
  <2>. QED  BY <2>1, <2>2
<1>6. CASE ReadStep
  <2>1. PICK m \in Messages : Ignores(m) \/ Retries(m) \/ Learns(m) \/ Revokes(m) \/ Tells(m) \/ Passes(m)
    BY <1>6 DEF ReadStep
  <2>2. CASE Tells(m)
    BY <1>c, <2>2 DEF Tells
  <2>. QED  BY <1>b, <2>1, <2>2 DEF Ignores, Retries, Learns, Revokes, Passes
<1>7. CASE RevokeStep
  <2>1. CASE UNCHANGED <<pc, call>>
    BY <1>b, <2>1
  <2>. QED  BY <1>7, <1>c, <2>1 DEF RevokeStep, Invalidates, Concludes, userVars
<1>8. CASE StayStep \/ EnumStep \/ DeviceStep
  <2>1. UNCHANGED <<pc, call>>
    BY <1>8 DEF StayStep, OnEntityOffline, Shutdown, EnumStep, Prepares, Questions, Publishes, Resends, Abandons,
                DeviceStep, Replies, Loses, Travels, Changes, userVars
  <2>. QED  BY <1>b, <2>1
<1>. QED  BY <1>3, <1>4, <1>5, <1>6, <1>7, <1>8

\* A step that leaves what is expected alone.
LEMMA ExpectsOn ==
  ASSUME TypeOK, Expecting, entity # None, entity' # None, Same(entity'), UNCHANGED <<delayed, stray, stays>>,
         \A a \in Accesses \ stray : Still(<<"get", a>>)
  PROVE  Expecting'
BY DEF Expecting, Expected, Again, Still, Same

LEMMA ExpectsUnchanged ==
  ASSUME TypeOK, Expecting, UNCHANGED <<entity, toController, toDevice, delayed, stray, stays>> PROVE Expecting'
BY DEF Expecting, Expected, Again

\* The answer of a query that is expected, and that is not of a former stay.
LEMMA AnswerLeaves ==
  ASSUME TypeOK, Expecting, NEW m \in Messages, Reads(m), m.by = "get", NEW a \in Accesses \ stray
  PROVE  /\ Sole(toController, toDevice, <<"get", a>>)'
         /\ Pending(toController, toDevice, <<"get", a>>)' <=>
              Pending(toController, toDevice, <<"get", a>>) /\ m.access # a
         /\ m.access = a => Pending(toController, toDevice, <<"get", a>>)
<1>1. Sole(toController, toDevice, <<"get", a>>)
  BY DEF Expecting, Expected
<1>2. m \in Of(<<"get", a>>) <=> m.access = a
  BY ReadBy
<1>3. toDevice' = toDevice
  BY DEF Reads
<1>4. m \in Range(toController)
  BY HeadIs DEF Reads
<1>5. m.access = a => Pending(toController, toDevice, <<"get", a>>)
  BY <1>2, <1>4 DEF Pending, Has
<1>. QED  BY <1>1, <1>2, <1>3, <1>5, StillReads

LEMMA ExpectingOnReads ==
  ASSUME TypeOK, TypeOK', Expecting, ReadStep PROVE Expecting'
<1> SUFFICES ASSUME NEW m \in Messages,
                    Ignores(m) \/ Retries(m) \/ Learns(m) \/ Revokes(m) \/ Tells(m) \/ Passes(m)
             PROVE  Expecting'
  BY DEF ReadStep
<1>0. /\ Reads(m) /\ entity # None /\ entity \in Entity /\ m.access \in Accesses
      /\ UNCHANGED <<stray, stays, toDevice>> /\ stays \in Nat /\ "get" \notin Users \cup {None}
  BY SaysIs, ConstantsAssumption DEF Ignores, Retries, Learns, Revokes, Tells, Passes, Reads, TypeOK, worldVars
<1>1. CASE Ignores(m)
  <2>1. entity' = entity /\ delayed' = delayed /\ m.by = "get" /\ m.access \in stray
    BY <1>1 DEF Ignores
  <2>2. \A a \in Accesses \ stray : Still(<<"get", a>>)
    BY <1>0, <2>1, AnswerLeaves DEF Still
  <2>. QED  BY <1>0, <2>1, <2>2, ExpectsOn DEF Same
<1>2. CASE Retries(m)
  <2>1. /\ m.by = "get" /\ m.access \in entity.expected /\ entity' = Retried(m)
        /\ delayed' = delayed \cup {Again(m.access)}
    BY <1>2 DEF Retries
  <2>2. Same(entity') /\ entity' # None
    BY <1>0, <2>1, Retrying, NoneIsApart DEF Same
  <2>3. Again(m.access).stay \in 0..stays
    BY <1>0, AgainIs
  <2>4. \A q \in delayed' : q.stay \in 0..stays'
    BY <1>0, <2>1, <2>3 DEF Expecting
  <2>5. ASSUME NEW a \in Accesses \ stray PROVE Expected(a)'
    <3>1. Again(a)' = Again(a)
      BY <1>0 DEF Again
    <3>2. Again(a) = Again(m.access) <=> a = m.access
      BY <1>0, AgainIs
    <3>3. Again(a)' \in delayed' <=> Again(a) \in delayed \/ a = m.access
      BY <2>1, <3>1, <3>2
    <3>4. Expected(a)
      BY DEF Expecting
    <3>. QED  BY <1>0, <2>1, <2>2, <3>3, <3>4, AnswerLeaves DEF Expected, Same
  <2>. QED  BY <1>0, <2>2, <2>4, <2>5 DEF Expecting, Same
<1>3. CASE Learns(m)
  <2>1. m.by = "get" /\ m.access \in entity.expected /\ delayed' = delayed
    BY <1>3 DEF Learns
  <2>2. PICK last \in BOOLEAN : (last => entity.expected \subseteq {m.access}) /\ entity' = Learnt(m, last)
    BY <1>3 DEF Learns
  <2>3. /\ entity' \in Entity /\ entity'.advertised = last /\ entity'.expected = entity.expected \ {m.access}
        /\ entity'.step = entity.step /\ (entity'.milan => entity.milan)
    BY <1>0, <2>2, Learning
  <2>4. entity' # None
    BY <2>3, NoneIsApart
  <2>5. entity.step = "GetDynamicInfo"
    BY <1>0, <2>1 DEF Expecting
  <2>6. ASSUME NEW a \in Accesses \ stray PROVE Expected(a)'
    <3>1. Again(a)' \in delayed' <=> Again(a) \in delayed
      BY <1>0, <2>1 DEF Again
    <3>2. Expected(a)
      BY DEF Expecting
    <3>. QED  BY <1>0, <2>1, <2>3, <3>1, <3>2, AnswerLeaves DEF Expected
  <2>. QED  BY <1>0, <2>1, <2>2, <2>3, <2>4, <2>5, <2>6 DEF Expecting
<1>4. CASE Revokes(m) \/ Tells(m) \/ Passes(m)
  <2>1. entity' = Updated(m) /\ m.by # "get" /\ delayed' = delayed
    BY <1>0, <1>4 DEF Revokes, Tells, Passes
  <2>2. \A a \in Accesses : m \notin Of(<<"get", a>>)
    BY <2>1, ReadBy
  <2>3. \A a \in Accesses \ stray : Still(<<"get", a>>)
    BY <1>0, <2>2, StillReads DEF Still, Expecting, Expected
  <2>4. Same(entity') /\ entity' # None
    BY <1>0, <2>1, Updates, NoneIsApart DEF Same
  <2>. QED  BY <1>0, <2>1, <2>3, <2>4, ExpectsOn
<1>. QED  BY <1>1, <1>2, <1>3, <1>4

LEMMA ExpectingOnTheEnumeration ==
  ASSUME TypeOK, TypeOK', Expecting, EnumStep PROVE Expecting'
<1>0. stays \in Nat /\ (entity' # None => entity' \in Entity)
  BY DEF TypeOK
<1>1. CASE Prepares
  <2>1. /\ entity # None /\ entity'.advertised = entity.advertised /\ entity'.expected = entity.expected
        /\ entity'.step # "GetDynamicInfo" /\ entity.step # "GetDynamicInfo" /\ (entity'.milan => entity.milan \/ Milan)
        /\ UNCHANGED <<delayed, stray, stays, toDevice, toController>>
    BY <1>1 DEF Prepares, queryVars, worldVars
  <2>2. entity' # None
    BY <1>1, NoneIsApart DEF Prepares
  <2>. QED  BY <2>1, <2>2 DEF Expecting, Expected, Again
<1>2. CASE Questions
  <2>1. /\ entity # None /\ ~entity.advertised /\ entity.expected = {} /\ (entity.milan => Milan)
    BY <1>2 DEF Questions, Expecting
  <2>2. /\ entity'.advertised = entity.advertised /\ entity'.step = "GetDynamicInfo"
        /\ entity'.expected = Queried(entity.milan) /\ entity'.milan = entity.milan
        /\ UNCHANGED <<delayed, stray, stays, toController>>
    BY <1>2 DEF Questions, queryVars, worldVars
  <2>3. ASSUME NEW a \in Accesses \ stray PROVE Expected(a)'
    <3>1. /\ Sole(toController, toDevice, <<"get", a>>)
          /\ ~Pending(toController, toDevice, <<"get", a>>) /\ Again(a) \notin delayed
      BY <2>1 DEF Expecting, Expected
    <3>2. /\ Sole(toController, toDevice, <<"get", a>>)'
          /\ Pending(toController, toDevice, <<"get", a>>)' <=> a \in Queried(entity.milan)
      BY <1>2, <3>1, QuestionsSend
    <3>3. Again(a)' \notin delayed'
      BY <2>2, <3>1 DEF Again
    <3>. QED  BY <2>2, <3>2, <3>3 DEF Expected
  <2>4. entity' # None
    BY <1>2, NoneIsApart DEF Questions
  <2>. QED  BY <2>1, <2>2, <2>3, <2>4 DEF Expecting
<1>3. CASE Publishes
  <2>1. /\ entity # None /\ entity.step = "GetDynamicInfo" /\ entity.expected = {} /\ entity'.advertised
        /\ entity'.expected = {} /\ entity'.step = entity.step /\ entity'.milan = entity.milan
        /\ UNCHANGED <<delayed, stray, stays, toDevice, toController>>
    BY <1>3 DEF Publishes, queryVars, worldVars
  <2>2. entity' # None
    BY <1>3, NoneIsApart DEF Publishes
  <2>. QED  BY <2>1, <2>2 DEF Expecting, Expected, Again
<1>4. ASSUME NEW q \in Query, Resends(q) PROVE Expecting'
  <2>1. /\ entity # None /\ entity' = entity /\ q \in delayed /\ delayed' = delayed \ {q}
        /\ toDevice' = Append(toDevice, QueryOf(q.access)) /\ toController' = toController /\ stays' = stays
        /\ stray' = stray \cup {a \in {q.access} : q.stay # stays}
    BY <1>4 DEF Resends, worldVars
  <2>2. PICK w \in Seq(Messages), v \in Seq(Request) : w = toController /\ v = toDevice
    BY DEF TypeOK
  <2>3. PICK b \in Accesses : b = q.access
    BY DEF Query
  <2>4. ASSUME NEW a \in Accesses \ stray' PROVE Expected(a)'
    <3>0. a \in Accesses \ stray /\ Expected(a) /\ Again(a)' = Again(a)
      BY <2>1 DEF Expecting, Again
    <3>1. CASE a # b
      <4>1. Again(a) # q
        BY <2>3, <3>1, AgainIs
      <4>2. /\ Sole(w, v, <<"get", a>>) => Sole(w, Append(v, QueryOf(b)), <<"get", a>>)
            /\ Sole(w, v, <<"get", a>>) =>
                 (Pending(w, Append(v, QueryOf(b)), <<"get", a>>) <=> Pending(w, v, <<"get", a>>))
        BY <3>1, QuerySent
      <4>. QED  BY <2>1, <2>2, <2>3, <3>0, <4>1, <4>2 DEF Expected
    <3>2. CASE a = b
      <4>1. q.stay = stays
        BY <2>1, <2>3, <3>2
      <4>2. q = Again(a)
        BY <2>3, <3>2, <4>1 DEF Query, Again
      <4>3. Sole(w, v, <<"get", a>>) /\ ~Pending(w, v, <<"get", a>>) /\ a \in entity.expected
        BY <2>1, <2>2, <3>0, <4>2 DEF Expected
      <4>4. PICK z : z = Append(v, QueryOf(b))
        OBVIOUS
      <4>5. Sole(w, z, <<"get", a>>) /\ Has(z, Of(<<"get", a>>))
        BY <3>2, <4>3, <4>4, QuerySent
      <4>6. Pending(w, z, <<"get", a>>)
        BY <4>5 DEF Pending
      <4>. QED  BY <2>1, <2>2, <2>3, <3>0, <4>2, <4>3, <4>4, <4>5, <4>6 DEF Expected
    <3>. QED  BY <3>1, <3>2
  <2>5. \A p \in delayed' : p.stay \in 0..stays'
    BY <2>1 DEF Expecting
  <2>. QED  BY <2>1, <2>4, <2>5 DEF Expecting
<1>5. ASSUME NEW q \in Query, Abandons(q) PROVE Expecting'
  <2>1. /\ entity = None /\ entity' = entity /\ delayed' = delayed \ {q}
        /\ UNCHANGED <<stray, stays, toDevice, toController>>
    BY <1>5 DEF Abandons, worldVars
  <2>. QED  BY <2>1 DEF Expecting, Expected
<1>. QED  BY <1>1, <1>2, <1>3, <1>4, <1>5 DEF EnumStep

LEMMA ExpectingKept ==
  ASSUME TypeOK, TypeOK', Threads, Expecting,
         CallStep \/ SendStep \/ TokenStep \/ ReadStep \/ RevokeStep \/ StayStep \/ EnumStep \/ DeviceStep
  PROVE  Expecting'
<1>0. /\ \A a \in Accesses \ stray : Sole(toController, toDevice, <<"get", a>>)
      /\ entity # None => entity \in Entity
      /\ "get" \notin Users \cup {None}
  BY ConstantsAssumption DEF Expecting, Expected, TypeOK
<1>b. ASSUME NEW access \in Accesses, NEW release \in BOOLEAN, Advertised, entity' = Begun(access, release),
             UNCHANGED <<toController, toDevice, delayed, stray, stays>>
      PROVE  Expecting'
  <2>1. entity # None /\ Same(entity') /\ entity' # None
    BY <1>0, <1>b, Beginning, NoneIsApart DEF Advertised, Same
  <2>2. \A a \in Accesses \ stray : Still(<<"get", a>>)
    BY <1>0, <1>b, StillUnchanged
  <2>. QED  BY <1>b, <2>1, <2>2, ExpectsOn
<1>c. ASSUME NEW c \in Request, c.by # "get", entity # None, toDevice' = Append(toDevice, c),
             UNCHANGED <<entity, toController, delayed, stray, stays>>
      PROVE  Expecting'
  <2>1. \A a \in Accesses \ stray : Still(<<"get", a>>)
    BY <1>0, <1>c, SentBy, StillSends
  <2>. QED  BY <1>0, <1>c, <2>1, ExpectsOn DEF Same
<1>1. CASE CallStep
  <2>1. ASSUME NEW u \in Users, NEW c \in Call, Begins(u, c) PROVE Expecting'
    <3>1. c.access \in Accesses /\ c.release \in BOOLEAN
      BY DEF Call
    <3>. QED  BY <1>b, <2>1, <3>1 DEF Begins, queryVars, worldVars
  <2>2. CASE Refused \/ \E u \in Users, a \in Accesses : Granted(u, a)
    BY <2>2, ExpectsUnchanged DEF Granted, Refused, queryVars, worldVars
  <2>. QED  BY <1>1, <2>1, <2>2 DEF CallStep
<1>2. CASE SendStep
  <2> SUFFICES ASSUME NEW u \in Users, Sent(u) \/ Unsent(u) \/ SendRelease(u) PROVE Expecting'
    BY <1>2 DEF SendStep
  <2>1. CASE Sent(u)
    <3>1. PICK c : c = Command(call[u].access, call[u].release, u)
      OBVIOUS
    <3>2. call[u] \in Call
      BY <2>1 DEF Sent, Threads, Thread
    <3>3. c \in Request /\ c.by = u
      BY <3>1, <3>2 DEF Command, Request, Call, Requesters
    <3>. QED  BY <1>0, <1>c, <2>1, <3>1, <3>3 DEF Sent, queryVars, worldVars
  <2>2. CASE Unsent(u)
    BY <2>2, ExpectsUnchanged DEF Unsent, queryVars, worldVars
  <2>3. CASE SendRelease(u) /\ entity = None
    BY <2>3, ExpectsUnchanged DEF SendRelease, queryVars, worldVars
  <2>4. CASE SendRelease(u) /\ entity # None
    <3>1. PICK c : c = Command(tokens[u].access, TRUE, None)
      OBVIOUS
    <3>2. tokens[u].access \in Accesses
      BY <2>4 DEF SendRelease, Threads, Thread, TokenLocked, Token
    <3>3. c \in Request /\ c.by = None
      BY <3>1, <3>2 DEF Command, Request, Requesters
    <3>. QED  BY <1>0, <1>c, <2>4, <3>1, <3>3 DEF SendRelease, queryVars, worldVars
  <2>. QED  BY <2>1, <2>2, <2>3, <2>4
<1>3. CASE TokenStep
  <2> SUFFICES ASSUME NEW u \in Users, Destroys(u) \/ ReleaseBegins(u) PROVE Expecting'
    BY <1>3 DEF TokenStep
  <2>1. CASE Destroys(u)
    BY <2>1, ExpectsUnchanged DEF Destroys, queryVars, worldVars
  <2>2. CASE ReleaseBegins(u)
    <3>1. tokens[u].access \in Accesses
      BY <2>2 DEF ReleaseBegins, Threads, Thread, TokenLocked, Token
    <3>. QED  BY <1>b, <2>2, <3>1 DEF ReleaseBegins, queryVars, worldVars
  <2>. QED  BY <2>1, <2>2
<1>5. CASE RevokeStep
  <2>1. UNCHANGED <<entity, toController, toDevice, delayed, stray, stays>>
    BY <1>5 DEF RevokeStep, Concludes, Invalidates, queryVars, worldVars
  <2>. QED  BY <2>1, ExpectsUnchanged
<1>6. CASE StayStep
  <2>1. CASE OnEntityOnline
    <3>1. PICK s : s = [a \in Accesses |-> "Undefined"]
      OBVIOUS
    <3>2. /\ entity' = [advertised |-> FALSE, milan |-> FALSE, step |-> "GetMilanInfo", expected |-> {},
                        retry |-> TRUE, state |-> s]
          /\ delayed' = delayed /\ stays' = stays + 1 /\ stays \in Nat
      BY <2>1, <3>1 DEF OnEntityOnline, TypeOK
    <3>3. ~entity'.advertised /\ entity'.expected = {} /\ ~entity'.milan
      BY <3>2
    <3>4. \A a \in Accesses : Again(a)' \notin delayed'
      BY <3>2 DEF Expecting, Again
    <3>5. \A q \in delayed' : q.stay \in 0..stays'
      BY <3>2 DEF Expecting
    <3>6. \A x : Sole(toController, toDevice, x)' /\ ~Pending(toController, toDevice, x)'
      BY <2>1, OnlineIs
    <3>7. entity' # None
      <4>1. s \in [Accesses -> States]
        BY <3>1 DEF States
      <4>2. entity' \in Entity
        BY <3>2, <4>1 DEF Entity, Steps
      <4>. QED  BY <4>2, NoneIsApart
    <3>. QED  BY <3>3, <3>4, <3>5, <3>6, <3>7 DEF Expecting, Expected
  <2>2. CASE OnEntityOffline
    <3>1. /\ entity' = None /\ toDevice' = <<>> /\ toController' = <<>>
          /\ UNCHANGED <<delayed, stray, stays>>
      BY <2>2 DEF OnEntityOffline, queryVars
    <3>. QED  BY <3>1, NothingPending DEF Expecting, Expected
  <2>3. CASE Shutdown
    <3>1. UNCHANGED <<entity, toController, delayed, stray, stays>>
      BY <2>3 DEF Shutdown, queryVars, worldVars
    <3>2. CASE entity = None
      BY <2>3, <3>1, <3>2, ShutdownIs, ExpectsUnchanged
    <3>3. CASE entity # None
      <4>1. \A a \in Accesses : \A c \in Request : c.by = None => c \notin Of(<<"get", a>>)
        BY <1>0, SentBy
      <4>2. \A a \in Accesses \ stray : Still(<<"get", a>>)
        BY <1>0, <2>3, <4>1, ShutdownIs
      <4>. QED  BY <1>0, <3>1, <3>3, <4>2, ExpectsOn DEF Same
    <3>. QED  BY <3>2, <3>3
  <2>. QED  BY <1>6, <2>1, <2>2, <2>3 DEF StayStep
<1>7. CASE DeviceStep
  <2>1. ASSUME NEW c \in Request, NEW m \in Response, Replies(c, m) \/ Loses(c, m) PROVE Expecting'
    <3>1. Travels(c, m) /\ UNCHANGED <<entity, delayed, stray, stays>>
      BY <2>1 DEF Replies, Loses, Travels, queryVars
    <3>2. entity # None
      BY <3>1 DEF Travels, Expecting
    <3>3. \A a \in Accesses \ stray : Still(<<"get", a>>)
      BY <1>0, <3>1, StillTravels
    <3>. QED  BY <1>0, <3>1, <3>2, <3>3, ExpectsOn DEF Same
  <2>2. ASSUME NEW a \in Implemented, NEW h \in Others \cup {None}, Changes(a, h) PROVE Expecting'
    <3>1. UNCHANGED <<entity, toDevice, delayed, stray, stays>>
      BY <2>2 DEF Changes, queryVars
    <3>2. CASE toController' = toController
      BY <3>1, <3>2, ExpectsUnchanged
    <3>3. CASE entity # None /\ toController' = Append(toController, News(a, h))
      <4>1. PICK m \in Messages : m = News(a, h) /\ m.by = None
        BY NewsIs DEF Implemented, Accesses, Holders, Messages
      <4>2. \A b \in Accesses : m \notin Of(<<"get", b>>)
        BY <1>0, <4>1, ReadBy
      <4>3. \A b \in Accesses \ stray : Still(<<"get", b>>)
        BY <1>0, <3>1, <3>3, <4>1, <4>2, StillTold
      <4>. QED  BY <1>0, <3>1, <3>3, <4>3, ExpectsOn DEF Same
    <3>. QED  BY <2>2, <3>2, <3>3 DEF Changes
  <2>. QED  BY <1>7, <2>1, <2>2 DEF DeviceStep
<1>. QED  BY <1>1, <1>2, <1>3, <1>5, <1>6, <1>7, ExpectingOnReads, ExpectingOnTheEnumeration

-----------------------------------------------------------------------------
(* What messages say                                                         *)

LEMMA AnswersOn ==
  ASSUME Answers, faults' = faults \/ faults' # 0,
         \A c \in Range(toDevice') : c \in Range(toDevice) \/ (c.by = "get" => c.release),
         \A m \in Range(toController') : m \in Range(toController) \/ IsFit(m)'
  PROVE  /\ \A c \in Range(toDevice') : c.by = "get" => c.release
         /\ \A m \in Range(toController') : IsFit(m)'
BY DEF Answers, IsFit

LEMMA FitKept ==
  ASSUME TypeOK, TypeOK', Threads, Expecting, Answers,
         CallStep \/ SendStep \/ TokenStep \/ ReadStep \/ RevokeStep \/ StayStep \/ EnumStep \/ DeviceStep
  PROVE  /\ \A c \in Range(toDevice') : c.by = "get" => c.release
         /\ \A m \in Range(toController') : IsFit(m)'
<1> DEFINE Fit == /\ \A c \in Range(toDevice') : c.by = "get" => c.release
                  /\ \A m \in Range(toController') : IsFit(m)'
<1> SUFFICES Fit
  OBVIOUS
<1>0. "get" \notin Users \cup {None}
  BY ConstantsAssumption
<1>a. ASSUME NEW c \in Request, c.by = "get" => c.release, toDevice' = Append(toDevice, c),
             UNCHANGED <<toController, faults>>
      PROVE  Fit
  <2>1. Range(toDevice') = Range(toDevice) \cup {c}
    BY <1>a, RangeSent
  <2>. QED  BY <1>a, <2>1, AnswersOn
<1>b. ASSUME UNCHANGED <<toController, toDevice, faults>> PROVE Fit
  BY <1>b, AnswersOn
<1> HIDE DEF Fit
<1>1. CASE CallStep \/ TokenStep \/ RevokeStep
  BY <1>1, <1>b DEF CallStep, TokenStep, RevokeStep, Begins, Granted, Refused, Destroys, ReleaseBegins, Concludes,
                    Invalidates, worldVars
<1>2. CASE SendStep
  <2> SUFFICES ASSUME NEW u \in Users, Sent(u) \/ Unsent(u) \/ SendRelease(u) PROVE Fit
    BY <1>2 DEF SendStep
  <2>1. UNCHANGED <<toController, faults>>
    BY DEF Sent, Unsent, SendRelease, worldVars
  <2>2. CASE Sent(u)
    <3>1. PICK c : c = Command(call[u].access, call[u].release, u)
      OBVIOUS
    <3>2. call[u] \in Call
      BY <2>2 DEF Sent, Threads, Thread
    <3>3. c \in Request /\ c.by = u
      BY <3>1, <3>2 DEF Command, Request, Call, Requesters
    <3>. QED  BY <1>0, <1>a, <2>1, <2>2, <3>1, <3>3 DEF Sent
  <2>3. CASE toDevice' = toDevice
    BY <1>b, <2>1, <2>3
  <2>4. CASE SendRelease(u) /\ entity # None
    <3>1. PICK c : c = Command(tokens[u].access, TRUE, None)
      OBVIOUS
    <3>2. tokens[u].access \in Accesses
      BY <2>4 DEF SendRelease, Threads, Thread, TokenLocked, Token
    <3>3. c \in Request /\ c.by = None
      BY <3>1, <3>2 DEF Command, Request, Requesters
    <3>. QED  BY <1>0, <1>a, <2>1, <2>4, <3>1, <3>3 DEF SendRelease
  <2>. QED  BY <2>2, <2>3, <2>4 DEF Unsent, SendRelease
<1>3. CASE ReadStep
  <2>1. PICK m \in Messages : Reads(m)
    BY <1>3 DEF ReadStep, Ignores, Retries, Learns, Revokes, Tells, Passes
  <2>2. Range(toController') \subseteq Range(toController) /\ UNCHANGED <<toDevice, faults>>
    BY <2>1, HeadIs DEF Reads, worldVars
  <2>. QED  BY <2>2, AnswersOn DEF Fit
<1>4. CASE StayStep
  <2>1. CASE OnEntityOnline
    BY <1>b, <2>1 DEF OnEntityOnline
  <2>2. CASE OnEntityOffline
    <3>1. toController' = <<>> /\ toDevice' = <<>>
      BY <2>2 DEF OnEntityOffline
    <3>. QED  BY <3>1, EmptyIs DEF Fit
  <2>3. CASE Shutdown
    <3>1. UNCHANGED <<toController, faults>>
      BY <2>3 DEF Shutdown, worldVars
    <3>2. \A c \in Range(toDevice') : c \in Range(toDevice) \/ c.release
      BY <2>3, ShutdownIs
    <3>. QED  BY <3>1, <3>2, AnswersOn DEF Fit
  <2>. QED  BY <1>4, <2>1, <2>2, <2>3 DEF StayStep
<1>5. CASE EnumStep
  <2>1. UNCHANGED <<toController, faults>>
    BY <1>5 DEF EnumStep, Prepares, Questions, Publishes, Resends, Abandons, worldVars
  <2>2. CASE Prepares \/ Publishes \/ \E q \in Query : Abandons(q)
    BY <1>b, <2>1, <2>2 DEF Prepares, Publishes, Abandons
  <2>3. CASE Questions
    <3>1. \A c \in Range(toDevice') : c \in Range(toDevice) \/ \E b \in Accesses : c = QueryOf(b)
      BY <2>3, QuestionsSend DEF Queried, Accesses
    <3>. QED  BY <2>1, <3>1, QueryIs, AnswersOn DEF Fit
  <2>4. ASSUME NEW q \in Query, Resends(q) PROVE Fit
    <3>1. PICK c \in Request : c = QueryOf(q.access) /\ c.release
      BY QueryIs DEF Query
    <3>. QED  BY <1>a, <2>1, <2>4, <3>1 DEF Resends
  <2>. QED  BY <1>5, <2>2, <2>3, <2>4 DEF EnumStep
<1>6. ASSUME NEW c \in Request, NEW m \in Response, Replies(c, m) \/ Loses(c, m) PROVE Fit
  <2>1. Travels(c, m)
    BY <1>6 DEF Replies, Loses
  <2>2. Range(toDevice) = Range(toDevice') \cup {c} /\ Range(toController') = Range(toController) \cup {m}
    BY <2>1, RangeTravels
  <2>3. (m.by = "get" => m.release) /\ m.kind # "notification"
    BY <2>1, <2>2 DEF Answers, Travels
  <2>4. faults' = faults \/ faults' # 0
    <3>1. faults \in Nat
      BY DEF TypeOK
    <3>. QED  BY <1>6, <3>1 DEF Replies, Loses
  <2>5. CASE Replies(c, m)
    <3>1. /\ m.status # "TimedOut" /\ m.release = c.release /\ m.access = c.access
          /\ m.status = "Success" => m.holder = (IF c.release THEN None ELSE Us) /\ c.access \in Implemented
      BY <2>5, ProcessedIs DEF Replies
    <3>2. IsFit(m)'
      BY <2>3, <3>1 DEF IsFit
    <3>. QED  BY <2>2, <2>4, <3>2, AnswersOn DEF Fit
  <2>6. CASE Loses(c, m)
    <3>1. m.status = "TimedOut" /\ faults' = faults + 1 /\ faults \in Nat
      BY <2>6 DEF Loses, TypeOK
    <3>2. faults' # 0
      BY <3>1
    <3>3. IsFit(m)'
      BY <2>3, <3>1, <3>2 DEF IsFit
    <3>. QED  BY <2>2, <2>4, <3>3, AnswersOn DEF Fit
  <2>. QED  BY <1>6, <2>5, <2>6
<1>7. ASSUME NEW a \in Implemented, NEW h \in Others \cup {None}, Changes(a, h) PROVE Fit
  <2>1. PICK m \in Messages : m = News(a, h) /\ m.by = None /\ m.kind = "notification" /\ m.access = a
    BY NewsIs DEF Implemented, Accesses, Holders, Messages
  <2>2. toController' = toController \/ Range(toController') = Range(toController) \cup {m}
    BY <1>7, <2>1, RangeTold DEF Changes
  <2>3. IsFit(m)'
    BY <1>0, <2>1 DEF IsFit
  <2>4. UNCHANGED <<toDevice, faults>>
    BY <1>7 DEF Changes
  <2>. QED  BY <2>2, <2>3, <2>4, AnswersOn DEF Fit
<1>. QED  BY <1>1, <1>2, <1>3, <1>4, <1>5, <1>6, <1>7 DEF DeviceStep

\* Only what is implemented is said to be held.
LEMMA HeldSaid ==
  ASSUME Answers, NEW m \in Messages, m \in Range(toController), Says(m) = "Held"
  PROVE  m.access \in Implemented
<1>1. IsFit(m)
  BY DEF Answers
<1>2. CASE m.kind = "notification"
  BY <1>1, <1>2 DEF IsFit
<1>3. CASE m.kind # "notification"
  <2>1. m.kind = "response" /\ InfoFromStatus(m) = "Held"
    BY <1>3 DEF Says, Messages, Response, Notification
  <2>2. m.status = "Success"
    BY <2>1 DEF InfoFromStatus
  <2>. QED  BY <1>1, <2>1, <2>2 DEF IsFit
<1>. QED  BY <1>2, <1>3

\* What a message that is read makes of the state.
LEMMA ReadIs ==
  ASSUME TypeOK, NEW m \in Messages,
         Ignores(m) \/ Retries(m) \/ Learns(m) \/ Revokes(m) \/ Tells(m) \/ Passes(m)
  PROVE  /\ Reads(m) /\ entity # None /\ entity \in Entity /\ m \in Range(toController) /\ m.access \in Accesses
         /\ (Ignores(m) /\ entity' = entity) \/ entity'.state = [entity.state EXCEPT ![m.access] = Says(m)]
         /\ \A a \in Accesses : entity'.state[a] = entity.state[a] \/ (m.access = a /\ entity'.state[a] = Says(m))
         /\ ~Ignores(m) => entity'.state[m.access] = Says(m)
<1>1. Reads(m) /\ entity # None /\ entity \in Entity /\ m \in Range(toController) /\ m.access \in Accesses
  BY SaysIs, HeadIs DEF Ignores, Retries, Learns, Revokes, Tells, Passes, Reads, TypeOK
<1>2. CASE Ignores(m)
  BY <1>1, <1>2 DEF Ignores
<1>3. CASE ~Ignores(m)
  <2>1. entity'.state = [entity.state EXCEPT ![m.access] = Says(m)]
    BY <1>1, <1>3, Updates, Retrying, Learning DEF Retries, Learns, Revokes, Tells, Passes
  <2>. QED  BY <1>1, <1>3, <2>1 DEF Entity
<1>. QED  BY <1>2, <1>3

LEMMA HeldKept ==
  ASSUME TypeOK, TypeOK', Threads, Answers, entity' # None, NEW a \in Accesses, entity'.state[a] = "Held",
         CallStep \/ SendStep \/ TokenStep \/ ReadStep \/ RevokeStep \/ StayStep \/ EnumStep \/ DeviceStep
  PROVE  a \in Implemented
<1>0. entity # None => entity \in Entity /\ (entity.state[a] = "Held" => a \in Implemented)
  BY DEF TypeOK, Answers
<1>a. ASSUME NEW access \in Accesses, NEW release \in BOOLEAN, entity # None, entity' = Begun(access, release)
      PROVE  a \in Implemented
  <2>1. PICK e : e = Begun(access, release)
    OBVIOUS
  <2>2. InProgress(e.state[access]) /\ \A b \in Accesses : b # access => e.state[b] = entity.state[b]
    BY <1>0, <1>a, <2>1, Beginning
  <2>3. e.state[a] = "Held"
    BY <1>a, <2>1
  <2>. QED  BY <1>0, <1>a, <2>2, <2>3 DEF InProgress
<1>b. ASSUME entity' = entity PROVE a \in Implemented
  BY <1>0, <1>b
<1>1. CASE CallStep
  <2>1. ASSUME NEW u \in Users, NEW c \in Call, Begins(u, c) PROVE a \in Implemented
    <3>1. c.access \in Accesses /\ c.release \in BOOLEAN /\ entity # None
      BY <2>1 DEF Call, Begins, Advertised
    <3>. QED  BY <1>a, <2>1, <3>1 DEF Begins
  <2>. QED  BY <1>1, <1>b, <2>1 DEF CallStep, Granted, Refused
<1>2. CASE TokenStep
  <2>1. ASSUME NEW u \in Users, ReleaseBegins(u) PROVE a \in Implemented
    <3>1. tokens[u].access \in Accesses /\ entity # None
      BY <2>1 DEF ReleaseBegins, Advertised, Threads, Thread, TokenLocked, Token
    <3>. QED  BY <1>a, <2>1, <3>1 DEF ReleaseBegins
  <2>. QED  BY <1>2, <1>b, <2>1 DEF TokenStep, Destroys
<1>3. CASE ReadStep
  <2>1. PICK m \in Messages : Ignores(m) \/ Retries(m) \/ Learns(m) \/ Revokes(m) \/ Tells(m) \/ Passes(m)
    BY <1>3 DEF ReadStep
  <2>2. /\ entity'.state[a] = entity.state[a] \/ (m.access = a /\ entity'.state[a] = Says(m))
        /\ m \in Range(toController) /\ entity # None
    BY <2>1, ReadIs
  <2>. QED  BY <1>0, <2>2, HeldSaid
<1>4. CASE SendStep \/ RevokeStep \/ DeviceStep
  BY <1>4, <1>b DEF SendStep, Sent, Unsent, SendRelease, RevokeStep, Concludes, Invalidates, DeviceStep,
                    Replies, Loses, Travels, Changes
<1>5. CASE StayStep
  <2>1. CASE OnEntityOnline
    <3>1. entity'.state[a] = "Undefined"
      BY <2>1 DEF OnEntityOnline
    <3>. QED  BY <3>1
  <2>. QED  BY <1>5, <1>b, <2>1 DEF StayStep, OnEntityOffline, Shutdown
<1>6. CASE EnumStep
  <2>1. CASE Questions
    <3>1. entity # None /\ entity'.state[a] = (IF a \in Queried(entity.milan) THEN entity.state[a] ELSE "NotSupported")
      BY <2>1 DEF Questions
    <3>. QED  BY <1>0, <3>1
  <2>2. CASE Prepares \/ Publishes
    <3>1. entity # None /\ entity'.state = entity.state
      BY <2>2 DEF Prepares, Publishes
    <3>. QED  BY <1>0, <3>1
  <2>. QED  BY <1>6, <1>b, <2>1, <2>2 DEF EnumStep, Resends, Abandons
<1>. QED  BY <1>1, <1>2, <1>3, <1>4, <1>5, <1>6

\* Without faults, no query times out.
LEMMA NothingDelayed ==
  ASSUME TypeOK, TypeOK', Answers, faults' = 0,
         CallStep \/ SendStep \/ TokenStep \/ ReadStep \/ RevokeStep \/ StayStep \/ EnumStep \/ DeviceStep
  PROVE  faults = 0 /\ delayed' = {} /\ stray' = {}
<1>1. faults = 0 => delayed = {} /\ stray = {}
  BY DEF Answers
<1>2. CASE CallStep \/ SendStep \/ TokenStep \/ RevokeStep
  BY <1>1, <1>2 DEF CallStep, SendStep, TokenStep, RevokeStep, Begins, Granted, Refused, Sent, Unsent, SendRelease,
                    Destroys, ReleaseBegins, Concludes, Invalidates, queryVars, worldVars
<1>3. CASE ReadStep
  <2>1. PICK m \in Messages : Ignores(m) \/ Retries(m) \/ Learns(m) \/ Revokes(m) \/ Tells(m) \/ Passes(m)
    BY <1>3 DEF ReadStep
  <2>2. Reads(m) /\ UNCHANGED <<stray, faults>>
    BY <2>1, ReadIs DEF Reads, worldVars
  <2>3. ~Retries(m)
    <3> SUFFICES ASSUME Retries(m) PROVE FALSE
      OBVIOUS
    <3>1. IsFit(m) /\ m.by = "get" /\ m.status = "TimedOut"
      BY <2>1, ReadIs DEF Answers, Retries
    <3>2. "get" # None
      BY ConstantsAssumption
    <3>3. m.kind = "response"
      BY <3>1, <3>2 DEF Messages, Response, Notification
    <3>. QED  BY <2>2, <3>1, <3>3 DEF IsFit
  <2>. QED  BY <1>1, <2>1, <2>2, <2>3 DEF Ignores, Learns, Revokes, Tells, Passes
<1>4. CASE StayStep
  BY <1>1, <1>4 DEF StayStep, OnEntityOnline, OnEntityOffline, Shutdown, queryVars, worldVars
<1>5. CASE EnumStep
  <2>1. faults' = faults
    BY <1>5 DEF EnumStep, Prepares, Questions, Publishes, Resends, Abandons, worldVars
  <2>. QED  BY <1>1, <1>5, <2>1 DEF EnumStep, Prepares, Questions, Publishes, Resends, Abandons, queryVars
<1>6. CASE DeviceStep
  <2>0. faults \in Nat
    BY DEF TypeOK
  <2>1. faults + 1 # 0
    BY <2>0
  <2>2. UNCHANGED queryVars /\ (faults' = faults \/ faults' = faults + 1)
    BY <1>6 DEF DeviceStep, Replies, Loses, Travels, Changes
  <2>. QED  BY <1>1, <2>1, <2>2 DEF queryVars
<1>. QED  BY <1>2, <1>3, <1>4, <1>5, <1>6

LEMMA AnswersKept ==
  ASSUME TypeOK, TypeOK', Threads, Expecting, Answers,
         CallStep \/ SendStep \/ TokenStep \/ ReadStep \/ RevokeStep \/ StayStep \/ EnumStep \/ DeviceStep
  PROVE  Answers'
BY FitKept, HeldKept, NothingDelayed DEF Answers

-----------------------------------------------------------------------------
(* The state follows the device                                              *)

LEMMA FollowsOn ==
  ASSUME NEW a, Follows(a), toController' = toController, device'[a] = device[a], faults # 0 => faults' # 0,
         Underway(a)' \/ (entity'.state[a] = entity.state[a] /\ ~Underway(a))
  PROVE  Follows(a)'
<1>1. \A s : IsTrue(s, a) => IsTrue(s, a)'
  BY DEF IsTrue
<1>. QED  BY <1>1 DEF Follows

\* A message is read: the next one says what is true, or the state does.
LEMMA FollowsRead ==
  ASSUME TypeOK, NEW m \in Messages, Reads(m), NEW a \in Implemented, Follows(a),
         Underway(a)' \/ (entity'.state[a] = (IF m.access = a THEN Says(m) ELSE entity.state[a]) /\ ~Underway(a))
  PROVE  Follows(a)'
<1>1. toController # <<>> /\ toController \in Seq(Messages) /\ m = Head(toController) /\ toController' = Tail(toController)
      /\ UNCHANGED <<device, faults>>
  BY DEF Reads, TypeOK, worldVars
<1>2. \A s : IsTrue(s, a) => IsTrue(s, a)'
  BY <1>1 DEF IsTrue
<1>3. /\ Lasts(toController', On(a)) \subseteq Lasts(toController, On(a))
      /\ m \in On(a) /\ ~Has(toController', On(a)) => m \in Lasts(toController, On(a))
      /\ Has(toController, On(a)) <=> Has(toController', On(a)) \/ m \in On(a)
  BY <1>1, LastsTail, HasTail
<1>4. m \in On(a) <=> m.access = a
  BY DEF On
<1>5. \A n \in Lasts(toController', On(a)) : IsTrue(Says(n), a)'
  BY <1>2, <1>3 DEF Follows
<1>6. ASSUME ~Has(toController', On(a)), ~Underway(a)' PROVE IsTrue(entity.state[a], a)'
  <2>1. PICK s : s = entity'.state[a]
    OBVIOUS
  <2>2. IsTrue(s, a)
    <3>1. CASE m.access = a
      <4>1. IsTrue(Says(m), a)
        BY <1>3, <1>4, <1>6, <3>1 DEF Follows
      <4>2. s = Says(m)
        BY <1>6, <2>1, <3>1
      <4>. QED  BY <4>1, <4>2
    <3>2. CASE m.access # a
      <4>1. IsTrue(entity.state[a], a)
        BY <1>3, <1>4, <1>6, <3>2 DEF Follows
      <4>2. s = entity.state[a]
        BY <1>6, <2>1, <3>2
      <4>. QED  BY <4>1, <4>2
    <3>. QED  BY <3>1, <3>2
  <2>3. IsTrue(s, a)'
    BY <1>2, <2>2
  <2>. QED  BY <2>1, <2>3 DEF IsTrue
<1>. QED  BY <1>5, <1>6 DEF Follows

\* A message comes that says what is true.
LEMMA FollowsTold ==
  ASSUME TypeOK, NEW m \in Messages, toController' = Append(toController, m), entity' = entity,
         NEW a, faults # 0 => faults' # 0,
         m.access = a => IsTrue(Says(m), a)',
         m.access # a => Follows(a) /\ device'[a] = device[a] /\ (Underway(a) => Underway(a)')
  PROVE  Follows(a)'
<1>0. toController \in Seq(Messages)
  BY DEF TypeOK
<1>1. /\ m \in On(a) => Lasts(toController', On(a)) \subseteq {m}
      /\ m \notin On(a) => Lasts(toController', On(a)) \subseteq Lasts(toController, On(a))
      /\ Has(toController', On(a)) <=> Has(toController, On(a)) \/ m \in On(a)
  BY <1>0, LastsAppend, HasAppend
<1>2. m \in On(a) <=> m.access = a
  BY DEF On
<1>3. CASE m.access = a
  BY <1>1, <1>2, <1>3 DEF Follows
<1>4. CASE m.access # a
  <2>1. \A s : IsTrue(s, a) => IsTrue(s, a)'
    BY <1>4 DEF IsTrue
  <2>. QED  BY <1>1, <1>2, <1>4, <2>1 DEF Follows
<1>. QED  BY <1>3, <1>4

LEMMA UnderwayOn ==
  ASSUME NEW a, Has(toDevice, On(a)) => Has(toDevice', On(a)),
         \A u \in Users : (Sends(u, a) => Sends(u, a)' \/ Has(toDevice', On(a))) /\ (Releases(u, a) => Releases(u, a)' \/ Has(toDevice', On(a)))
  PROVE  Underway(a) => Underway(a)'
BY DEF Underway

LEMMA UnderwaySent ==
  ASSUME TypeOK, NEW c \in Request, toDevice' = Append(toDevice, c), NEW a
  PROVE  /\ Has(toDevice, On(a)) => Has(toDevice', On(a))
         /\ c.access = a => Has(toDevice', On(a)) /\ Underway(a)'
<1>1. PICK q \in Seq(Request) : q = toDevice
  BY DEF TypeOK
<1>2. Has(Append(q, c), On(a)) <=> Has(q, On(a)) \/ c \in On(a)
  BY HasAppend
<1>3. c.access = a => c \in On(a)
  BY DEF On
<1>. QED  BY <1>1, <1>2, <1>3 DEF Underway

LEMMA FollowsOnUsers ==
  ASSUME TypeOK, TypeOK', Threads, NEW a \in Implemented, Follows(a), entity' # None,
         CallStep \/ SendStep \/ TokenStep
  PROVE  Follows(a)'
<1>0. UNCHANGED <<toController, device, faults, over>>
  BY DEF CallStep, SendStep, TokenStep, Begins, Granted, Refused, Sent, Unsent, SendRelease, Destroys, ReleaseBegins,
         worldVars
<1>a. a \in Accesses
  BY DEF Implemented, Accesses
<1>b. ASSUME entity # None, Underway(a)' \/ (entity'.state[a] = entity.state[a] /\ ~Underway(a)) PROVE Follows(a)'
  BY <1>0, <1>b, FollowsOn
\* An operation begins.
<1>c. ASSUME NEW access \in Accesses, NEW release \in BOOLEAN, Advertised, entity' = Begun(access, release),
             access = a => Underway(a)', Underway(a) => Underway(a)'
      PROVE  Follows(a)'
  <2>1. entity # None /\ entity \in Entity
    BY <1>c DEF Advertised, TypeOK
  <2>2. a # access => entity'.state[a] = entity.state[a]
    BY <1>a, <1>c, <2>1, Beginning
  <2>. QED  BY <1>b, <1>c, <2>1, <2>2
<1>1. ASSUME NEW u \in Users, NEW c \in Call, Begins(u, c) PROVE Follows(a)'
  <2>1. c.access \in Accesses /\ c.release \in BOOLEAN
    BY DEF Call
  <2>2. pc[u] = "idle" /\ pc'[u] = "sending" /\ call'[u] = c /\ UNCHANGED <<tokens, toDevice>>
    BY <1>1 DEF Begins, TypeOK, tokenVars
  <2>3. c.access = a => Underway(a)'
    BY <2>2 DEF Underway, Sends
  <2>4. \A v \in Users : (Sends(v, a) => Sends(v, a)') /\ (Releases(v, a) => Releases(v, a)')
    BY <1>1, <2>2 DEF Begins, Sends, Releases, TypeOK
  <2>5. Underway(a) => Underway(a)'
    BY <2>2, <2>4, UnderwayOn
  <2>. QED  BY <1>1, <1>c, <2>1, <2>3, <2>5 DEF Begins
<1>2. ASSUME NEW u \in Users, NEW b \in Accesses, Granted(u, b) PROVE Follows(a)'
  <2>1. UNCHANGED <<entity, pc, call, toDevice>> /\ pc[u] = "idle" /\ entity # None
    BY <1>2 DEF Granted, Advertised
  <2>2. \A v \in Users : (Sends(v, a) => Sends(v, a)') /\ (Releases(v, a) => Releases(v, a)')
    BY <1>2, <2>1 DEF Granted, Sends, Releases, TypeOK
  <2>3. Underway(a) => Underway(a)'
    BY <2>1, <2>2, UnderwayOn
  <2>. QED  BY <1>b, <2>1, <2>3
<1>3. ASSUME Refused PROVE Follows(a)'
  <2>1. UNCHANGED <<entity, pc, call, toDevice, tokens>>
    BY <1>3 DEF Refused, tokenVars
  <2>2. Underway(a) => Underway(a)'
    BY <2>1 DEF Underway, Sends, Releases
  <2>. QED  BY <1>b, <2>1, <2>2
<1>4. ASSUME NEW u \in Users, Sent(u) PROVE Follows(a)'
  <2>1. PICK c : c = Command(call[u].access, call[u].release, u)
    OBVIOUS
  <2>2. call[u] \in Call
    BY <1>4 DEF Sent, Threads, Thread
  <2>3. c \in Request /\ c.access = call[u].access
    BY <2>1, <2>2 DEF Command, Request, Call, Requesters
  <2>4. /\ Has(toDevice, On(a)) => Has(toDevice', On(a))
        /\ c.access = a => Has(toDevice', On(a))
    BY <1>4, <2>1, <2>3, UnderwaySent DEF Sent
  <2>5. \A v \in Users : (Sends(v, a) => Sends(v, a)' \/ Has(toDevice', On(a))) /\ (Releases(v, a) => Releases(v, a)')
    BY <1>4, <2>3, <2>4 DEF Sent, Sends, Releases, TypeOK, tokenVars
  <2>6. Underway(a) => Underway(a)'
    BY <2>4, <2>5, UnderwayOn
  <2>7. entity' = entity
    BY <1>4 DEF Sent
  <2>. QED  BY <1>b, <2>6, <2>7
<1>5. ASSUME NEW u \in Users, Unsent(u) PROVE Follows(a)'
  BY <1>5 DEF Unsent
<1>6. ASSUME NEW u \in Users, SendRelease(u) PROVE Follows(a)'
  <2>0. entity' = entity
    BY <1>6 DEF SendRelease
  <2>1. PICK c : c = Command(tokens[u].access, TRUE, None)
    OBVIOUS
  <2>2. tokens[u].access \in Accesses
    BY <1>6 DEF SendRelease, Threads, Thread, TokenLocked, Token
  <2>3. c \in Request /\ c.access = tokens[u].access
    BY <2>1, <2>2 DEF Command, Request, Requesters
  <2>4. /\ Has(toDevice, On(a)) => Has(toDevice', On(a))
        /\ c.access = a => Has(toDevice', On(a))
    BY <1>6, <2>0, <2>1, <2>3, UnderwaySent DEF SendRelease
  <2>5. \A v \in Users : (Sends(v, a) => Sends(v, a)') /\ (Releases(v, a) => Releases(v, a)' \/ Has(toDevice', On(a)))
    BY <1>6, <2>3, <2>4 DEF SendRelease, Sends, Releases, TypeOK
  <2>6. Underway(a) => Underway(a)'
    BY <2>4, <2>5, UnderwayOn
  <2>. QED  BY <1>b, <2>0, <2>6
<1>7. ASSUME NEW u \in Users, Destroys(u) PROVE Follows(a)'
  <2>1. UNCHANGED <<entity, call, toDevice>>
    BY <1>7 DEF Destroys
  <2>2. pc[u] \notin {"sending", "sendingRelease"}
    BY <1>7 DEF Destroys
  <2>3. \A v \in Users : v # u => pc'[v] = pc[v] /\ tokens'[v] = tokens[v]
    BY <1>7 DEF Destroys, Forgets, TypeOK
  <2>4. \A v \in Users : (Sends(v, a) => Sends(v, a)') /\ (Releases(v, a) => Releases(v, a)')
    BY <2>1, <2>2, <2>3 DEF Sends, Releases
  <2>5. Underway(a) => Underway(a)'
    BY <2>1, <2>4, UnderwayOn
  <2>. QED  BY <1>b, <2>1, <2>5
<1>8. ASSUME NEW u \in Users, ReleaseBegins(u) PROVE Follows(a)'
  <2>1. tokens[u].access \in Accesses
    BY <1>8 DEF ReleaseBegins, Threads, Thread, TokenLocked, Token
  <2>2. pc[u] = "releasing" /\ pc'[u] = "sendingRelease" /\ UNCHANGED <<tokens, toDevice, call>>
    BY <1>8 DEF ReleaseBegins, TypeOK, tokenVars
  <2>3. tokens[u].access = a => Underway(a)'
    BY <2>2 DEF Underway, Releases
  <2>4. \A v \in Users : (Sends(v, a) => Sends(v, a)') /\ (Releases(v, a) => Releases(v, a)')
    BY <1>8, <2>2 DEF ReleaseBegins, Sends, Releases, TypeOK
  <2>5. Underway(a) => Underway(a)'
    BY <2>2, <2>4, UnderwayOn
  <2>. QED  BY <1>8, <1>c, <2>1, <2>3, <2>5 DEF ReleaseBegins
<1>. QED  BY <1>1, <1>2, <1>3, <1>4, <1>5, <1>6, <1>7, <1>8 DEF CallStep, SendStep, TokenStep

\* What an answer says of an access that the device implements.
LEMMA AnswersTrue ==
  ASSUME TypeOK, NEW c \in Request, c.access \in Implemented
  PROVE  Says(Processed(c)) = StateOf(Holds(c)[c.access])
<1>1. PICK m \in Response : m = Processed(c)
  BY ProcessedIs
<1>2. /\ m.release = c.release /\ m.status \in {"Success", "HeldByOther"}
      /\ m.status = "Success" => m.holder = (IF c.release THEN None ELSE Us)
      /\ m.status = "HeldByOther" => device[c.access] \in Others
  BY <1>1, ProcessedIs
<1>3. Says(m) = InfoFromStatus(m)
  BY DEF Says, Response
<1>4. /\ m.status = "Success" => Holds(c)[c.access] = m.holder
      /\ m.status # "Success" => Holds(c) = device
  BY <1>1, HoldsIs DEF TypeOK
<1>5. CASE m.status = "Success" /\ c.release
  <2>1. InfoFromStatus(m) = "NotHeld"
    BY <1>2, <1>5 DEF InfoFromStatus
  <2>. QED  BY <1>1, <1>2, <1>3, <1>4, <1>5, <2>1, StateOfIs
<1>6. CASE m.status = "Success" /\ ~c.release
  <2>1. InfoFromStatus(m) = StateOf(m.holder)
    BY <1>2, <1>6 DEF InfoFromStatus
  <2>. QED  BY <1>1, <1>3, <1>4, <1>6, <2>1
<1>7. CASE m.status = "HeldByOther"
  <2>1. InfoFromStatus(m) = "HeldByOther"
    BY <1>7 DEF InfoFromStatus
  <2>. QED  BY <1>1, <1>2, <1>3, <1>4, <1>7, <2>1, StateOfIs
<1>. QED  BY <1>2, <1>5, <1>6, <1>7

LEMMA TimedOutSays ==
  ASSUME NEW m \in Response, m.status = "TimedOut" PROVE Says(m) = "Undefined"
<1>1. Says(m) = InfoFromStatus(m)
  BY DEF Says, Response
<1>. QED  BY <1>1 DEF InfoFromStatus

LEMMA FollowsOnReads ==
  ASSUME TypeOK, Threads, Waiting, NEW a \in Implemented \ stray, Follows(a), ReadStep PROVE Follows(a)'
<1> SUFFICES ASSUME NEW m \in Messages,
                    Ignores(m) \/ Retries(m) \/ Learns(m) \/ Revokes(m) \/ Tells(m) \/ Passes(m)
             PROVE  Follows(a)'
  BY DEF ReadStep
<1>1. Reads(m) /\ a \in Accesses /\ toDevice' = toDevice
  BY ReadIs DEF Reads, Implemented, Accesses
<1>2. entity'.state[a] = (IF m.access = a THEN Says(m) ELSE entity.state[a])
  <2>1. Ignores(m) => m.access # a
    BY DEF Ignores
  <2>. QED  BY <1>1, <2>1, ReadIs
<1>3. Underway(a) => Underway(a)'
  <2>1. CASE Tells(m)
    <3>1. m.by \in Users /\ pc[m.by] = "waiting" /\ call[m.by] \in Call
      BY <1>1, <2>1, Awaited DEF Tells, Awaits
    <3>2. \A v \in Users : v # m.by => pc'[v] = pc[v] /\ call'[v] = call[v] /\ tokens'[v] = tokens[v]
      BY <2>1, <3>1 DEF Tells, Answer, TypeOK, tokenVars
    <3>3. \A v \in Users : (Sends(v, a) => Sends(v, a)') /\ (Releases(v, a) => Releases(v, a)')
      BY <3>1, <3>2 DEF Sends, Releases
    <3>. QED  BY <1>1, <3>3, UnderwayOn
  <2>2. CASE ~Tells(m)
    <3>1. UNCHANGED <<pc, call, tokens>>
      BY <2>2 DEF Ignores, Retries, Learns, Revokes, Passes, tokenVars
    <3>. QED  BY <1>1, <3>1 DEF Underway, Sends, Releases
  <2>. QED  BY <2>1, <2>2
<1>. QED  BY <1>1, <1>2, <1>3, FollowsRead

LEMMA FollowsOnRevocations ==
  ASSUME TypeOK, TypeOK', Threads, Waiting, NEW a \in Implemented, Follows(a), RevokeStep PROVE Follows(a)'
<1>1. UNCHANGED <<entity, toController, toDevice, device, faults, over>>
  BY DEF RevokeStep, Concludes, Invalidates, worldVars
<1>2. CASE Concludes /\ network.by \in Users
  <2>1. PICK u \in Users : u = network.by
    BY <1>2
  <2>2. pc[u] = "waiting" /\ Answer(u, network.status) /\ call[u] \in Call
    BY <1>2, <2>1 DEF Concludes, Waiting, Waits, Threads, Thread
  <2>3. \A v \in Users : v # u => pc'[v] = pc[v] /\ call'[v] = call[v] /\ tokens'[v] = tokens[v]
    <3>1. PICK status : status = network.status
      OBVIOUS
    <3>2. Answer(u, status)
      BY <2>2, <3>1
    <3>3. /\ pc' = [pc EXCEPT ![u] = "idle"] /\ call' = [call EXCEPT ![u] = None]
          /\ \/ UNCHANGED <<tokens, registered>>
             \/ tokens' = [tokens EXCEPT ![u] = [access |-> call[u].access, valid |-> TRUE, stay |-> call[u].stay]]
      BY <2>2, <3>2, AnswerIs
    <3>. QED  BY <3>3 DEF TypeOK
  <2>4. \A v \in Users : (Sends(v, a) => Sends(v, a)') /\ (Releases(v, a) => Releases(v, a)')
    BY <2>2, <2>3 DEF Sends, Releases
  <2>5. Underway(a) => Underway(a)'
    BY <1>1, <2>4, UnderwayOn
  <2>. QED  BY <1>1, <2>5, FollowsOn
<1>3. CASE Concludes /\ network.by \notin Users
  <2>1. Underway(a) => Underway(a)'
    BY <1>1, <1>3 DEF Concludes, tokenVars, Underway, Sends, Releases
  <2>. QED  BY <1>1, <2>1, FollowsOn
<1>4. ASSUME NEW u \in Users, Invalidates(u) PROVE Follows(a)'
  <2>1. UNCHANGED <<pc, call>> /\ pc[u] # "sendingRelease"
    BY <1>4 DEF Invalidates, userVars, TokenLocked
  <2>2. \A v \in Users : v # u => tokens'[v] = tokens[v]
    BY <1>4 DEF Invalidates, TypeOK
  <2>3. \A v \in Users : (Sends(v, a) => Sends(v, a)') /\ (Releases(v, a) => Releases(v, a)')
    BY <2>1, <2>2 DEF Sends, Releases
  <2>4. Underway(a) => Underway(a)'
    BY <1>1, <2>3, UnderwayOn
  <2>. QED  BY <1>1, <2>4, FollowsOn
<1>. QED  BY <1>2, <1>3, <1>4 DEF RevokeStep

LEMMA FollowsOnTheEnumeration ==
  ASSUME TypeOK, NEW a \in Implemented, Follows(a), Questioned, EnumStep PROVE Follows(a)'
<1>1. entity # None /\ entity.step = "GetDynamicInfo"
  BY DEF Questioned
<1>2. CASE Publishes
  <2>1. UNCHANGED <<toController, toDevice, device, faults, tokens, pc, call>> /\ entity'.state = entity.state
    BY <1>2 DEF Publishes, worldVars, tokenVars, userVars
  <2>2. Underway(a) => Underway(a)'
    BY <2>1 DEF Underway, Sends, Releases
  <2>. QED  BY <2>1, <2>2, FollowsOn
<1>3. ASSUME NEW q \in Query, Resends(q) PROVE Follows(a)'
  <2>1. UNCHANGED <<toController, device, faults, tokens, pc, call, entity>>
    BY <1>3 DEF Resends, worldVars, tokenVars, userVars
  <2>2. QueryOf(q.access) \in Request
    BY QueryIs DEF Query
  <2>3. Has(toDevice, On(a)) => Has(toDevice', On(a))
    BY <1>3, <2>2, UnderwaySent DEF Resends
  <2>4. \A v \in Users : (Sends(v, a) => Sends(v, a)') /\ (Releases(v, a) => Releases(v, a)')
    BY <2>1 DEF Sends, Releases
  <2>5. Underway(a) => Underway(a)'
    BY <2>3, <2>4, UnderwayOn
  <2>. QED  BY <2>1, <2>5, FollowsOn
<1>. QED  BY <1>1, <1>2, <1>3 DEF EnumStep, Prepares, Questions, Abandons

\* The device answers, or says what happened to it.
LEMMA FollowsOnTheDevice ==
  ASSUME TypeOK, TypeOK', NEW a \in Implemented, InQuestion(a) \/ Follows(a), Questioned, DeviceStep
  PROVE  InQuestion(a)' \/ Follows(a)'
<1>a. a \in Accesses /\ entity # None /\ entity.step = "GetDynamicInfo"
  BY DEF Implemented, Accesses, Questioned
<1>1. ASSUME NEW c \in Request, NEW m \in Response, Replies(c, m) \/ Loses(c, m)
      PROVE  InQuestion(a)' \/ Follows(a)'
  <2>1. Travels(c, m) /\ m \in Messages
    BY <1>1 DEF Replies, Loses, Messages
  <2>2. UNCHANGED <<entity, over, tokens, pc, call>> /\ toController' = Append(toController, m)
    BY <2>1 DEF Travels, tokenVars, userVars
  <2>3. Range(toDevice) = Range(toDevice') \cup {c}
    BY <2>1, RangeTravels
  <2>4. faults \in Nat
    BY DEF TypeOK
  <2>5. faults # 0 => faults' # 0
    BY <1>1, <2>4 DEF Replies, Loses
  <2>6. m.access = c.access
    BY <2>1 DEF Travels
  <2>7. CASE m.access # a /\ InQuestion(a)
    <3>1. c \notin Of(<<"get", a>>)
      BY <1>a, <2>6, <2>7, SentBy
    <3>. QED  BY <2>3, <2>7, <3>1 DEF InQuestion, Has
  <2>8. m.access = a => IsTrue(Says(m), a)'
    <3>1. SUFFICES ASSUME m.access = a PROVE IsTrue(Says(m), a)'
      OBVIOUS
    <3>2. CASE Replies(c, m)
      <4>1. Says(m) = StateOf(Holds(c)[a]) /\ device' = Holds(c)
        BY <2>6, <3>1, <3>2, AnswersTrue DEF Replies
      <4>. QED  BY <4>1 DEF IsTrue
    <3>3. CASE Loses(c, m)
      <4>1. Says(m) = "Undefined" /\ faults' = faults + 1
        BY <3>3, TimedOutSays DEF Loses
      <4>2. faults' # 0
        BY <2>4, <4>1
      <4>. QED  BY <4>1, <4>2 DEF IsTrue
    <3>. QED  BY <1>1, <3>2, <3>3
  <2>9. ASSUME m.access # a PROVE device'[a] = device[a] /\ (Underway(a) => Underway(a)')
    <3>1. Holds(c)[a] = device[a]
      BY <1>a, <2>6, <2>9, HoldsIs DEF TypeOK
    <3>2. device'[a] = device[a]
      BY <1>1, <3>1 DEF Replies, Loses
    <3>3. c \notin On(a)
      BY <2>6, <2>9 DEF On
    <3>4. Has(toDevice, On(a)) => Has(toDevice', On(a))
      BY <2>3, <3>3 DEF Has
    <3>5. \A v \in Users : (Sends(v, a) => Sends(v, a)') /\ (Releases(v, a) => Releases(v, a)')
      BY <2>2 DEF Sends, Releases
    <3>6. Underway(a) => Underway(a)'
      BY <3>4, <3>5, UnderwayOn
    <3>. QED  BY <3>2, <3>6
  <2>10. CASE m.access = a \/ Follows(a)
    BY <2>1, <2>2, <2>5, <2>8, <2>9, <2>10, FollowsTold
  <2>. QED  BY <2>7, <2>10
<1>2. ASSUME NEW b \in Implemented, NEW h \in Others \cup {None}, Changes(b, h)
      PROVE  InQuestion(a)' \/ Follows(a)'
  <2>1. PICK m \in Messages : m = News(b, h) /\ m.access = b /\ m.kind = "notification" /\ m.holder = h
    BY NewsIs DEF Implemented, Accesses, Holders, Messages
  <2>2. UNCHANGED <<entity, over, tokens, pc, call, toDevice, faults>> /\ toController' = Append(toController, m)
    BY <1>a, <1>2, <2>1 DEF Changes, tokenVars, userVars
  <2>3. b \in Accesses
    BY DEF Implemented, Accesses
  <2>4. m.access = a => IsTrue(Says(m), a)'
    <3>1. Says(m) = StateOf(h) /\ device'[b] = h
      BY <1>2, <2>1, <2>3 DEF Says, Changes, TypeOK
    <3>. QED  BY <2>1, <3>1 DEF IsTrue
  <2>5. m.access # a => device'[a] = device[a]
    BY <1>a, <1>2, <2>1, <2>3 DEF Changes, TypeOK
  <2>6. Underway(a) => Underway(a)'
    BY <2>2 DEF Underway, Sends, Releases
  <2>7. CASE m.access = a \/ Follows(a)
    BY <2>2, <2>4, <2>5, <2>6, <2>7, FollowsTold
  <2>8. CASE InQuestion(a)
    BY <2>2, <2>8 DEF InQuestion
  <2>. QED  BY <2>7, <2>8
<1>. QED  BY <1>1, <1>2 DEF DeviceStep

\* Every access that is implemented is asked for.
LEMMA AllInQuestion ==
  ASSUME TypeOK, Expecting, Questions, NEW a \in Implemented PROVE InQuestion(a)'
<1>1. entity.milan => Milan
  BY DEF Questions, Expecting
<1>2. a \in Queried(entity.milan)
  BY <1>1 DEF Queried, Implemented, Accesses
<1>. QED  BY <1>2, QuestionsSend DEF InQuestion

LEMMA StillInQuestion ==
  ASSUME TypeOK, NEW a, InQuestion(a), toDevice' = toDevice \/ \E c \in Request : toDevice' = Append(toDevice, c)
  PROVE  InQuestion(a)'
<1>1. PICK q \in Seq(Request) : q = toDevice
  BY DEF TypeOK
<1>2. \A c \in Request : Has(q, Of(<<"get", a>>)) => Has(Append(q, c), Of(<<"get", a>>))
  BY HasAppend
<1>. QED  BY <1>1, <1>2 DEF InQuestion

\* What users and the controller do leaves the queries on their way.
LEMMA InQuestionKept ==
  ASSUME TypeOK, Threads, NEW a, InQuestion(a), Questioned,
         CallStep \/ SendStep \/ TokenStep \/ ReadStep \/ RevokeStep \/ EnumStep
  PROVE  InQuestion(a)'
<1>1. ASSUME NEW u \in Users, Sent(u) PROVE InQuestion(a)'
  <2>1. call[u] \in Call
    BY <1>1 DEF Sent, Threads, Thread
  <2>2. Command(call[u].access, call[u].release, u) \in Request
    BY <2>1 DEF Command, Request, Call, Requesters
  <2>. QED  BY <1>1, <2>2, StillInQuestion DEF Sent
<1>2. ASSUME NEW u \in Users, SendRelease(u) PROVE InQuestion(a)'
  <2>1. tokens[u].access \in Accesses
    BY <1>2 DEF SendRelease, Threads, Thread, TokenLocked, Token
  <2>2. Command(tokens[u].access, TRUE, None) \in Request
    BY <2>1 DEF Command, Request, Requesters
  <2>. QED  BY <1>2, <2>2, StillInQuestion DEF SendRelease
<1>3. ASSUME NEW q \in Query, Resends(q) PROVE InQuestion(a)'
  <2>1. QueryOf(q.access) \in Request
    BY QueryIs DEF Query
  <2>. QED  BY <1>3, <2>1, StillInQuestion DEF Resends
<1>4. CASE toDevice' = toDevice
  BY <1>4, StillInQuestion
<1>5. CASE ReadStep
  BY <1>4, <1>5 DEF ReadStep, Ignores, Retries, Learns, Revokes, Tells, Passes, Reads
<1>6. CASE CallStep \/ SendStep \/ TokenStep \/ RevokeStep
  BY <1>1, <1>2, <1>4, <1>6 DEF CallStep, Begins, Granted, Refused, SendStep, Unsent, TokenStep, Destroys,
                                ReleaseBegins, RevokeStep, Concludes, Invalidates
<1>7. CASE EnumStep
  BY <1>3, <1>4, <1>7 DEF EnumStep, Questioned, Prepares, Questions, Publishes, Abandons
<1>. QED  BY <1>5, <1>6, <1>7

LEMMA QuestionedBefore ==
  ASSUME TypeOK, TypeOK', Threads, Expecting, Questioned',
         CallStep \/ SendStep \/ TokenStep \/ ReadStep \/ RevokeStep \/ StayStep \/ EnumStep \/ DeviceStep
  PROVE  Questions \/ (Questioned /\ EntityOn /\ ~StayStep)
<1>1. ~OnEntityOnline /\ entity' # None /\ ~over'
  BY DEF OnEntityOnline, Questioned
<1>2. EntityOn
  BY <1>1, EntityKept
<1>3. ~StayStep
  BY <1>1 DEF StayStep, OnEntityOffline, Shutdown
<1>. QED  BY <1>1, <1>2, <1>3 DEF EntityOn, Questioned

LEMMA FollowingKept ==
  ASSUME TypeOK, TypeOK', Threads, Waiting, Expecting, Following,
         CallStep \/ SendStep \/ TokenStep \/ ReadStep \/ RevokeStep \/ StayStep \/ EnumStep \/ DeviceStep
  PROVE  Following'
<1> SUFFICES ASSUME Questioned', NEW a \in Implemented \ stray' PROVE InQuestion(a)' \/ Follows(a)'
  BY DEF Following
<1>1. CASE Questions
  BY <1>1, AllInQuestion
<1>2. CASE ~Questions
  <2>1. Questioned /\ EntityOn /\ ~StayStep /\ entity' # None
    BY <1>2, QuestionedBefore DEF EntityOn
  <2>2. a \notin stray
    <3>1. CASE EnumStep
      BY <3>1 DEF EnumStep, Prepares, Questions, Publishes, Resends, Abandons, queryVars
    <3>2. CASE ReadStep
      BY <3>2 DEF ReadStep, Ignores, Retries, Learns, Revokes, Tells, Passes, Reads
    <3>3. CASE CallStep \/ SendStep \/ TokenStep
      BY <3>3 DEF CallStep, Begins, Granted, Refused, SendStep, Sent, Unsent, SendRelease, TokenStep, Destroys,
                  ReleaseBegins, queryVars
    <3>4. CASE RevokeStep \/ DeviceStep
      BY <3>4 DEF RevokeStep, Concludes, Invalidates, DeviceStep, Replies, Loses, Travels, Changes, queryVars
    <3>. QED  BY <2>1, <3>1, <3>2, <3>3, <3>4
  <2>3. InQuestion(a) \/ Follows(a)
    BY <2>1, <2>2 DEF Following
  <2>4. CASE DeviceStep
    BY <2>1, <2>3, <2>4, FollowsOnTheDevice
  <2>5. CASE ~DeviceStep /\ InQuestion(a)
    BY <2>1, <2>5, InQuestionKept
  <2>6. CASE ~DeviceStep /\ Follows(a)
    BY <2>1, <2>2, <2>6, FollowsOnUsers, FollowsOnReads, FollowsOnRevocations, FollowsOnTheEnumeration
  <2>. QED  BY <2>3, <2>4, <2>5, <2>6
<1>. QED  BY <1>1, <1>2

-----------------------------------------------------------------------------
(* When nothing is lost                                                      *)

\* What stays certain was certain, unless the entity has just come online.
LEMMA CertainBefore ==
  ASSUME TypeOK, TypeOK', Threads, Expecting, Answers, Certain, faults' = 0, ~over', entity' # None, ~OnEntityOnline,
         CallStep \/ SendStep \/ TokenStep \/ ReadStep \/ RevokeStep \/ StayStep \/ EnumStep \/ DeviceStep
  PROVE  /\ EntityOn /\ entity \in Entity /\ ~StayStep /\ ~over /\ faults = 0 /\ delayed = {} /\ stray = {}
         /\ Holding /\ \A u \in Users : Given(u)
<1>1. faults = 0
  BY NothingDelayed
<1>2. EntityOn
  BY EntityKept
<1>3. entity # None /\ ~over
  BY <1>2 DEF EntityOn
<1>4. entity \in Entity
  BY <1>3 DEF TypeOK
<1>5. ~StayStep
  BY DEF StayStep, OnEntityOffline, Shutdown
<1>. QED  BY <1>1, <1>2, <1>3, <1>4, <1>5 DEF Certain, Answers

\* The queries of an advertised entity are answered.
LEMMA AllAnswered ==
  ASSUME TypeOK, Expecting, Answers, faults = 0, Advertised, NEW a \in Accesses
  PROVE  /\ ~Pending(toController, toDevice, <<"get", a>>) /\ ~InQuestion(a)
         /\ entity.step = "GetDynamicInfo"
<1>1. stray = {} /\ entity # None /\ entity.expected = {} /\ entity.step = "GetDynamicInfo"
  BY DEF Answers, Advertised, Expecting
<1>2. ~Pending(toController, toDevice, <<"get", a>>)
  BY <1>1 DEF Expecting, Expected
<1>. QED  BY <1>1, <1>2 DEF Pending, InQuestion

\* A query takes nothing.
LEMMA GetSays ==
  ASSUME NEW m \in Messages, m.by = "get", m.release PROVE Says(m) # "Held"
<1>1. m \in Response
  BY ConstantsAssumption DEF Messages, Notification
<1>2. Says(m) = InfoFromStatus(m)
  BY <1>1 DEF Says, Response
<1>. QED  BY <1>2 DEF InfoFromStatus

LEMMA EndedOn ==
  ASSUME NEW a, Ended(a), toController' = toController,
         entity'.state[a] # "Held" \/ entity'.state[a] = entity.state[a]
  PROVE  Ended(a)'
BY DEF Ended

LEMMA EndedRead ==
  ASSUME TypeOK, NEW m \in Messages, Reads(m), m.by = "get" => Says(m) # "Held", NEW a, Ended(a),
         entity'.state[a] = (IF m.access = a THEN Says(m) ELSE entity.state[a])
  PROVE  Ended(a)'
<1>0. toController \in Seq(Messages) /\ toController # <<>> /\ m = Head(toController) /\ toController' = Tail(toController)
  BY DEF TypeOK, Reads
<1>1. /\ Unended(toController', On(a), Ending(a)) \subseteq Unended(toController, On(a), Ending(a))
      /\ m \in On(a) /\ ~Has(toController', Ending(a)) => m \in Unended(toController, On(a), Ending(a))
      /\ Has(toController, Ending(a)) <=> Has(toController', Ending(a)) \/ m \in Ending(a)
  BY <1>0, UnendedTail, HasTail
<1>2. (m \in On(a) <=> m.access = a) /\ (m.access # a => m \notin Ending(a))
  BY DEF On, Ending
<1>3. ASSUME ~Has(toController', Ending(a)) PROVE entity'.state[a] # "Held"
  <2>1. CASE m.access = a
    <3>1. m \in Ending(a) => Says(m) # "Held"
      BY DEF Ending
    <3>2. m \notin Ending(a) => Says(m) # "Held"
      BY <1>1, <1>2, <1>3, <2>1 DEF Ended
    <3>. QED  BY <2>1, <3>1, <3>2
  <2>2. CASE m.access # a
    BY <1>1, <1>2, <1>3, <2>2 DEF Ended
  <2>. QED  BY <2>1, <2>2
<1>. QED  BY <1>1, <1>3 DEF Ended

LEMMA EndedTold ==
  ASSUME TypeOK, NEW m \in Messages, toController' = Append(toController, m), entity' = entity, NEW a,
         \/ Ended(a) /\ (m.access = a => Says(m) # "Held")
         \/ m \in Ending(a) /\ Says(m) # "Held"
  PROVE  Ended(a)'
<1>0. toController \in Seq(Messages)
  BY DEF TypeOK
<1>1. /\ Unended(toController', On(a), Ending(a)) \subseteq Unended(toController, On(a), Ending(a)) \cup ({m} \cap On(a))
      /\ m \in Ending(a) => Unended(toController', On(a), Ending(a)) \subseteq {m}
      /\ Has(toController', Ending(a)) <=> Has(toController, Ending(a)) \/ m \in Ending(a)
  BY <1>0, UnendedAppend, HasAppend
<1>2. CASE Ended(a) /\ (m.access = a => Says(m) # "Held")
  <2>1. m \in On(a) => m.access = a
    BY DEF On
  <2>. QED  BY <1>1, <1>2, <2>1 DEF Ended
<1>3. CASE m \in Ending(a) /\ Says(m) # "Held"
  BY <1>1, <1>3 DEF Ended
<1>. QED  BY <1>2, <1>3

\* What the answer of a command changes, when it is not lost.
LEMMA ReplyIs ==
  ASSUME TypeOK, NEW c \in Request, NEW m \in Response, Replies(c, m), NEW a \in Accesses
  PROVE  /\ m \in Messages /\ m.access = c.access /\ toController' = Append(toController, m)
         /\ device'[a] # Us /\ m.access = a => Says(m) # "Held"
         /\ device'[a] = device[a] \/ device'[a] = Us \/ m \in Ending(a)
<1>0. m \in Messages /\ m.access = c.access /\ toController' = Append(toController, m)
  BY DEF Messages, Replies, Travels
<1>1. m = Processed(c) /\ device' = Holds(c)
  BY DEF Replies
<1>2. CASE a # c.access
  <2>1. device'[a] = device[a]
    BY <1>1, <1>2, HoldsIs DEF TypeOK
  <2>. QED  BY <1>0, <1>2, <2>1
<1>3. CASE a = c.access /\ c.access \in Implemented
  <2>1. Says(m) = StateOf(device'[a])
    BY <1>1, <1>3, AnswersTrue
  <2>2. device'[a] \in Holders
    BY <1>1, HoldsIs DEF TypeOK
  <2>3. device'[a] # Us => Says(m) # "Held"
    BY <2>1, <2>2, StateOfIs DEF Holders
  <2>4. device'[a] = None => m \in Ending(a)
    BY <1>0, <1>3, <2>1, StateOfIs DEF Ending
  <2>5. device'[a] \in {device[a], Us, None}
    BY <1>1, <1>3, HoldsIs, ProcessedIs DEF TypeOK
  <2>. QED  BY <1>0, <2>3, <2>4, <2>5
<1>4. CASE a = c.access /\ c.access \notin Implemented
  <2>1. m.status = "NotSupported" /\ device' = device
    BY <1>1, <1>4, ProcessedIs, HoldsIs DEF TypeOK
  <2>2. Says(m) = "NotSupported"
    BY <2>1 DEF Says, InfoFromStatus, Response
  <2>. QED  BY <1>0, <2>1, <2>2
<1>. QED  BY <1>2, <1>3, <1>4

LEMMA ChangeIs ==
  ASSUME TypeOK, NEW b \in Implemented, NEW h \in Others \cup {None}, Changes(b, h), Questioned, NEW a \in Accesses
  PROVE  \E m \in Messages :
           /\ m.kind = "notification" /\ toController' = Append(toController, m)
           /\ m.access = a => Says(m) # "Held"
           /\ device'[a] = device[a] \/ (m.access = a /\ device[a] = None) \/ m \in Ending(a)
<1>0. b \in Accesses
  BY DEF Implemented, Accesses
<1>1. PICK m \in Messages : m = News(b, h) /\ m.access = b /\ m.kind = "notification" /\ m.holder = h
  BY <1>0, NewsIs DEF Holders, Messages
<1>2. Says(m) = StateOf(h) /\ toController' = Append(toController, m)
  BY <1>1 DEF Says, Changes, Questioned
<1>3. Says(m) # "Held" /\ (h = None => m \in Ending(b))
  BY <1>1, <1>2, StateOfIs DEF Ending
<1>4. a # b => device'[a] = device[a]
  BY <1>0 DEF Changes, TypeOK
<1>5. h = None \/ device[b] = None
  BY DEF Changes
<1>. QED  BY <1>1, <1>2, <1>3, <1>4, <1>5

LEMMA HoldingKept ==
  ASSUME TypeOK, TypeOK', Threads, Expecting, Answers, Certain, faults' = 0, ~over', entity' # None,
         CallStep \/ SendStep \/ TokenStep \/ ReadStep \/ RevokeStep \/ StayStep \/ EnumStep \/ DeviceStep
  PROVE  Holding'
<1> SUFFICES ASSUME Questioned', NEW a \in Implemented, ~InQuestion(a)', device'[a] # Us PROVE Ended(a)'
  BY DEF Holding
<1>1. a \in Accesses /\ ~Questions
  BY AllInQuestion DEF Implemented, Accesses
<1>2. Questioned /\ EntityOn /\ ~StayStep
  BY <1>1, QuestionedBefore
<1>3. entity # None /\ entity \in Entity /\ ~over /\ entity.step = "GetDynamicInfo"
  BY <1>2 DEF Questioned, TypeOK
<1>4. faults = 0 /\ Holding
  BY <1>3, NothingDelayed DEF Certain
<1>a. ASSUME ~DeviceStep PROVE ~InQuestion(a)
  BY <1>a, <1>2, InQuestionKept
<1>b. ASSUME ~InQuestion(a), device[a] # Us PROVE Ended(a)
  BY <1>2, <1>4, <1>b DEF Holding
<1>c. ASSUME ~DeviceStep, UNCHANGED <<toController, device>>,
             entity'.state[a] # "Held" \/ entity'.state[a] = entity.state[a]
      PROVE  Ended(a)'
  BY <1>a, <1>b, <1>c, EndedOn
\* An operation begins.
<1>d. ASSUME NEW access \in Accesses, NEW release \in BOOLEAN, entity' = Begun(access, release)
      PROVE  entity'.state[a] # "Held" \/ entity'.state[a] = entity.state[a]
  <2>1. PICK e : e = Begun(access, release)
    OBVIOUS
  <2>2. InProgress(e.state[access]) /\ \A b \in Accesses : b # access => e.state[b] = entity.state[b]
    BY <1>3, <2>1, Beginning
  <2>3. e = entity'
    BY <1>d, <2>1
  <2>. QED  BY <1>1, <2>2, <2>3 DEF InProgress
<1>5. CASE CallStep /\ ~DeviceStep
  <2>1. UNCHANGED <<toController, device>>
    BY <1>5 DEF CallStep, Begins, Granted, Refused, worldVars
  <2>2. entity'.state[a] # "Held" \/ entity'.state[a] = entity.state[a]
    <3>1. ASSUME NEW u \in Users, NEW c \in Call, Begins(u, c)
          PROVE entity'.state[a] # "Held" \/ entity'.state[a] = entity.state[a]
      <4>1. c.access \in Accesses /\ c.release \in BOOLEAN
        BY DEF Call
      <4>. QED  BY <1>d, <3>1, <4>1 DEF Begins
    <3>. QED  BY <1>5, <3>1 DEF CallStep, Granted, Refused
  <2>. QED  BY <1>5, <1>c, <2>1, <2>2
<1>6. CASE (SendStep \/ RevokeStep) /\ ~DeviceStep
  <2>1. UNCHANGED <<toController, device, entity>>
    BY <1>6 DEF SendStep, Sent, Unsent, SendRelease, RevokeStep, Concludes, Invalidates, worldVars
  <2>. QED  BY <1>6, <1>c, <2>1
<1>7. CASE TokenStep /\ ~DeviceStep
  <2> SUFFICES ASSUME NEW u \in Users, Destroys(u) \/ ReleaseBegins(u) PROVE Ended(a)'
    BY <1>7 DEF TokenStep
  <2>1. UNCHANGED <<toController, device>>
    BY DEF Destroys, ReleaseBegins, worldVars
  <2>2. entity'.state[a] # "Held" \/ entity'.state[a] = entity.state[a]
    <3>1. CASE Destroys(u)
      BY <3>1 DEF Destroys
    <3>2. CASE ReleaseBegins(u)
      <4>1. tokens[u].access \in Accesses
        BY <3>2 DEF ReleaseBegins, Threads, Thread, TokenLocked, Token
      <4>. QED  BY <1>d, <3>2, <4>1 DEF ReleaseBegins
    <3>. QED  BY <3>1, <3>2
  <2>. QED  BY <1>7, <1>c, <2>1, <2>2
<1>8. CASE ReadStep /\ ~DeviceStep
  <2>1. PICK m \in Messages : Ignores(m) \/ Retries(m) \/ Learns(m) \/ Revokes(m) \/ Tells(m) \/ Passes(m)
    BY <1>8 DEF ReadStep
  <2>2. Reads(m) /\ device' = device /\ m \in Range(toController) /\ m.access \in Accesses
    BY <2>1, ReadIs DEF Reads, worldVars
  <2>3. ~Ignores(m)
    BY <1>4 DEF Ignores, Answers
  <2>4. entity'.state[a] = (IF m.access = a THEN Says(m) ELSE entity.state[a])
    BY <1>1, <2>1, <2>3, ReadIs
  <2>5. m.by = "get" => Says(m) # "Held"
    BY <2>2, GetSays DEF Answers, IsFit
  <2>. QED  BY <1>8, <1>a, <1>b, <2>2, <2>4, <2>5, EndedRead
<1>9. CASE EnumStep /\ ~DeviceStep
  <2>1. UNCHANGED <<toController, device>>
    BY <1>9 DEF EnumStep, Prepares, Questions, Publishes, Resends, Abandons, worldVars
  <2>2. entity'.state[a] = entity.state[a]
    BY <1>9, <1>1 DEF EnumStep, Prepares, Publishes, Resends, Abandons
  <2>. QED  BY <1>9, <1>c, <2>1, <2>2
<1>10. ASSUME NEW c \in Request, NEW m \in Response, Replies(c, m) \/ Loses(c, m) PROVE Ended(a)'
  <2>1. Replies(c, m)
    BY <1>4, <1>10 DEF Loses
  <2>2. /\ m \in Messages /\ m.access = c.access /\ toController' = Append(toController, m)
        /\ m.access = a => Says(m) # "Held"
        /\ device'[a] = device[a] \/ m \in Ending(a)
    BY <1>1, <2>1, ReplyIs
  <2>3. entity' = entity /\ Travels(c, m) /\ m.by = c.by
    BY <2>1 DEF Replies, Travels
  <2>4. CASE InQuestion(a)
    <3>1. Range(toDevice) = Range(toDevice') \cup {c}
      BY <2>3, RangeTravels
    <3>2. c \in Of(<<"get", a>>)
      BY <2>4, <3>1 DEF InQuestion, Has
    <3>3. c.by = "get" /\ c.access = a
      BY <1>1, <3>2, SentBy
    <3>4. m \in Ending(a)
      BY <2>2, <2>3, <3>3 DEF Ending
    <3>. QED  BY <2>2, <2>3, <3>3, <3>4, EndedTold
  <2>5. CASE ~InQuestion(a)
    <3>1. m \in Ending(a) => m.access = a
      BY DEF Ending
    <3>. QED  BY <1>b, <2>2, <2>3, <2>5, <3>1, EndedTold
  <2>. QED  BY <2>4, <2>5
<1>11. ASSUME NEW b \in Implemented, NEW h \in Others \cup {None}, Changes(b, h) PROVE Ended(a)'
  <2>1. PICK m \in Messages :
           /\ toController' = Append(toController, m)
           /\ m.access = a => Says(m) # "Held"
           /\ device'[a] = device[a] \/ (m.access = a /\ device[a] = None) \/ m \in Ending(a)
    BY <1>1, <1>2, <1>11, ChangeIs
  <2>2. UNCHANGED <<entity, toDevice>> /\ None # Us
    BY <1>11, ConstantsAssumption DEF Changes
  <2>3. ~InQuestion(a)
    BY <2>2 DEF InQuestion
  <2>4. m \in Ending(a) => m.access = a
    BY DEF Ending
  <2>. QED  BY <1>b, <2>1, <2>2, <2>3, <2>4, EndedTold
<1>. QED  BY <1>2, <1>5, <1>6, <1>7, <1>8, <1>9, <1>10, <1>11 DEF DeviceStep

LEMMA GivenOn ==
  ASSUME NEW u \in Users, Given(u), tokens'[u] = tokens[u], stays' = stays,
         entity.advertised => entity'.advertised,
         Revoking(u) => Revoking(u)',
         Valid(u) /\ u \in registered => u \in registered' \/ Revoking(u)',
         Valid(u) /\ u \in registered /\ Held(tokens[u].access) =>
           (\E a : a = tokens[u].access /\ Held(a)') \/ Revoking(u)'
  PROVE  Given(u)'
<1>1. PICK a : a = tokens[u].access
  OBVIOUS
<1>2. (\E b : b = tokens[u].access /\ Held(b)') => Held(a)'
  BY <1>1
<1>3. Valid(u)' <=> Valid(u)
  BY DEF Valid
<1>4. SUFFICES ASSUME Valid(u), ~Revoking(u)' PROVE entity'.advertised /\ u \in registered' /\ Held(a)'
  BY <1>1, <1>3 DEF Given, Held
<1>5. entity.advertised /\ u \in registered /\ Held(tokens[u].access)
  BY <1>4 DEF Given
<1>. QED  BY <1>2, <1>4, <1>5

\* An invalid token, or none, is nobody's.
LEMMA GivenNot ==
  ASSUME NEW u, ~Valid(u)' PROVE Given(u)'
BY DEF Given

LEMMA HeldUnchanged ==
  ASSUME NEW a, Held(a), UNCHANGED <<device, toController>> PROVE Held(a)'
BY DEF Held

LEMMA HeldTold ==
  ASSUME TypeOK, NEW m \in Messages, toController' = Append(toController, m), NEW a, Held(a),
         device'[a] = device[a] \/ (m.access = a /\ device[a] = None) \/ device'[a] = Us \/ m \in Ending(a)
  PROVE  Held(a)'
<1>1. toController \in Seq(Messages)
  BY DEF TypeOK
<1>2. Has(toController', Ending(a)) <=> Has(toController, Ending(a)) \/ m \in Ending(a)
  BY <1>1, HasAppend
<1>. QED  BY <1>2, ConstantsAssumption DEF Held

LEMMA HeldRead ==
  ASSUME TypeOK, NEW m \in Messages, Reads(m), m.by # "get", NEW a, Held(a)
  PROVE  Held(a)' \/ (m.access = a /\ Says(m) = "NotHeld")
<1>1. toController \in Seq(Messages) /\ toController # <<>> /\ m = Head(toController) /\ toController' = Tail(toController)
  BY DEF TypeOK, Reads
<1>2. Has(toController, Ending(a)) <=> Has(toController', Ending(a)) \/ m \in Ending(a)
  BY <1>1, HasTail
<1>3. m \in Ending(a) => m.access = a /\ Says(m) = "NotHeld"
  BY DEF Ending
<1>4. device' = device
  BY DEF Reads, worldVars
<1>. QED  BY <1>2, <1>3, <1>4 DEF Held

\* When the entity is said to be held, it is, or will be said not to be.
LEMMA HeldIs ==
  ASSUME TypeOK, Expecting, Answers, faults = 0, ~over, Holding, Advertised, NEW a \in Accesses, entity.state[a] = "Held"
  PROVE  Held(a)
<1>1. ~InQuestion(a) /\ Questioned
  BY AllAnswered DEF Questioned, Advertised
<1>2. a \in Implemented
  BY DEF Answers, Advertised
<1>. QED  BY <1>1, <1>2 DEF Holding, Ended, Held

LEMMA GivenOnUsers ==
  ASSUME TypeOK, TypeOK', Threads, Expecting, Answers, faults = 0, ~over, Holding, EntityOn,
         CallStep \/ SendStep \/ TokenStep, NEW v \in Users, Given(v)
  PROVE  Given(v)'
<1>1. UNCHANGED <<stays, toController, device, network>>
  BY DEF CallStep, SendStep, TokenStep, Begins, Granted, Refused, Sent, Unsent, SendRelease, Destroys, ReleaseBegins,
         worldVars
<1>2. entity # None /\ (entity.advertised => entity'.advertised)
  BY DEF EntityOn
<1>3. PICK a : a = tokens[v].access
  OBVIOUS
<1>4. Held(a) => Held(a)'
  BY <1>1, HeldUnchanged
\* The others go on.
<1>a. ASSUME tokens'[v] = tokens[v],
             TokenLocked(v) => TokenLocked(v)', v \in registered => v \in registered' \/ TokenLocked(v)'
      PROVE  Given(v)'
  <2>1. Revoking(v) => Revoking(v)'
    BY <1>1, <1>a DEF Revoking
  <2>2. TokenLocked(v)' => Revoking(v)'
    BY DEF Revoking
  <2>. QED  BY <1>1, <1>2, <1>3, <1>4, <1>a, <2>1, <2>2, GivenOn
<1>5. ASSUME NEW u \in Users, NEW c \in Call, Begins(u, c) PROVE Given(v)'
  <2>1. UNCHANGED <<tokens, registered>> /\ (TokenLocked(v) => TokenLocked(v)')
    BY <1>5 DEF Begins, TokenLocked, TypeOK, tokenVars
  <2>. QED  BY <1>a, <2>1
<1>6. ASSUME NEW u \in Users, NEW b \in Accesses, Granted(u, b) PROVE Given(v)'
  <2>1. UNCHANGED <<entity, pc>> /\ entity.advertised /\ entity.state[b] = "Held" /\ registered' = registered \cup {u}
    BY <1>6 DEF Granted, Advertised
  <2>2. CASE v = u
    <3>1. Held(b)
      BY <1>2, <2>1, HeldIs DEF Advertised
    <3>2. Held(b)'
      BY <1>1, <3>1, HeldUnchanged
    <3>3. tokens'[v].access = b
      BY <1>6, <2>2 DEF Granted, TypeOK
    <3>. QED  BY <2>1, <2>2, <3>2, <3>3 DEF Given, Held
  <2>3. CASE v # u
    <3>1. tokens'[v] = tokens[v]
      BY <1>6, <2>3 DEF Granted, TypeOK
    <3>. QED  BY <1>a, <2>1, <3>1 DEF TokenLocked
  <2>. QED  BY <2>2, <2>3
<1>7. CASE Refused
  BY <1>7, <1>a DEF Refused, tokenVars, TokenLocked
<1>8. ASSUME NEW u \in Users, Sent(u) \/ Unsent(u) PROVE Given(v)'
  <2>1. UNCHANGED <<entity, tokens, registered>>
    BY <1>8 DEF Sent, Unsent, RepliedTo, tokenVars
  <2>2. pc[u] = "sending" /\ (v # u => pc'[v] = pc[v])
    BY <1>8 DEF Sent, Unsent, RepliedTo, TypeOK
  <2>. QED  BY <1>a, <2>1, <2>2 DEF TokenLocked
<1>9. ASSUME NEW u \in Users, SendRelease(u) PROVE Given(v)'
  <2>1. UNCHANGED <<entity, registered>>
    BY <1>9 DEF SendRelease
  <2>2. CASE v = u
    <3>1. tokens'[v] = None
      BY <1>9, <2>2 DEF SendRelease, TypeOK
    <3>. QED  BY <3>1, NoneIsApart, GivenNot DEF Valid
  <2>3. CASE v # u
    <3>1. tokens'[v] = tokens[v] /\ pc'[v] = pc[v]
      BY <1>9, <2>3 DEF SendRelease, TypeOK
    <3>. QED  BY <1>a, <2>1, <3>1 DEF TokenLocked
  <2>. QED  BY <2>2, <2>3
<1>10. ASSUME NEW u \in Users, Destroys(u) PROVE Given(v)'
  <2>1. entity' = entity
    BY <1>10 DEF Destroys
  <2>2. CASE v # u
    <3>1. pc'[v] = pc[v] /\ tokens'[v] = tokens[v] /\ (v \in registered => v \in registered')
      BY <1>10, <2>2 DEF Destroys, Forgets, TypeOK
    <3>. QED  BY <1>a, <2>1, <3>1 DEF TokenLocked
  <2>3. CASE v = u /\ tokens'[v] = None
    BY <2>3, NoneIsApart, GivenNot DEF Valid
  <2>4. CASE v = u /\ tokens'[v] = tokens[v] /\ TokenLocked(v)'
    BY <1>a, <2>1, <2>4
  <2>5. tokens'[u] = None \/ (tokens'[u] = tokens[u] /\ pc'[u] \in {"destroying", "releasing"})
    BY <1>10 DEF Destroys, Forgets, TypeOK
  <2>. QED  BY <2>2, <2>3, <2>4, <2>5 DEF TokenLocked
<1>11. ASSUME NEW u \in Users, ReleaseBegins(u) PROVE Given(v)'
  <2>1. UNCHANGED <<tokens, registered>> /\ (TokenLocked(v) => TokenLocked(v)')
    BY <1>11 DEF ReleaseBegins, TokenLocked, TypeOK, tokenVars
  <2>. QED  BY <1>a, <2>1
<1>. QED  BY <1>5, <1>6, <1>7, <1>8, <1>9, <1>10, <1>11 DEF CallStep, SendStep, TokenStep

\* The entity is held when a command is answered with success, or it has lost it since.
LEMMA HeldWhenAnswered ==
  ASSUME TypeOK, Expecting, Answers, faults = 0, Holding, Advertised,
         NEW m \in Messages, Reads(m), m.by \in Users, m.status = "Success", ~m.release
  PROVE  Says(m) = "Held" /\ Held(m.access)'
<1>0. toController \in Seq(Messages) /\ toController # <<>> /\ m = Head(toController) /\ toController' = Tail(toController)
  BY DEF TypeOK, Reads
<1>1. m \in Range(toController)
  BY <1>0, HeadIs
<1>2. m.kind = "response"
  BY ConstantsAssumption, SaysIs DEF Messages, Response, Notification
<1>3. m.holder = Us /\ m.access \in Implemented
  BY <1>1, <1>2 DEF Answers, IsFit
<1>4. Says(m) = "Held"
  <2>1. InfoFromStatus(m) = StateOf(Us)
    BY <1>3 DEF InfoFromStatus
  <2>. QED  BY <1>2, <2>1, StateOfIs DEF Says
<1>5. PICK a \in Accesses : a = m.access
  BY SaysIs
<1>6. m \in On(a)
  BY <1>5 DEF On
<1>7. ~Has(toController', Ending(a)) => m \in Unended(toController, On(a), Ending(a))
  BY <1>0, <1>6, UnendedTail
<1>8. ~InQuestion(a) /\ Questioned
  BY AllAnswered DEF Questioned, Advertised, Reads
<1>9. device[a] = Us \/ Has(toController', Ending(a))
  BY <1>3, <1>4, <1>5, <1>7, <1>8 DEF Holding, Ended
<1>10. device' = device
  BY DEF Reads, worldVars
<1>11. Held(a)'
  BY <1>9, <1>10 DEF Held
<1>. QED  BY <1>4, <1>5, <1>11

LEMMA GivenOnReads ==
  ASSUME TypeOK, TypeOK', Threads, Waiting, InTime, Expecting, Answers, faults = 0, ~over, Holding, EntityOn,
         NEW v \in Users, Given(v), ReadStep
  PROVE  Given(v)'
<1> SUFFICES ASSUME NEW m \in Messages,
                    Ignores(m) \/ Retries(m) \/ Learns(m) \/ Revokes(m) \/ Tells(m) \/ Passes(m)
             PROVE  Given(v)'
  BY DEF ReadStep
<1>0. /\ Reads(m) /\ network = None /\ entity # None /\ entity \in Entity /\ m \in Range(toController)
      /\ m.access \in Accesses /\ UNCHANGED <<stays, device>> /\ (entity.advertised => entity'.advertised)
  BY ReadIs DEF Reads, worldVars, EntityOn
\* The answer of a query: there is no token of this stay.
<1>1. CASE m.by = "get"
  <2>1. m \in Of(<<"get", m.access>>)
    BY <1>0, <1>1, ReadBy
  <2>2. Pending(toController, toDevice, <<"get", m.access>>)
    BY <1>0, <2>1 DEF Pending, Has
  <2>3. ~entity.advertised
    BY <1>0, <2>2, AllAnswered DEF Advertised
  <2>4. tokens' = tokens
    <3>1. "get" \notin Users \cup {None}
      BY ConstantsAssumption
    <3>. QED  BY <1>1, <3>1 DEF Ignores, Retries, Learns, Revokes, Tells, Passes, tokenVars
  <2>5. ~Valid(v)
    BY <2>3 DEF Given
  <2>6. ~Valid(v)'
    BY <1>0, <2>4, <2>5 DEF Valid
  <2>. QED  BY <2>6, GivenNot
<1> SUFFICES ASSUME m.by # "get" PROVE Given(v)'
  BY <1>1
<1>2. PICK revoked : revoked = Revoked(Updated(m), m.access)
  OBVIOUS
<1>3. revoked = IF entity.advertised /\ Says(m) = "NotHeld" THEN {u \in registered : tokens[u].access = m.access} ELSE {}
  BY <1>0, <1>2, RevokedIs
<1>5. PICK a : a = tokens[v].access
  OBVIOUS
<1>6. Valid(v) /\ v \in registered /\ Held(a) => Held(a)' \/ v \in revoked
  BY <1>0, <1>3, <1>5, HeldRead DEF Given
<1>7. Revoking(v) <=> TokenLocked(v)
  BY <1>0 DEF Revoking
<1>8. CASE Revokes(m)
  <2>1. registered' = registered \ revoked /\ network' = [tokens |-> revoked, by |-> m.by, status |-> m.status]
        /\ UNCHANGED <<tokens, pc>>
    BY <1>2, <1>8 DEF Revokes
  <2>2. v \in revoked => Revoking(v)'
    <3>1. network' \in Invalidation \cup {None} /\ network' # None
      <4>1. network' # None
        <5>1. network' \in [tokens : SUBSET Users, by : Users \cup {None}, status : Statuses]
          <6>1. revoked \in SUBSET Users /\ m.status \in Statuses
            BY <1>3, SaysIs DEF TypeOK
          <6>2. m.by \in Users \cup {None}
            BY <1>8, SaysIs DEF Revokes, Requesters
          <6>. QED  BY <2>1, <6>1, <6>2
        <5>. QED  BY <5>1, NoneIsApart DEF Invalidation
      <4>. QED  BY <4>1 DEF TypeOK
    <3>. QED  BY <2>1, <3>1 DEF Revoking
  <2>3. Revoking(v) => Revoking(v)'
    BY <1>7, <2>1 DEF Revoking, TokenLocked
  <2>. QED  BY <1>0, <1>5, <1>6, <2>1, <2>2, <2>3, GivenOn
\* The others keep what they have.
<1>9. ASSUME tokens'[v] = tokens[v], TokenLocked(v) => TokenLocked(v)', v \in registered => v \in registered',
             revoked = {}
      PROVE  Given(v)'
  <2>1. Revoking(v) => Revoking(v)'
    BY <1>7, <1>9 DEF Revoking
  <2>. QED  BY <1>0, <1>5, <1>6, <1>9, <2>1, GivenOn
<1>10. CASE Passes(m)
  BY <1>2, <1>9, <1>10 DEF Passes, tokenVars, TokenLocked
<1>11. CASE Tells(m)
  <2>0. PICK u \in Users, status \in Statuses : u = m.by /\ status = m.status
    BY <1>11, SaysIs DEF Tells
  <2>1. Awaits(u, m) /\ call[u] \in Call /\ (call[u].token => ~m.release)
    BY <1>0, <2>0, Awaited
  <2>2. Answer(u, status) /\ revoked = {} /\ network' = network
    BY <1>2, <1>11, <2>0 DEF Tells
  <2>3. /\ pc' = [pc EXCEPT ![u] = "idle"]
        /\ \/ UNCHANGED <<tokens, registered>>
           \/ /\ call[u].token /\ status = "Success" /\ call[u].access \in Accesses
              /\ tokens' = [tokens EXCEPT ![u] = [access |-> call[u].access, valid |-> TRUE, stay |-> call[u].stay]]
              /\ registered' = registered \cup {u}
    BY <2>1, <2>2, AnswerIs
  <2>4. TokenLocked(v) => TokenLocked(v)'
    BY <2>1, <2>3 DEF TokenLocked, Awaits, TypeOK
  <2>5. CASE v # u \/ tokens' = tokens
    <3>1. tokens'[v] = tokens[v] /\ (v \in registered => v \in registered')
      BY <2>3, <2>5 DEF TypeOK
    <3>. QED  BY <1>9, <2>2, <2>4, <3>1
  <2>6. CASE v = u /\ tokens' # tokens
    <3>1. m.status = "Success" /\ ~m.release /\ m.access = call[u].access
      BY <2>0, <2>1, <2>3, <2>6 DEF Awaits
    <3>2. PICK t : t = [access |-> call[u].access, valid |-> TRUE, stay |-> call[u].stay]
      OBVIOUS
    <3>3. tokens' = [tokens EXCEPT ![u] = t] /\ registered' = registered \cup {u}
      BY <2>3, <2>6, <3>2
    <3>4. tokens'[v] = t /\ t.access = m.access /\ t.stay = call[u].stay /\ v \in registered'
      BY <2>6, <3>1, <3>2, <3>3 DEF TypeOK
    <3>5. CASE call[u].stay = stays
      <4>1. entity.advertised
        BY <1>0, <2>1, <3>5 DEF InTime, Timely, Awaits
      <4>2. PICK b : b = m.access /\ Held(b)'
        BY <1>0, <2>0, <3>1, <4>1, HeldWhenAnswered DEF Advertised
      <4>3. Held(tokens[v].access)'
        BY <3>4, <4>2 DEF Held
      <4>. QED  BY <1>0, <3>4, <4>1, <4>3 DEF Given
    <3>6. CASE call[u].stay # stays
      <4>1. ~Valid(v)'
        BY <1>0, <3>4, <3>6 DEF Valid
      <4>. QED  BY <4>1, GivenNot
    <3>. QED  BY <3>5, <3>6
  <2>. QED  BY <2>5, <2>6
<1>12. ~(Ignores(m) \/ Retries(m) \/ Learns(m))
  BY DEF Ignores, Retries, Learns
<1>. QED  BY <1>8, <1>10, <1>11, <1>12

LEMMA GivenOnTheRest ==
  ASSUME TypeOK, TypeOK', Threads, Waiting, Expecting, Answers, faults' = 0, faults = 0, ~over, EntityOn,
         NEW v \in Users, Given(v), RevokeStep \/ EnumStep \/ DeviceStep
  PROVE  Given(v)'
<1>0. entity # None /\ (entity.advertised => entity'.advertised) /\ stays' = stays
  BY DEF EntityOn
<1>1. CASE ~Valid(v) /\ tokens' = tokens
  <2>1. ~Valid(v)'
    BY <1>0, <1>1 DEF Valid
  <2>. QED  BY <2>1, GivenNot
<1>2. PICK a : a = tokens[v].access
  OBVIOUS
<1>3. ASSUME NEW u \in Users, Invalidates(u) PROVE Given(v)'
  <2>0. /\ UNCHANGED <<entity, registered, pc, toController, device>>
        /\ network' = [network EXCEPT !.tokens = @ \ {u}] /\ network \in Invalidation
    BY <1>3 DEF Invalidates, userVars, worldVars, TypeOK
  <2>1. CASE v = u /\ tokens[u] = None
    <3>1. tokens'[v] = None
      BY <1>3, <2>1 DEF Invalidates
    <3>. QED  BY <3>1, NoneIsApart, GivenNot DEF Valid
  <2>2. CASE v = u /\ tokens[u] # None
    <3>1. PICK t \in Token : t = tokens[u]
      BY <2>2 DEF TypeOK
    <3>2. tokens'[v] = [t EXCEPT !.valid = FALSE]
      BY <1>3, <2>2, <3>1 DEF Invalidates, TypeOK
    <3>3. tokens'[v].valid = FALSE
      BY <3>1, <3>2 DEF Token
    <3>4. ~Valid(v)'
      BY <3>3 DEF Valid
    <3>. QED  BY <3>4, GivenNot
  <2>3. CASE v # u
    <3>1. tokens'[v] = tokens[v]
      BY <1>3, <2>3 DEF Invalidates, TypeOK
    <3>2. network' # None
      <4>1. network' \in Invalidation
        BY <2>0 DEF Invalidation
      <4>. QED  BY <4>1, NoneIsApart
    <3>3. Revoking(v) => Revoking(v)'
      BY <2>0, <2>3, <3>2 DEF Revoking, TokenLocked, Invalidation
    <3>4. Held(a) => Held(a)'
      BY <2>0, HeldUnchanged
    <3>. QED  BY <1>0, <1>2, <2>0, <3>1, <3>3, <3>4, GivenOn
  <2>. QED  BY <2>1, <2>2, <2>3
<1>4. CASE Concludes
  <2>0. UNCHANGED <<entity, toController, device>> /\ network # None /\ network.tokens = {}
    BY <1>4 DEF Concludes, worldVars
  <2>1. Held(a) => Held(a)'
    BY <2>0, HeldUnchanged
  <2>2. UNCHANGED <<tokens, registered>> /\ (TokenLocked(v) => TokenLocked(v)')
    <3>1. CASE network.by \in Users
      <4>1. PICK u \in Users, status \in {network.status} : u = network.by
        BY <3>1
      <4>2. pc[u] = "waiting" /\ (status = "Success" => call[u].release)
        BY <2>0, <4>1 DEF Waiting, Waits
      <4>3. call[u] \in Call /\ (call[u].token => ~call[u].release)
        BY <4>2 DEF Threads, Thread
      <4>4. Answer(u, status)
        BY <1>4, <3>1, <4>1 DEF Concludes
      <4>5. pc' = [pc EXCEPT ![u] = "idle"] /\ UNCHANGED <<tokens, registered>>
        BY <4>2, <4>3, <4>4, AnswerIs
      <4>. QED  BY <4>2, <4>5 DEF TokenLocked, TypeOK
    <3>2. CASE network.by \notin Users
      BY <1>4, <3>2 DEF Concludes, tokenVars, TokenLocked
    <3>. QED  BY <3>1, <3>2
  <2>3. Revoking(v) => Revoking(v)'
    BY <2>0, <2>2 DEF Revoking
  <2>. QED  BY <1>0, <1>2, <2>0, <2>1, <2>2, <2>3, GivenOn
<1>5. ASSUME UNCHANGED <<tokens, registered, pc, network>>, Held(a) => Held(a)' PROVE Given(v)'
  <2>1. Revoking(v) => Revoking(v)'
    BY <1>5 DEF Revoking, TokenLocked
  <2>. QED  BY <1>0, <1>2, <1>5, <2>1, GivenOn
<1>6. ASSUME Valid(v) PROVE a \in Accesses /\ Questioned
  <2>1. Advertised /\ a \in Accesses
    BY <1>0, <1>2, <1>6 DEF Given, Advertised, Valid, Token
  <2>. QED  BY <1>0, <2>1, AllAnswered DEF Questioned
<1>7. CASE EnumStep
  <2>1. UNCHANGED <<tokens, registered, pc, network, toController, device>>
    BY <1>7 DEF EnumStep, Prepares, Questions, Publishes, Resends, Abandons, tokenVars, userVars, worldVars
  <2>. QED  BY <1>5, <2>1, HeldUnchanged
<1>8. ASSUME NEW c \in Request, NEW m \in Response, Replies(c, m) \/ Loses(c, m) PROVE Given(v)'
  <2>1. Replies(c, m)
    <3>1. faults' # faults + 1
      OBVIOUS
    <3>. QED  BY <1>8, <3>1 DEF Loses
  <2>2. UNCHANGED <<tokens, registered, pc, network>>
    BY <2>1 DEF Replies, Travels, tokenVars, userVars
  <2>3. CASE Valid(v)
    <3>1. /\ m \in Messages /\ toController' = Append(toController, m)
          /\ device'[a] = device[a] \/ device'[a] = Us \/ m \in Ending(a)
      BY <1>6, <2>1, <2>3, ReplyIs
    <3>2. Held(a) => Held(a)'
      BY <3>1, HeldTold
    <3>. QED  BY <1>5, <2>2, <3>2
  <2>. QED  BY <1>1, <2>2, <2>3
<1>9. ASSUME NEW b \in Implemented, NEW h \in Others \cup {None}, Changes(b, h) PROVE Given(v)'
  <2>2. UNCHANGED <<tokens, registered, pc, network>>
    BY <1>9 DEF Changes, tokenVars, userVars
  <2>3. CASE Valid(v)
    <3>1. PICK m \in Messages :
             /\ toController' = Append(toController, m)
             /\ device'[a] = device[a] \/ (m.access = a /\ device[a] = None) \/ m \in Ending(a)
      BY <1>6, <1>9, <2>3, ChangeIs
    <3>2. Held(a) => Held(a)'
      BY <3>1, HeldTold
    <3>. QED  BY <1>5, <2>2, <3>2
  <2>. QED  BY <1>1, <2>2, <2>3
<1>. QED  BY <1>3, <1>4, <1>7, <1>8, <1>9 DEF RevokeStep, DeviceStep

\* No token is of a stay that begins.
LEMMA GivenOnline ==
  ASSUME TypeOK, Threads, NEW v \in Users, OnEntityOnline PROVE Given(v)'
<1>1. stays' = stays + 1 /\ tokens' = tokens /\ stays \in Nat
  BY DEF OnEntityOnline, tokenVars, TypeOK
<1>2. tokens[v] \in Token => tokens[v].stay \in 0..stays
  BY DEF Threads, Thread
<1>3. ~Valid(v)'
  BY <1>1, <1>2 DEF Valid
<1>. QED  BY <1>3, GivenNot

LEMMA CertainKept ==
  ASSUME TypeOK, TypeOK', Threads, Waiting, InTime, Expecting, Answers, Certain,
         CallStep \/ SendStep \/ TokenStep \/ ReadStep \/ RevokeStep \/ StayStep \/ EnumStep \/ DeviceStep
  PROVE  Certain'
<1> SUFFICES ASSUME faults' = 0, ~over', entity' # None, NEW v \in Users PROVE Given(v)'
  BY HoldingKept DEF Certain
<1>1. CASE OnEntityOnline
  BY <1>1, GivenOnline
<1>2. CASE ~OnEntityOnline
  <2>1. EntityOn /\ ~StayStep /\ ~over /\ faults = 0 /\ Holding /\ Given(v)
    BY <1>2, CertainBefore
  <2>2. CASE CallStep \/ SendStep \/ TokenStep
    BY <2>1, <2>2, GivenOnUsers
  <2>3. CASE ReadStep
    BY <2>1, <2>3, GivenOnReads
  <2>4. CASE RevokeStep \/ EnumStep \/ DeviceStep
    BY <2>1, <2>4, GivenOnTheRest
  <2>. QED  BY <2>1, <2>2, <2>3, <2>4
<1>. QED  BY <1>1, <1>2

-----------------------------------------------------------------------------
(* The theorems                                                              *)

LEMMA InvNext ==
  ASSUME Inv, Next PROVE Inv'
<1>0. TypeOK /\ Threads /\ Waiting /\ InTime /\ Expecting /\ Answers /\ Following /\ Certain
  BY DEF Inv
<1>1. CallStep \/ SendStep \/ TokenStep \/ ReadStep \/ RevokeStep \/ StayStep \/ EnumStep \/ DeviceStep
  BY <1>0, FineStepIs, StepIs
<1>2. TypeOK'
  BY <1>0, <1>1, TypesOfCalls, TypesOfSends, TypesOfTokens, TypesOfReads, TypesOfRevocations, TypesOfStays,
     TypesOfTheDevice, TypesOfTheEnumeration
<1>3. Threads'
  BY <1>0, <1>1, ThreadsOfCalls, ThreadsOfSends, ThreadsOfTokens, ThreadsOfReads, ThreadsOfTheRest
<1>4. Waiting'
  BY <1>0, <1>1, <1>2, WaitingOnCalls, WaitingOnSends, WaitingOnTokens, WaitingOnReads, WaitingOnTheRest
<1>5. InTime'
  BY <1>0, <1>1, <1>2, InTimeKept
<1>6. Expecting'
  BY <1>0, <1>1, <1>2, ExpectingKept
<1>7. Answers'
  BY <1>0, <1>1, <1>2, AnswersKept
<1>8. Following'
  BY <1>0, <1>1, <1>2, FollowingKept
<1>9. Certain'
  BY <1>0, <1>1, <1>2, CertainKept
<1>. QED  BY <1>2, <1>3, <1>4, <1>5, <1>6, <1>7, <1>8, <1>9 DEF Inv

LEMMA Invariant == Spec => []Inv
<1>1. Inv /\ [Next]_vars => Inv'
  BY InvNext, InvStutter
<1>. QED  BY InvInit, <1>1, PTL DEF Spec

\* Every variable keeps its type: threads stay where threads can be, messages are of
\* the commands and notifications that there are (acquireEntity, lockEntity, their
\* results, and unsolicited notifications).
THEOREM ExclusiveAccessTyping == Spec => []TypeOK
<1>1. Inv => TypeOK
  BY DEF Inv
<1>. QED  BY <1>1, Invariant, PTL

\* The enumeration of an advertised entity came to its queries.
LEMMA AdvertisedIsQuestioned ==
  ASSUME Inv, Advertised, ~over PROVE Questioned
BY DEF Inv, Expecting, Advertised, Questioned

\* When nothing is under way, what the controller says of who holds an entity is true
\* (updateAcquiredState, updateLockedState), or is that it does not know, which takes a
\* lost command, unless a query of a former stay was sent again: for any number of users,
\* of other controllers, of crossing commands and of stays online.
THEOREM StateAlwaysFollows == Spec => []StateFollowsDevice
<1>1. Inv => StateFollowsDevice
  <2> SUFFICES ASSUME Inv, Quiet, Advertised, ~over, NEW a \in Implemented, ~(faults # 0 /\ a \in stray)
               PROVE  IsTrue(entity.state[a], a)
    BY DEF StateFollowsDevice, IsTrue
  <2>1. toController = <<>> /\ toDevice = <<>> /\ \A u \in Users : pc[u] = "idle"
    BY DEF Quiet
  <2>2. ~Has(toController, On(a)) /\ ~Has(toDevice, On(a)) /\ ~InQuestion(a)
    BY <2>1, EmptyIs DEF InQuestion
  <2>3. ~Underway(a)
    BY <2>1, <2>2 DEF Underway, Sends, Releases
  <2>4. a \notin stray
    BY DEF Inv, Answers
  <2>5. Follows(a)
    BY <2>2, <2>4, AdvertisedIsQuestioned DEF Inv, Following
  <2>. QED  BY <2>2, <2>3, <2>5 DEF Follows
<1>. QED  BY <1>1, Invariant, PTL

\* While a token that a user asked for and was given during this stay online is valid, we
\* hold the entity once the messages are read and nothing was lost: whoever took the access
\* or ended it, the token was revoked (invalidateToken) before the network's thread rests.
THEOREM TokensAlwaysHeld == Spec => []TokensAreHeld
<1>1. Inv => TokensAreHeld
  <2> SUFFICES ASSUME Inv, Quiet, Advertised, ~over, NEW u \in Users, tokens[u] # None, tokens[u].valid,
                      tokens[u].stay = stays, faults = 0
               PROVE  device[tokens[u].access] = Us
    BY DEF TokensAreHeld
  <2>1. toController = <<>> /\ network = None /\ pc[u] = "idle"
    BY DEF Quiet
  <2>2. Valid(u)
    BY DEF Inv, TypeOK, Valid
  <2>3. Given(u)
    BY DEF Inv, Certain, Advertised
  <2>4. ~Revoking(u)
    BY <2>1 DEF Revoking, TokenLocked
  <2>5. ~Has(toController, Ending(tokens[u].access))
    BY <2>1, EmptyIs
  <2>. QED  BY <2>2, <2>3, <2>4, <2>5 DEF Given, Held
<1>. QED  BY <1>1, Invariant, PTL

-----------------------------------------------------------------------------
(* Nothing is held for nobody                                                *)

\* Users ask for what they may, and have tokens of the types there are.
Asks(u) ==
  /\ pc[u] \in {"sending", "waiting"} => Asked(call[u])
  /\ tokens[u] \in Token => tokens[u].access \in TokenTypes
Asking == \A u \in Users : Asks(u)

\* We hold only what the device implements; the commands that take are those of users,
\* and only their answers say that we hold it.
Taking ==
  /\ \A a \in Accesses : device[a] = Us => a \in Implemented
  /\ \A c \in Range(toDevice) : c.release \/ c.by \in Users
  /\ \A m \in Range(toController) : Says(m) = "Held" => m.by \in Users

\* Until the first stay's entity is advertised, no user has anything, and there are only
\* queries.
Young == stays = 0 \/ (stays = 1 /\ entity # None /\ ~entity.advertised)
Fresh ==
  Young =>
    /\ stays = 0 => entity = None
    /\ \A u \in Users : pc[u] = "idle" /\ tokens[u] = None
    /\ ~over => \A c \in Range(toDevice) : c.by = "get"
    /\ ~over /\ events = 0 => \A m \in Range(toController) : m.by = "get"

\* What is held is held for a token, or for one that is about to release it.
HeldFor(a) == a \in TokenTypes /\ (registered # {} \/ \E u \in Users : pc[u] = "releasing")
Kept ==
  entity # None /\ ~over /\ ~unreleased /\ "take" \notin Direct /\ OneAccess =>
    \A a \in Accesses : entity.state[a] = "Held" => HeldFor(a)

\* While we hold the entity, what says otherwise is not the last that is read: what says
\* that we do, or that the answer was lost, follows; when there is none, the state says so,
\* or a command is on its way.
NewsOn(a) == {m \in Request \cup Messages : m.access = a /\ m.by # "get"}
OurStates == {"Held", "Undefined"}
Good(a) == {m \in Messages : m.access = a /\ m.by # "get" /\ Says(m) \in OurStates}
Bad(a) == {m \in Messages : m.access = a /\ Says(m) \notin OurStates}
Works(u, a) == Sends(u, a) \/ Releases(u, a)
Backed(a) == Has(toDevice, NewsOn(a)) \/ \E u \in Users : Works(u, a)
Mines(a) ==
  device[a] = Us =>
    /\ Unended(toController, Bad(a), Good(a)) = {}
    /\ Has(toController, Good(a)) \/ entity.state[a] \in OurStates \/ Backed(a)
Mine == entity # None /\ ~over => \A a \in Accesses : Mines(a)

\* One command at a time is under way for an access, and the state says so.
Occupied(a) ==
  Has(toController, On(a)) \/ Has(toDevice, On(a)) \/ \E u \in Users : Works(u, a)
Alone(a) ==
  /\ Once(toController, On(a)) /\ Once(toDevice, On(a))
  /\ ~(Has(toController, On(a)) /\ Has(toDevice, On(a)))
  /\ \A u \in Users : Works(u, a) =>
       ~Has(toController, On(a)) /\ ~Has(toDevice, On(a)) /\ \A v \in Users : Works(v, a) => u = v
  /\ Occupied(a) => InProgress(entity.state[a])
Apart == Advertised /\ ~over /\ stays = 1 /\ events = 0 /\ faults = 0 => \A a \in Accesses : Alone(a)

\* When the controller is destroyed, the last command for an access is a release.
Leaves(a) ==
  /\ \A c \in Lasts(toDevice, On(a)) : c.release
  /\ ~Has(toDevice, On(a)) => device[a] # Us
Leaving ==
  over /\ Advertised /\ faults = 0 /\ events = 0 /\ stays = 1 =>
    (\A u \in Users : pc[u] # "sending") /\ \A a \in Accesses : Leaves(a)

Rights == Asking /\ Taking /\ Fresh /\ Kept /\ Mine /\ Apart /\ Leaving

LEMMA AsksOn ==
  ASSUME NEW u \in Users, Asks(u),
         pc'[u] \in {"sending", "waiting"} =>
           Asked(call'[u]) \/ (pc[u] \in {"sending", "waiting"} /\ call'[u] = call[u]),
         tokens'[u] = tokens[u] \/ tokens'[u] \notin Token \/ tokens'[u].access \in TokenTypes
  PROVE  Asks(u)'
<1>1. Asked(call[u]) /\ call'[u] = call[u] => Asked(call'[u])
  OBVIOUS
<1>2. pc'[u] \in {"sending", "waiting"} => Asked(call'[u])
  BY <1>1 DEF Asks
<1>3. tokens'[u] \in Token => tokens'[u].access \in TokenTypes
  BY DEF Asks
<1>. QED  BY <1>2, <1>3 DEF Asks, Asked

LEMMA AsksUnchanged ==
  ASSUME NEW u \in Users, Asks(u), pc'[u] = pc[u], call'[u] = call[u], tokens'[u] = tokens[u] PROVE Asks(u)'
BY AsksOn

LEMMA AnsweredAsked ==
  ASSUME TypeOK, Asking, NEW u \in Users, call[u] \in Call, pc[u] = "waiting", NEW status, Answer(u, status), NEW v \in Users
  PROVE  Asks(v)'
<1>0. Asks(v) /\ Asks(u)
  BY DEF Asking
<1>1. /\ pc' = [pc EXCEPT ![u] = "idle"] /\ call' = [call EXCEPT ![u] = None]
      /\ \/ UNCHANGED <<tokens, registered>>
         \/ /\ call[u].token /\ status = "Success" /\ call[u].access \in Accesses
            /\ tokens' = [tokens EXCEPT ![u] = [access |-> call[u].access, valid |-> TRUE, stay |-> call[u].stay]]
            /\ registered' = registered \cup {u}
  BY AnswerIs
<1>2. pc \in [Users -> Places] /\ call \in [Users -> Call \cup {None}] /\ tokens \in [Users -> Token \cup {None}]
  BY DEF TypeOK
<1>3. call[u].token => call[u].access \in TokenTypes
  BY <1>0 DEF Asks, Asked
<1>4. CASE v # u
  <2>1. pc'[v] = pc[v] /\ call'[v] = call[v] /\ tokens'[v] = tokens[v]
    BY <1>1, <1>2, <1>4
  <2>. QED  BY <1>0, <2>1, AsksUnchanged
<1>5. CASE v = u
  <2>1. pc'[v] = "idle"
    BY <1>1, <1>2, <1>5
  <2>2. tokens'[v] = tokens[v] \/ tokens'[v].access \in TokenTypes
    BY <1>1, <1>2, <1>3, <1>5
  <2>. QED  BY <1>0, <2>1, <2>2, AsksOn
<1>. QED  BY <1>4, <1>5

LEMMA AskingKept ==
  ASSUME TypeOK, Threads, Waiting, Asking,
         AskStep \/ SendStep \/ DropStep \/ ReadStep \/ RevokeStep \/ StayStep \/ EnumStep \/ DeviceStep
  PROVE  Asking'
<1> SUFFICES ASSUME NEW v \in Users PROVE Asks(v)'
  BY DEF Asking
<1>0. pc \in [Users -> Places] /\ call \in [Users -> Call \cup {None}] /\ tokens \in [Users -> Token \cup {None}]
  BY DEF TypeOK
<1>a. Asks(v)
  BY DEF Asking
<1>b. ASSUME UNCHANGED <<pc, call, tokens>> PROVE Asks(v)'
  BY <1>a, <1>b, AsksUnchanged
<1>1. ASSUME NEW u \in Users, NEW c \in Call, Asked(c), Begins(u, c) PROVE Asks(v)'
  <2>1. /\ v # u => pc'[v] = pc[v] /\ call'[v] = call[v]
        /\ v = u => call'[v] = c
        /\ tokens'[v] = tokens[v]
    BY <1>0, <1>1 DEF Begins, tokenVars
  <2>2. v = u => Asked(call'[v])
    BY <1>1, <2>1
  <2>. QED  BY <1>a, <2>1, <2>2, AsksOn
<1>2. ASSUME NEW u \in Users, NEW a \in TokenTypes, Granted(u, a) PROVE Asks(v)'
  <2>1. /\ pc'[v] = pc[v] /\ call'[v] = call[v]
        /\ v # u => tokens'[v] = tokens[v]
        /\ v = u => tokens'[v].access \in TokenTypes
    BY <1>0, <1>2 DEF Granted
  <2>. QED  BY <1>a, <2>1, AsksOn
<1>3. CASE Refused
  BY <1>3, <1>b DEF Refused, tokenVars
<1>4. ASSUME NEW u \in Users, Sent(u) \/ Unsent(u) \/ SendRelease(u) PROVE Asks(v)'
  <2>1. None \notin Token
    BY NoneIsApart
  <2>2. /\ v # u => pc'[v] = pc[v] /\ call'[v] = call[v] /\ tokens'[v] = tokens[v]
        /\ v = u => \/ pc[v] = "sending" /\ call'[v] = call[v] /\ tokens'[v] = tokens[v]
                    \/ pc'[v] = "idle" /\ tokens'[v] \in {tokens[v], None}
    BY <1>0, <1>4 DEF Sent, Unsent, RepliedTo, SendRelease, tokenVars
  <2>. QED  BY <1>a, <2>1, <2>2, AsksOn
<1>5. ASSUME NEW u \in Users, Drops(u) \/ ReleaseBegins(u) PROVE Asks(v)'
  <2>1. None \notin Token
    BY NoneIsApart
  <2>2. /\ v # u => pc'[v] = pc[v] /\ call'[v] = call[v] /\ tokens'[v] = tokens[v]
        /\ v = u => pc'[v] \notin {"sending", "waiting"} /\ tokens'[v] \in {tokens[v], None}
    BY <1>0, <1>5 DEF Drops, Destroys, Forgets, ReleaseBegins, tokenVars
  <2>. QED  BY <1>a, <2>1, <2>2, AsksOn
<1>6. ASSUME NEW m \in Messages, Ignores(m) \/ Retries(m) \/ Learns(m) \/ Revokes(m) \/ Tells(m) \/ Passes(m) PROVE Asks(v)'
  <2>1. CASE Tells(m)
    <3>1. PICK u \in Users : u = m.by
      BY <2>1 DEF Tells
    <3>2. Awaits(m.by, m) /\ call[m.by] \in Call
      BY <2>1, Awaited DEF Tells
    <3>3. PICK status : status = m.status
      OBVIOUS
    <3>4. pc[u] = "waiting" /\ call[u] \in Call /\ Answer(u, status)
      BY <2>1, <3>1, <3>2, <3>3 DEF Tells, Awaits
    <3>. QED  BY <3>4, AnsweredAsked
  <2>2. CASE ~Tells(m)
    BY <1>6, <1>b, <2>2 DEF Ignores, Retries, Learns, Revokes, Passes, tokenVars
  <2>. QED  BY <2>1, <2>2
<1>7. CASE Concludes
  <2>1. CASE network.by \in Users
    <3>1. PICK u \in Users : u = network.by
      BY <2>1
    <3>2. PICK status : status = network.status
      OBVIOUS
    <3>3. pc[u] = "waiting" /\ call[u] \in Call
      BY <1>7, <3>1 DEF Concludes, Waiting, Waits, Threads, Thread
    <3>4. Answer(u, status)
      BY <1>7, <2>1, <3>1, <3>2 DEF Concludes
    <3>. QED  BY <3>3, <3>4, AnsweredAsked
  <2>2. CASE network.by \notin Users
    BY <1>7, <1>b, <2>2 DEF Concludes, tokenVars
  <2>. QED  BY <2>1, <2>2
<1>8. ASSUME NEW u \in Users, Invalidates(u) PROVE Asks(v)'
  <2>1. pc'[v] = pc[v] /\ call'[v] = call[v]
    BY <1>8 DEF Invalidates, userVars
  <2>2. CASE tokens'[v] = tokens[v]
    BY <1>a, <2>1, <2>2, AsksUnchanged
  <2>3. CASE v = u /\ tokens[v] # None /\ tokens' = [tokens EXCEPT ![v].valid = FALSE]
    <3>1. tokens[v] \in Token
      BY <1>0, <2>3
    <3>2. tokens'[v].access = tokens[v].access
      BY <1>0, <2>3, <3>1 DEF Token
    <3>3. tokens'[v].access \in TokenTypes
      BY <1>a, <3>1, <3>2 DEF Asks
    <3>. QED  BY <1>a, <2>1, <3>3, AsksOn
  <2>. QED  BY <1>0, <1>8, <2>2, <2>3 DEF Invalidates
<1>9. CASE OnEntityOnline
  BY <1>9, <1>b DEF OnEntityOnline, tokenVars, userVars
<1>10. CASE OnEntityOffline
  <2>1. tokens'[v] = tokens[v] /\ (pc'[v] = "idle" \/ (pc'[v] = pc[v] /\ call'[v] = call[v]))
    BY <1>10 DEF OnEntityOffline, tokenVars
  <2>. QED  BY <1>a, <2>1, AsksOn
<1>11. CASE Shutdown
  <2>1. pc'[v] = pc[v] /\ call'[v] = call[v]
    BY <1>11 DEF Shutdown, userVars
  <2>2. CASE v \in registered
    <3>1. tokens[v] \in Token
      BY <2>2 DEF Threads, Thread
    <3>2. tokens'[v] = [tokens[v] EXCEPT !.valid = FALSE]
      BY <1>11, <2>2 DEF Shutdown
    <3>3. tokens'[v].access = tokens[v].access
      BY <3>1, <3>2 DEF Token
    <3>4. tokens'[v].access \in TokenTypes
      BY <1>a, <3>1, <3>3 DEF Asks
    <3>. QED  BY <1>a, <2>1, <3>4, AsksOn
  <2>3. CASE v \notin registered
    <3>1. tokens'[v] = tokens[v]
      BY <1>11, <2>3 DEF Shutdown
    <3>. QED  BY <1>a, <2>1, <3>1, AsksUnchanged
  <2>. QED  BY <2>2, <2>3
<1>12. CASE DeviceStep
  BY <1>12, <1>b DEF DeviceStep, Replies, Loses, Travels, Changes, tokenVars, userVars
<1>13. CASE EnumStep
  BY <1>13, <1>b DEF EnumStep, Prepares, Questions, Publishes, Resends, Abandons, tokenVars, userVars
<1>. QED
  BY <1>1, <1>2, <1>3, <1>4, <1>5, <1>6, <1>7, <1>8, <1>9, <1>10, <1>11, <1>12, <1>13
     DEF AskStep, SendStep, DropStep, ReadStep, RevokeStep, StayStep

\* A message that says that we hold the entity: the answer of a command that takes it.
LEMMA SaysHeld ==
  ASSUME NEW m \in Messages, Says(m) = "Held"
  PROVE  /\ m.kind = "notification" => m.holder = Us
         /\ m.kind = "response" => m.status = "Success" /\ ~m.release
<1>1. \A h : StateOf(h) = "Held" => h = Us
  BY DEF StateOf
<1>2. m.kind = "notification" => m.holder = Us
  BY <1>1 DEF Says
<1>3. m.kind = "response" => InfoFromStatus(m) = "Held"
  BY DEF Says
<1>4. InfoFromStatus(m) = "Held" => m.status = "Success" /\ ~m.release
  BY DEF InfoFromStatus
<1>. QED  BY <1>2, <1>3, <1>4

\* What the enumeration sends.
LEMMA EnumerationSends ==
  ASSUME TypeOK, EnumStep
  PROVE  \A c \in Range(toDevice') : c \in Range(toDevice) \/ (c.by = "get" /\ c.release)
<1>0. \A a \in Accesses : QueryOf(a).by = "get" /\ QueryOf(a).release
  BY DEF QueryOf, Command
<1>1. CASE Questions
  <2>1. Queried(entity.milan) \subseteq Accesses
    BY DEF Queried, Accesses
  <2>. QED  BY <1>0, <1>1, <2>1, QuestionsSend
<1>2. ASSUME NEW q \in Query, Resends(q)
      PROVE  \A c \in Range(toDevice') : c \in Range(toDevice) \/ (c.by = "get" /\ c.release)
  <2>1. q.access \in Accesses
    BY DEF Query
  <2>2. PICK v \in Seq(Request), w \in Seq(Messages) : v = toDevice /\ w = toController
    BY DEF TypeOK
  <2>3. PICK z : z = toDevice'
    OBVIOUS
  <2>4. z = Append(v, QueryOf(q.access))
    BY <1>2, <2>2, <2>3 DEF Resends
  <2>5. Range(z) = Range(v) \cup {QueryOf(q.access)}
    BY <2>1, <2>4, QuerySent
  <2>. QED  BY <1>0, <2>1, <2>2, <2>3, <2>5
<1>3. CASE Prepares \/ Publishes \/ \E q \in Query : Abandons(q)
  BY <1>3 DEF Prepares, Publishes, Abandons
<1>. QED  BY <1>1, <1>2, <1>3 DEF EnumStep

LEMMA TakingKept ==
  ASSUME TypeOK, Threads, Expecting, Taking,
         AskStep \/ SendStep \/ DropStep \/ ReadStep \/ RevokeStep \/ StayStep \/ EnumStep \/ DeviceStep
  PROVE  Taking'
<1> DEFINE Ours(d) == \A a \in Accesses : d[a] = Us => a \in Implemented
           Commands(R) == \A c \in R : c.release \/ c.by \in Users
           Told(R) == \A m \in R : Says(m) = "Held" => m.by \in Users
<1>a. Ours(device) /\ Commands(Range(toDevice)) /\ Told(Range(toController))
  BY DEF Taking
<1>b. SUFFICES Ours(device') /\ Commands(Range(toDevice')) /\ Told(Range(toController'))
  <2>1. \A m : Says(m)' = Says(m)
    BY DEF Says, InfoFromStatus, StateOf
  <2>. QED  BY <2>1 DEF Taking
<1>c. ASSUME NEW R, NEW c, c.release \/ c.by \in Users, Commands(R) PROVE Commands(R \cup {c})
  BY <1>c
<1> HIDE DEF Ours, Commands, Told
<1>1. CASE AskStep \/ DropStep \/ RevokeStep
  <2>1. UNCHANGED <<device, toDevice, toController>>
    BY <1>1 DEF AskStep, DropStep, RevokeStep, Begins, Granted, Refused, Drops, Destroys, ReleaseBegins, Concludes,
                Invalidates, worldVars
  <2>. QED  BY <1>a, <2>1
<1>2. ASSUME NEW u \in Users, Sent(u) \/ Unsent(u) \/ SendRelease(u)
      PROVE  Ours(device') /\ Commands(Range(toDevice')) /\ Told(Range(toController'))
  <2>1. UNCHANGED <<device, toController>>
    BY <1>2 DEF Sent, Unsent, SendRelease, worldVars
  <2>2. CASE Sent(u)
    <3>1. PICK c : c = Command(call[u].access, call[u].release, u)
      OBVIOUS
    <3>2. call[u] \in Call
      BY <2>2 DEF Sent, Threads, Thread
    <3>3. c \in Request /\ c.by = u
      BY <3>1, <3>2 DEF Command, Request, Call, Requesters
    <3>4. Range(toDevice') = Range(toDevice) \cup {c}
      BY <2>2, <3>1, <3>3, RangeSent DEF Sent
    <3>. QED  BY <1>a, <1>c, <2>1, <3>3, <3>4
  <2>3. CASE SendRelease(u)
    <3>1. PICK c : c = Command(tokens[u].access, TRUE, None)
      OBVIOUS
    <3>2. tokens[u].access \in Accesses
      BY <2>3 DEF SendRelease, Threads, Thread, TokenLocked, Token
    <3>3. c \in Request /\ c.release
      BY <3>1, <3>2 DEF Command, Request, Requesters
    <3>4. Range(toDevice') = Range(toDevice) \/ Range(toDevice') = Range(toDevice) \cup {c}
      BY <2>3, <3>1, <3>3, RangeSent DEF SendRelease
    <3>. QED  BY <1>a, <1>c, <2>1, <3>3, <3>4
  <2>4. CASE Unsent(u)
    BY <1>a, <2>1, <2>4 DEF Unsent
  <2>. QED  BY <1>2, <2>2, <2>3, <2>4
<1>3. ASSUME NEW m \in Messages, Ignores(m) \/ Retries(m) \/ Learns(m) \/ Revokes(m) \/ Tells(m) \/ Passes(m)
      PROVE  Ours(device') /\ Commands(Range(toDevice')) /\ Told(Range(toController'))
  <2>1. Reads(m)
    BY <1>3 DEF Ignores, Retries, Learns, Revokes, Tells, Passes
  <2>2. device' = device /\ Range(toController') \subseteq Range(toController)
    BY <2>1, HeadIs DEF Reads, worldVars
  <2>3. Told(Range(toController'))
    BY <1>a, <2>2 DEF Told
  <2>4. toDevice' = toDevice
    BY <2>1 DEF Reads
  <2>. QED  BY <1>a, <2>2, <2>3, <2>4
<1>4. CASE OnEntityOnline
  <2>1. toController' = <<>> /\ toDevice' = <<>> /\ device' = device
    BY <1>4, OnlineIs DEF OnEntityOnline
  <2>. QED  BY <1>a, <2>1, EmptyIs DEF Commands, Told
<1>5. CASE OnEntityOffline
  <2>1. toController' = <<>> /\ toDevice' = <<>> /\ device' \in {device, [a \in Accesses |-> None]}
    BY <1>5 DEF OnEntityOffline
  <2>2. Ours([a \in Accesses |-> None])
    BY ConstantsAssumption DEF Ours
  <2>3. Ours(device')
    BY <1>a, <2>1, <2>2
  <2>. QED  BY <2>1, <2>3, EmptyIs DEF Commands, Told
<1>6. CASE Shutdown
  <2>1. device' = device /\ toController' = toController
    BY <1>6 DEF Shutdown, worldVars
  <2>2. \A c \in Range(toDevice') : c \in Range(toDevice) \/ c.release
    BY <1>6, ShutdownIs
  <2>. QED  BY <1>a, <2>1, <2>2 DEF Commands
<1>7. ASSUME NEW c \in Request, NEW m \in Response, Replies(c, m) \/ Loses(c, m)
      PROVE  Ours(device') /\ Commands(Range(toDevice')) /\ Told(Range(toController'))
  <2>1. Travels(c, m) /\ m \in Messages
    BY <1>7 DEF Replies, Loses, Messages
  <2>2. Range(toDevice) = Range(toDevice') \cup {c} /\ Range(toController') = Range(toController) \cup {m}
    BY <2>1, RangeTravels
  <2>3. m.kind = "response" /\ m.release = c.release /\ m.by = c.by
    BY <2>1 DEF Travels
  <2>4. Says(m) = "Held" => m.by \in Users
    BY <1>a, <2>1, <2>2, <2>3, SaysHeld DEF Commands
  <2>5. Commands(Range(toDevice')) /\ Told(Range(toController'))
    BY <1>a, <2>2, <2>4 DEF Commands, Told
  <2>6. Ours(Holds(c))
    <3>1. SUFFICES ASSUME NEW a \in Accesses, Holds(c)[a] = Us PROVE a \in Implemented
      BY DEF Ours
    <3>2. CASE a = c.access /\ Processed(c).status = "Success"
      BY <3>2, ProcessedIs
    <3>3. CASE a # c.access \/ Processed(c).status # "Success"
      <4>1. Holds(c)[a] = device[a]
        BY <3>3, HoldsIs DEF TypeOK
      <4>. QED  BY <1>a, <3>1, <4>1 DEF Ours
    <3>. QED  BY <3>2, <3>3
  <2>7. device' = device \/ device' = Holds(c)
    BY <1>7 DEF Replies, Loses
  <2>. QED  BY <1>a, <2>5, <2>6, <2>7
<1>8. ASSUME NEW b \in Implemented, NEW h \in Others \cup {None}, Changes(b, h)
      PROVE  Ours(device') /\ Commands(Range(toDevice')) /\ Told(Range(toController'))
  <2>1. PICK m \in Messages : m = News(b, h) /\ m.kind = "notification" /\ m.holder = h
    BY NewsIs DEF Implemented, Accesses, Holders, Messages
  <2>2. h # Us
    BY ConstantsAssumption
  <2>3. Says(m) # "Held"
    BY <2>1, <2>2, SaysHeld
  <2>4. Range(toController') = Range(toController) \/ Range(toController') = Range(toController) \cup {m}
    BY <1>8, <2>1, RangeTold DEF Changes
  <2>5. Told(Range(toController'))
    BY <1>a, <2>3, <2>4 DEF Told
  <2>6. Ours(device')
    <3>1. device \in [Accesses -> Holders] /\ device' = [device EXCEPT ![b] = h]
      BY <1>8 DEF Changes, TypeOK
    <3>. QED  BY <1>a, <2>2, <3>1 DEF Ours
  <2>7. toDevice' = toDevice
    BY <1>8 DEF Changes
  <2>. QED  BY <1>a, <2>5, <2>6, <2>7
<1>9. CASE EnumStep
  <2>1. UNCHANGED <<device, toController>>
    BY <1>9 DEF EnumStep, Prepares, Questions, Publishes, Resends, Abandons, worldVars
  <2>2. \A c \in Range(toDevice') : c \in Range(toDevice) \/ c.release
    BY <1>9, EnumerationSends
  <2>. QED  BY <1>a, <2>1, <2>2 DEF Commands
<1>. QED
  BY <1>1, <1>2, <1>3, <1>4, <1>5, <1>6, <1>7, <1>8, <1>9 DEF SendStep, ReadStep, StayStep, DeviceStep

\* A stay goes on; once advertised, the entity remains so.
LEMMA StaysOn ==
  ASSUME TypeOK, TypeOK', Threads, Expecting, entity' # None, ~OnEntityOnline,
         AskStep \/ SendStep \/ DropStep \/ ReadStep \/ RevokeStep \/ StayStep \/ EnumStep \/ DeviceStep
  PROVE  /\ stays' = stays /\ entity # None /\ (over => over')
         /\ (entity.advertised => entity'.advertised)
         /\ (entity'.advertised /\ ~entity.advertised => Publishes \/ \E m \in Messages : Learns(m))
BY StepIs, EntityKept DEF EntityOn

\* The first stay lasts until its entity is advertised; nothing precedes it.
LEMMA YoungBefore ==
  ASSUME TypeOK, TypeOK', Threads, Expecting, Fresh, Young',
         AskStep \/ SendStep \/ DropStep \/ ReadStep \/ RevokeStep \/ StayStep \/ EnumStep \/ DeviceStep
  PROVE  Young /\ (entity # None => stays = 1 /\ ~entity.advertised)
<1>0. stays \in Nat
  BY DEF TypeOK
<1>1. CASE OnEntityOnline
  <2>1. stays' = stays + 1 /\ entity = None
    BY <1>1 DEF OnEntityOnline
  <2>2. stays = 0
    BY <1>0, <2>1 DEF Young
  <2>. QED  BY <2>1, <2>2 DEF Young
<1>2. CASE ~OnEntityOnline /\ entity' # None
  <2>1. stays' = stays /\ entity # None /\ (entity.advertised => entity'.advertised)
    BY <1>2, StaysOn
  <2>2. stays # 0
    BY <2>1 DEF Fresh, Young
  <2>3. stays = 1 /\ ~entity.advertised
    BY <2>1, <2>2 DEF Young
  <2>. QED  BY <2>1, <2>3 DEF Young
<1>3. CASE ~OnEntityOnline /\ entity' = None
  <2>1. stays' = 0
    BY <1>3 DEF Young
  <2>2. stays' = stays
    BY <1>3 DEF AskStep, SendStep, DropStep, ReadStep, RevokeStep, StayStep, DeviceStep, Begins, Granted, Refused, Sent,
         Unsent, SendRelease, Drops, Destroys, ReleaseBegins, Ignores, Retries, Learns, Revokes, Tells, Passes, Reads, Concludes,
         Invalidates, OnEntityOffline, Shutdown, Replies, Loses, Travels, Changes, EnumStep, Prepares, Questions,
         Publishes, Resends, Abandons, worldVars
  <2>3. entity = None
    BY <2>1, <2>2 DEF Fresh, Young
  <2>. QED  BY <2>1, <2>2, <2>3 DEF Young
<1>. QED  BY <1>1, <1>2, <1>3

LEMMA FreshKept ==
  ASSUME TypeOK, TypeOK', Threads, Waiting, Expecting, Fresh,
         AskStep \/ SendStep \/ DropStep \/ ReadStep \/ RevokeStep \/ StayStep \/ EnumStep \/ DeviceStep
  PROVE  Fresh'
<1> SUFFICES ASSUME Young'
             PROVE  /\ stays' = 0 => entity' = None
                    /\ \A v \in Users : pc'[v] = "idle" /\ tokens'[v] = None
                    /\ ~over' => \A c \in Range(toDevice') : c.by = "get"
                    /\ ~over' /\ events' = 0 => \A m \in Range(toController') : m.by = "get"
  BY DEF Fresh
<1>0. Young /\ (entity # None => stays = 1 /\ ~entity.advertised)
  BY YoungBefore
<1>a. /\ stays = 0 => entity = None
      /\ \A v \in Users : pc[v] = "idle" /\ tokens[v] = None
      /\ ~over => \A c \in Range(toDevice) : c.by = "get"
      /\ ~over /\ events = 0 => \A m \in Range(toController) : m.by = "get"
  BY <1>0 DEF Fresh
<1>b. ~Advertised /\ stays \in Nat /\ events \in Nat
  BY <1>0 DEF Advertised, TypeOK
<1>c. None \notin Token
  BY NoneIsApart
<1>1. CASE AskStep
  <2>1. Refused
    BY <1>1, <1>b DEF AskStep, Begins, Granted
  <2>. QED  BY <1>a, <2>1 DEF Refused, tokenVars, worldVars
<1>2. CASE SendStep
  BY <1>2, <1>a DEF SendStep, Sent, Unsent, SendRelease
<1>3. ASSUME NEW u \in Users, Drops(u) \/ ReleaseBegins(u)
      PROVE  /\ pc' = pc /\ UNCHANGED <<entity, toDevice, toController, over, events, stays>>
             /\ \A v \in Users : tokens'[v] = None
  <2>1. pc[u] = "idle" /\ tokens[u] = None
    BY <1>a
  <2>2. /\ pc' = pc /\ tokens' = [tokens EXCEPT ![u] = None]
        /\ UNCHANGED <<entity, toDevice, toController, over, events, stays>>
    BY <1>3, <2>1 DEF Drops, Destroys, ReleaseBegins, worldVars
  <2>3. tokens \in [Users -> Token \cup {None}]
    BY DEF TypeOK
  <2>. QED  BY <1>a, <2>2, <2>3
<1>4. ASSUME NEW m \in Messages, Ignores(m) \/ Retries(m) \/ Learns(m) \/ Revokes(m) \/ Tells(m) \/ Passes(m)
      PROVE  /\ UNCHANGED <<pc, tokens, over, events, stays>> /\ entity # None
             /\ ~over' => \A c \in Range(toDevice') : c.by = "get"
             /\ Range(toController') \subseteq Range(toController)
  <2>1. Reads(m)
    BY <1>4 DEF Ignores, Retries, Learns, Revokes, Tells, Passes
  <2>2. UNCHANGED <<over, events, stays>> /\ Range(toController') \subseteq Range(toController) /\ entity # None
        /\ entity \in Entity
    BY <2>1, HeadIs DEF Reads, worldVars, TypeOK
  <2>3. ~Tells(m)
    <3>1. SUFFICES ASSUME Tells(m) PROVE FALSE
      OBVIOUS
    <3>2. m.by \in Users /\ Awaits(m.by, m)
      BY <2>1, <3>1, Awaited DEF Tells
    <3>. QED  BY <1>a, <3>2 DEF Awaits
  <2>4. ~Revokes(m)
    <3>1. Revoked(Updated(m), m.access) = {}
      BY <1>0, <2>2, RevokedIs
    <3>. QED  BY <3>1 DEF Revokes
  <2>5. UNCHANGED <<pc, tokens>>
    BY <1>4, <2>3, <2>4 DEF Ignores, Retries, Learns, Passes, tokenVars
  <2>6. toDevice' = toDevice
    BY <2>1 DEF Reads
  <2>. QED  BY <1>a, <2>2, <2>5, <2>6
<1>5. CASE Concludes
  <2>1. network.by \notin Users
    <3>1. ASSUME NEW u \in Users, network.by = u PROVE FALSE
      <4>1. pc[u] = "waiting"
        BY <1>5, <3>1 DEF Concludes, Waiting, Waits
      <4>. QED  BY <1>a, <4>1
    <3>. QED  BY <3>1
  <2>. QED  BY <1>5, <1>a, <2>1 DEF Concludes, tokenVars, worldVars
<1>6. ASSUME NEW u \in Users, Invalidates(u) PROVE UNCHANGED <<entity, pc, tokens, toDevice, toController, over, events, stays>>
  BY <1>6, <1>a DEF Invalidates, userVars, worldVars
<1>7. CASE OnEntityOnline
  <2>1. toController' = <<>> /\ toDevice' = <<>> /\ UNCHANGED <<pc, tokens>> /\ stays' = stays + 1
    BY <1>7, OnlineIs DEF OnEntityOnline, tokenVars, userVars
  <2>2. stays' # 0
    BY <1>b, <2>1
  <2>. QED  BY <1>a, <2>1, <2>2, EmptyIs
<1>8. CASE OnEntityOffline
  <2>1. entity # None /\ entity' = None /\ stays' = stays
    BY <1>8 DEF OnEntityOffline
  <2>. QED  BY <1>0, <2>1 DEF Young
<1>9. CASE Shutdown
  <2>1. over' /\ UNCHANGED <<entity, pc, stays>>
    BY <1>9 DEF Shutdown, userVars, worldVars
  <2>2. \A v \in Users : v \notin registered
    BY <1>a, <1>c DEF Threads, Thread
  <2>3. \A v \in Users : tokens'[v] = None
    BY <1>9, <1>a, <2>2 DEF Shutdown
  <2>. QED  BY <1>a, <2>1, <2>3
<1>10. ASSUME NEW c \in Request, NEW m \in Response, Replies(c, m) \/ Loses(c, m)
      PROVE  /\ UNCHANGED <<entity, pc, tokens, over, events, stays>>
             /\ ~over' => \A d \in Range(toDevice') : d.by = "get"
             /\ ~over' /\ events' = 0 => \A n \in Range(toController') : n.by = "get"
  <2>1. Travels(c, m)
    BY <1>10 DEF Replies, Loses
  <2>2. UNCHANGED <<entity, pc, tokens, over, events, stays>> /\ m.by = c.by
    BY <2>1 DEF Travels, tokenVars, userVars
  <2>3. Range(toDevice) = Range(toDevice') \cup {c} /\ Range(toController') = Range(toController) \cup {m}
    BY <2>1, RangeTravels
  <2>. QED  BY <1>a, <2>2, <2>3
<1>11. ASSUME NEW b \in Implemented, NEW h \in Others \cup {None}, Changes(b, h)
      PROVE  UNCHANGED <<entity, pc, tokens, toDevice, over, stays>> /\ events' # 0
  BY <1>11, <1>b DEF Changes, tokenVars, userVars
<1>12. ASSUME EnumStep
       PROVE  /\ UNCHANGED <<pc, tokens, toController, over, events, stays>> /\ (entity = None => entity' = None)
              /\ \A c \in Range(toDevice') : c \in Range(toDevice) \/ c.by = "get"
  BY <1>12, EnumerationSends DEF EnumStep, Prepares, Questions, Publishes, Resends, Abandons, tokenVars, userVars, worldVars
<1>. QED
  <2>1. CASE DropStep
    BY <1>3, <1>a, <2>1 DEF DropStep
  <2>2. CASE ReadStep
    BY <1>4, <1>a, <1>0, <2>2 DEF ReadStep, Young
  <2>3. CASE RevokeStep
    BY <1>5, <1>6, <1>a, <2>3 DEF RevokeStep
  <2>4. CASE StayStep
    BY <1>7, <1>8, <1>9, <2>4 DEF StayStep
  <2>5. CASE DeviceStep
    BY <1>10, <1>11, <1>a, <2>5 DEF DeviceStep
  <2>6. CASE EnumStep
    BY <1>12, <1>a, <1>0, <2>6
  <2>. QED  BY <1>1, <1>2, <2>1, <2>2, <2>3, <2>4, <2>5, <2>6

\* Whoever is told that it took the entity has a token, when users take nothing themselves.
LEMMA TokenTold ==
  ASSUME TypeOK, Threads, Waiting, Asking, Taking, "take" \notin Direct,
         NEW m \in Messages, Ignores(m) \/ Retries(m) \/ Learns(m) \/ Revokes(m) \/ Tells(m) \/ Passes(m), Says(m) = "Held"
  PROVE  m.access \in TokenTypes /\ registered' # {}
<1>0. /\ Reads(m) /\ entity # None /\ entity \in Entity /\ ~over /\ m \in Range(toController)
      /\ None \notin Users /\ "get" \notin Users
  BY ReadIs, ConstantsAssumption DEF Reads
<1>1. m.by \in Users
  BY <1>0 DEF Taking
<1>2. PICK u \in Users : u = m.by
  BY <1>1
<1>3. pc[u] = "waiting" /\ m.access = call[u].access /\ m.release = call[u].release /\ call[u] \in Call
  BY <1>0, <1>2, Awaited DEF Awaits
<1>4. m.status = "Success" /\ ~m.release
  <2>1. m.kind = "response"
    BY <1>0, <1>1, SaysIs DEF Messages, Response, Notification
  <2>. QED  BY <2>1, SaysHeld
<1>5. call[u].token /\ m.access \in TokenTypes
  BY <1>3, <1>4 DEF Asking, Asks, Asked
<1>6. Revoked(Updated(m), m.access) = {}
  BY <1>0, RevokedIs
<1>7. Tells(m)
  BY <1>0, <1>1, <1>6 DEF Ignores, Retries, Learns, Revokes, Passes
<1>8. PICK status : status = m.status
  OBVIOUS
<1>9. Answer(u, status)
  BY <1>2, <1>7, <1>8 DEF Tells
<1>10. u \in registered'
  BY <1>4, <1>5, <1>8, <1>9 DEF Answer
<1>. QED  BY <1>5, <1>10

LEMMA HeldForOn ==
  ASSUME NEW a, HeldFor(a), registered # {} => registered' # {} \/ \E u \in Users : pc'[u] = "releasing",
         \A u \in Users : pc[u] = "releasing" => pc'[u] = "releasing"
  PROVE  HeldFor(a)'
BY DEF HeldFor

LEMMA KeptOn ==
  ASSUME TypeOK, TypeOK', Threads, Waiting, Expecting, Asking, Taking, Kept,
         AskStep \/ SendStep \/ DropStep \/ ReadStep \/ RevokeStep \/ StayStep \/ EnumStep \/ DeviceStep
  PROVE  Kept'
<1> SUFFICES ASSUME entity' # None, ~over', ~unreleased', "take" \notin Direct, OneAccess,
                    NEW a \in Accesses, entity'.state[a] = "Held"
             PROVE  HeldFor(a)'
  BY DEF Kept
<1>1. ~OnEntityOnline
  <2>1. SUFFICES ASSUME OnEntityOnline PROVE entity'.state[a] = "Undefined"
    OBVIOUS
  <2>2. PICK s : s = [b \in Accesses |-> "Undefined"]
    OBVIOUS
  <2>3. entity'.state = s
    BY <2>1, <2>2 DEF OnEntityOnline
  <2>. QED  BY <2>2, <2>3
<1>2. /\ stays' = stays /\ entity # None /\ ~over /\ (entity.advertised => entity'.advertised)
      /\ entity \in Entity
  BY <1>1, StaysOn DEF TypeOK
<1>3. ~unreleased
  BY <1>1 DEF AskStep, SendStep, DropStep, ReadStep, RevokeStep, StayStep, EnumStep, DeviceStep, Begins, Granted, Refused,
       Sent, Unsent, SendRelease, Drops, Destroys, ReleaseBegins, Ignores, Retries, Learns, Revokes, Tells, Passes, Reads,
       Concludes, Invalidates, OnEntityOffline, Shutdown, Prepares, Questions, Publishes, Resends, Abandons, Replies,
       Loses, Travels, Changes
<1>4. entity.state[a] = "Held" => HeldFor(a)
  BY <1>2, <1>3 DEF Kept
<1>5. pc \in [Users -> Places] /\ registered \in SUBSET Users
  BY DEF TypeOK
\* The state is as before.
<1>a. ASSUME entity'.state[a] = entity.state[a], registered # {} => registered' # {} \/ \E u \in Users : pc'[u] = "releasing",
             \A u \in Users : pc[u] = "releasing" => pc'[u] = "releasing"
      PROVE  HeldFor(a)'
  BY <1>4, <1>a, HeldForOn
<1>6. CASE AskStep
  <2>1. ASSUME NEW u \in Users, NEW c \in Call, Begins(u, c) PROVE HeldFor(a)'
    <3>1. c.access \in Accesses /\ c.release \in BOOLEAN
      BY DEF Call
    <3>2. entity'.state[a] = entity.state[a]
      <4>1. PICK e : e = Begun(c.access, c.release)
        OBVIOUS
      <4>2. InProgress(e.state[c.access]) /\ \A b \in Accesses : b # c.access => e.state[b] = entity.state[b]
        BY <1>2, <3>1, <4>1, Beginning
      <4>3. entity' = e
        BY <2>1, <4>1 DEF Begins
      <4>4. a # c.access
        BY <4>2, <4>3 DEF InProgress
      <4>. QED  BY <4>2, <4>3, <4>4
    <3>3. pc[u] = "idle" /\ pc' = [pc EXCEPT ![u] = "sending"] /\ registered' = registered
      BY <2>1 DEF Begins, tokenVars
    <3>. QED  BY <1>5, <1>a, <3>2, <3>3
  <2>2. ASSUME NEW u \in Users, NEW b \in TokenTypes, Granted(u, b) PROVE HeldFor(a)'
    BY <1>a, <2>2 DEF Granted
  <2>3. CASE Refused
    BY <1>a, <2>3 DEF Refused, tokenVars
  <2>. QED  BY <1>6, <2>1, <2>2, <2>3 DEF AskStep
<1>7. ASSUME NEW u \in Users, Sent(u) \/ Unsent(u) \/ SendRelease(u) PROVE HeldFor(a)'
  <2>1. /\ entity' = entity /\ registered' = registered /\ pc[u] \in {"sending", "sendingRelease"}
        /\ \E p : pc' = [pc EXCEPT ![u] = p]
    BY <1>7 DEF Sent, Unsent, RepliedTo, SendRelease, tokenVars
  <2>. QED  BY <1>5, <1>a, <2>1
<1>8. ASSUME NEW u \in Users, Drops(u) PROVE HeldFor(a)'
  <2>1. entity' = entity
    BY <1>8 DEF Drops, Destroys
  <2>2. registered # {} => registered' # {} \/ pc'[u] = "releasing"
    BY <1>8 DEF Drops
  <2>3. pc[u] # "releasing"
    <3>1. SUFFICES ASSUME pc[u] = "releasing" PROVE FALSE
      OBVIOUS
    <3>2. HeldFor(a) /\ entity.state[a] = "Held"
      BY <1>4, <2>1
    <3>3. tokens[u] \in Token
      BY <3>1 DEF Threads, Thread, TokenLocked
    <3>4. tokens[u].access = a
      BY <3>2, <3>3 DEF HeldFor, OneAccess, Asking, Asks
    <3>5. entity.advertised
      <4>1. unreleased' = (unreleased \/ (pc[u] = "releasing" /\ entity # None /\ ~entity.advertised))
        BY <1>8 DEF Drops, Destroys
      <4>2. entity.advertised \in BOOLEAN
        BY <1>2 DEF Entity
      <4>. QED  BY <1>2, <3>1, <4>1, <4>2
    <3>6. InProgress(entity.state[a])
      BY <1>2, <1>8, <3>1, <3>4, <3>5 DEF Drops, Advertised
    <3>. QED  BY <3>2, <3>6 DEF InProgress
  <2>4. \A v \in Users : v # u => pc'[v] = pc[v]
    BY <1>5, <1>8 DEF Drops, Destroys, Forgets
  <2>. QED  BY <1>a, <2>1, <2>2, <2>3, <2>4
<1>9. ASSUME NEW u \in Users, ReleaseBegins(u) PROVE HeldFor(a)'
  <2>1. tokens[u] \in Token
    BY <1>9 DEF ReleaseBegins, Threads, Thread, TokenLocked
  <2>2. PICK b \in Accesses : b = tokens[u].access
    BY <2>1 DEF Token
  <2>3. PICK e : e = Begun(b, TRUE)
    OBVIOUS
  <2>4. InProgress(e.state[b]) /\ \A d \in Accesses : d # b => e.state[d] = entity.state[d]
    BY <1>2, <2>3, Beginning
  <2>5. entity' = e
    BY <1>9, <2>2, <2>3 DEF ReleaseBegins
  <2>6. a # b
    BY <2>4, <2>5 DEF InProgress
  <2>7. HeldFor(a)
    BY <1>4, <2>4, <2>5, <2>6
  <2>8. b \in TokenTypes
    BY <2>1, <2>2 DEF Asking, Asks
  <2>. QED  BY <2>6, <2>7, <2>8 DEF HeldFor, OneAccess
<1>10. ASSUME NEW m \in Messages, Ignores(m) \/ Retries(m) \/ Learns(m) \/ Revokes(m) \/ Tells(m) \/ Passes(m) PROVE HeldFor(a)'
  <2>1. /\ Reads(m) /\ m.access \in Accesses
        /\ entity'.state[a] = entity.state[a] \/ (m.access = a /\ entity'.state[a] = Says(m))
    BY <1>10, ReadIs
  <2>2. CASE m.access = a /\ Says(m) = "Held"
    <3>1. m.access \in TokenTypes /\ registered' # {}
      BY <1>10, <2>2, TokenTold
    <3>. QED  BY <2>2, <3>1 DEF HeldFor
  <2>3. CASE ~(m.access = a /\ Says(m) = "Held")
    <3>1. entity'.state[a] = entity.state[a] /\ HeldFor(a)
      BY <1>4, <2>1, <2>3
    <3>2. CASE Tells(m)
      <4>1. PICK u \in Users : u = m.by
        BY <3>2 DEF Tells
      <4>2. PICK status : status = m.status
        OBVIOUS
      <4>3. pc[u] = "waiting" /\ call[u] \in Call /\ Answer(u, status)
        BY <2>1, <3>2, <4>1, <4>2, Awaited DEF Tells, Awaits
      <4>4. pc' = [pc EXCEPT ![u] = "idle"] /\ registered \subseteq registered'
        BY <4>3, AnswerIs
      <4>. QED  BY <1>5, <1>a, <3>1, <4>3, <4>4
    <3>3. CASE Revokes(m)
      <4>1. Revoked(Updated(m), m.access) # {}
        BY <3>3 DEF Revokes
      <4>2. PICK v \in registered : tokens[v].access = m.access
        BY <4>1 DEF Revoked
      <4>3. tokens[v] \in Token /\ v \in Users
        BY <1>5 DEF Threads, Thread
      <4>4. m.access = a
        BY <3>1, <4>2, <4>3 DEF Asking, Asks, OneAccess, HeldFor
      <4>5. Says(m) = "NotHeld"
        BY <1>2, <4>1, RevokedIs
      <4>6. entity'.state[m.access] = Says(m)
        BY <1>10, <3>3, ReadIs DEF Ignores, Revokes
      <4>. QED  BY <4>4, <4>5, <4>6
    <3>4. CASE Ignores(m) \/ Retries(m) \/ Learns(m) \/ Passes(m)
      BY <1>a, <3>1, <3>4 DEF Ignores, Retries, Learns, Passes, tokenVars
    <3>. QED  BY <1>10, <3>2, <3>3, <3>4
  <2>. QED  BY <2>2, <2>3
<1>11. CASE Concludes
  <2>1. CASE network.by \in Users
    <3>1. PICK u \in Users : u = network.by
      BY <2>1
    <3>2. PICK status : status = network.status
      OBVIOUS
    <3>3. pc[u] = "waiting" /\ call[u] \in Call /\ Answer(u, status)
      BY <1>11, <2>1, <3>1, <3>2 DEF Concludes, Waiting, Waits, Threads, Thread
    <3>4. pc' = [pc EXCEPT ![u] = "idle"] /\ registered \subseteq registered'
      BY <3>3, AnswerIs
    <3>5. entity' = entity
      BY <1>11 DEF Concludes
    <3>. QED  BY <1>5, <1>a, <3>3, <3>4, <3>5
  <2>2. CASE network.by \notin Users
    BY <1>11, <1>a, <2>2 DEF Concludes, tokenVars
  <2>. QED  BY <2>1, <2>2
<1>12. ASSUME NEW u \in Users, Invalidates(u) PROVE HeldFor(a)'
  BY <1>12, <1>a DEF Invalidates, userVars
<1>13. CASE StayStep
  BY <1>1, <1>13 DEF StayStep, OnEntityOffline, Shutdown
<1>14. CASE DeviceStep
  <2>1. UNCHANGED <<entity, registered, pc>>
    BY <1>14 DEF DeviceStep, Replies, Loses, Travels, Changes, tokenVars, userVars
  <2>. QED  BY <1>a, <2>1
<1>15. CASE EnumStep
  <2>1. UNCHANGED <<registered, pc>>
    BY <1>15 DEF EnumStep, Prepares, Questions, Publishes, Resends, Abandons, tokenVars, userVars
  <2>2. entity'.state[a] = entity.state[a]
    <3>1. CASE Questions
      BY <3>1 DEF Questions
    <3>2. CASE ~Questions
      BY <1>15, <3>2 DEF EnumStep, Prepares, Publishes, Resends, Abandons
    <3>. QED  BY <3>1, <3>2
  <2>. QED  BY <1>a, <2>1, <2>2
<1>. QED
  BY <1>6, <1>7, <1>8, <1>9, <1>10, <1>11, <1>12, <1>13, <1>14, <1>15 DEF SendStep, DropStep, ReadStep, RevokeStep

\* The answer of a user's command begins no other, and ends none.
LEMMA WorksAnswered ==
  ASSUME TypeOK, NEW u \in Users, call[u] \in Call, pc[u] = "waiting", NEW status, Answer(u, status), NEW a, NEW v \in Users
  PROVE  Works(v, a)' <=> Works(v, a)
<1>1. /\ pc' = [pc EXCEPT ![u] = "idle"] /\ call' = [call EXCEPT ![u] = None]
      /\ \/ UNCHANGED <<tokens, registered>>
         \/ /\ call[u].token /\ status = "Success" /\ call[u].access \in Accesses
            /\ tokens' = [tokens EXCEPT ![u] = [access |-> call[u].access, valid |-> TRUE, stay |-> call[u].stay]]
            /\ registered' = registered \cup {u}
  BY AnswerIs
<1>2. pc \in [Users -> Places] /\ call \in [Users -> Call \cup {None}] /\ tokens \in [Users -> Token \cup {None}]
  BY DEF TypeOK
<1>3. /\ v = u => pc'[v] = "idle"
      /\ v # u => pc'[v] = pc[v] /\ call'[v] = call[v] /\ tokens'[v] = tokens[v]
  BY <1>1, <1>2
<1>. QED  BY <1>3 DEF Works, Sends, Releases

\* We hold what we held; or what is told says that we do.
LEMMA MinesOn ==
  ASSUME NEW a, Mines(a), device'[a] = device[a], toController' = toController,
         entity.state[a] \in OurStates => entity'.state[a] \in OurStates \/ Backed(a)', Backed(a) => Backed(a)'
  PROVE  Mines(a)'
BY DEF Mines

LEMMA MinesRead ==
  ASSUME TypeOK, NEW m \in Messages, Reads(m), NEW a, Mines(a), Backed(a) => Backed(a)',
         entity'.state[a] = entity.state[a] \/ (m.access = a /\ entity'.state[a] = Says(m)),
         m.by # "get" /\ m.access = a => entity'.state[a] = Says(m)
  PROVE  Mines(a)'
<1>0. /\ toController \in Seq(Messages) /\ toController # <<>> /\ m = Head(toController) /\ toController' = Tail(toController)
      /\ device' = device
  BY DEF TypeOK, Reads, worldVars
<1>1. /\ Unended(toController', Bad(a), Good(a)) \subseteq Unended(toController, Bad(a), Good(a))
      /\ m \in Bad(a) /\ ~Has(toController', Good(a)) => m \in Unended(toController, Bad(a), Good(a))
      /\ Has(toController, Good(a)) <=> Has(toController', Good(a)) \/ m \in Good(a)
  BY <1>0, UnendedTail, HasTail
<1>2. SUFFICES ASSUME device[a] = Us, ~Has(toController', Good(a)) PROVE entity'.state[a] \in OurStates \/ Backed(a)'
  BY <1>0, <1>1 DEF Mines
<1>3. m \notin Bad(a)
  BY <1>1, <1>2 DEF Mines
<1>4. m.access = a => Says(m) \in OurStates
  BY <1>3 DEF Bad
<1>5. CASE m \in Good(a)
  BY <1>4, <1>5 DEF Good
<1>6. CASE m \notin Good(a)
  <2>1. entity.state[a] \in OurStates \/ Backed(a)
    BY <1>1, <1>2, <1>6 DEF Mines
  <2>. QED  BY <1>4, <2>1
<1>. QED  BY <1>5, <1>6

LEMMA MinesTold ==
  ASSUME TypeOK, NEW m \in Messages, toController' = Append(toController, m), entity' = entity, NEW a,
         device'[a] = Us => m \in Good(a) \/ (Mines(a) /\ device[a] = Us /\ m \notin Bad(a) /\ (Backed(a) => Backed(a)'))
  PROVE  Mines(a)'
<1>0. toController \in Seq(Messages)
  BY DEF TypeOK
<1>1. /\ Unended(toController', Bad(a), Good(a)) \subseteq Unended(toController, Bad(a), Good(a)) \cup ({m} \cap Bad(a))
      /\ m \in Good(a) => Unended(toController', Bad(a), Good(a)) \subseteq {m}
      /\ Has(toController', Good(a)) <=> Has(toController, Good(a)) \/ m \in Good(a)
  BY <1>0, UnendedAppend, HasAppend
<1>2. Unended(toController', Bad(a), Good(a)) \subseteq Bad(a)
  BY DEF Unended
<1>3. m \in Good(a) => m \notin Bad(a)
  BY DEF Good, Bad
<1>4. SUFFICES ASSUME device'[a] = Us
               PROVE  /\ Unended(toController', Bad(a), Good(a)) = {}
                      /\ Has(toController', Good(a)) \/ entity.state[a] \in OurStates \/ Backed(a)'
  BY DEF Mines
<1>5. CASE m \in Good(a)
  BY <1>1, <1>2, <1>3, <1>5
<1>6. CASE m \notin Good(a)
  BY <1>1, <1>4, <1>6 DEF Mines
<1>. QED  BY <1>5, <1>6

LEMMA MinesOnTheDevice ==
  ASSUME TypeOK, Answers, Taking, Mine, entity # None, ~over, DeviceStep, NEW a \in Accesses
  PROVE  Mines(a)'
<1>0. Mines(a) /\ (device[a] = Us => a \in Implemented) /\ device \in [Accesses -> Holders]
  BY DEF Mine, Taking, TypeOK
<1>1. ASSUME NEW c \in Request, NEW m \in Response, Replies(c, m) \/ Loses(c, m) PROVE Mines(a)'
  <2>1. Travels(c, m) /\ m \in Messages
    BY <1>1 DEF Replies, Loses, Messages
  <2>2. /\ m.access = c.access /\ m.by = c.by /\ m.kind = "response" /\ toController' = Append(toController, m)
        /\ entity' = entity /\ toDevice \in Seq(Request) /\ toDevice # <<>> /\ c = Head(toDevice) /\ toDevice' = Tail(toDevice)
        /\ UNCHANGED <<pc, call, tokens>>
    BY <2>1 DEF Travels, tokenVars, userVars, TypeOK
  <2>3. Has(toDevice, NewsOn(a)) <=> Has(toDevice', NewsOn(a)) \/ c \in NewsOn(a)
    BY <2>2, HasTail
  <2>4. \A v \in Users : Works(v, a)' <=> Works(v, a)
    BY <2>2 DEF Works, Sends, Releases
  <2>5. c \notin NewsOn(a) /\ Backed(a) => Backed(a)'
    BY <2>3, <2>4 DEF Backed
  <2>6. c.by = "get" => c.release
    <3>1. c \in Range(toDevice)
      BY <2>1, RangeTravels
    <3>. QED  BY <3>1 DEF Answers
  <2>7. CASE c.access # a
    <3>1. c \notin NewsOn(a) /\ m \notin Bad(a)
      BY <2>2, <2>7 DEF NewsOn, Bad
    <3>2. device'[a] = device[a]
      BY <1>0, <1>1, <2>7, HoldsIs DEF Replies, Loses
    <3>. QED  BY <1>0, <2>1, <2>2, <2>5, <3>1, <3>2, MinesTold
  <2>8. CASE c.access = a
    <3> SUFFICES ASSUME device'[a] = Us
                 PROVE  m \in Good(a) \/ (device[a] = Us /\ m \notin Bad(a) /\ (Backed(a) => Backed(a)'))
      BY <1>0, <2>1, <2>2, MinesTold
    <3>1. c.by = "get" => device'[a] = device[a]
      <4>1. c.by = "get" /\ Processed(c).status = "Success" => Holds(c)[a] = None
        BY <1>0, <2>6, <2>8, HoldsIs, ProcessedIs
      <4>2. Processed(c).status # "Success" => Holds(c) = device
        BY <1>0, HoldsIs
      <4>3. device' = device \/ device' = Holds(c)
        BY <1>1 DEF Replies, Loses
      <4>4. None # Us
        BY ConstantsAssumption
      <4>. QED  BY <4>1, <4>2, <4>3, <4>4
    <3>2. Says(m) \in OurStates
      <4>1. CASE Replies(c, m)
        <5>1. c.access \in Implemented
          <6>1. c.access \notin Implemented => device' = device
            BY <1>0, <4>1, HoldsIs, ProcessedIs DEF Replies
          <6>. QED  BY <1>0, <2>8, <6>1
        <5>2. Says(m) = StateOf(Us)
          BY <2>8, <4>1, <5>1, AnswersTrue DEF Replies
        <5>. QED  BY <5>2, StateOfIs DEF OurStates
      <4>2. CASE Loses(c, m)
        BY <4>2, TimedOutSays DEF Loses, OurStates
      <4>. QED  BY <1>1, <4>1, <4>2
    <3>3. CASE c.by # "get"
      BY <2>1, <2>2, <2>8, <3>2, <3>3 DEF Good
    <3>4. CASE c.by = "get"
      BY <2>5, <3>1, <3>2, <3>4 DEF NewsOn, Bad
    <3>. QED  BY <3>3, <3>4
  <2>. QED  BY <2>7, <2>8
<1>2. ASSUME NEW b \in Implemented, NEW h \in Others \cup {None}, Changes(b, h) PROVE Mines(a)'
  <2>0. b \in Accesses /\ h # Us
    BY ConstantsAssumption DEF Implemented, Accesses
  <2>1. PICK m \in Messages : m = News(b, h) /\ m.access = b
    BY <2>0, NewsIs DEF Holders, Messages
  <2>2. /\ toController' \in {toController, Append(toController, m)}
        /\ UNCHANGED <<entity, toDevice, pc, call, tokens>> /\ device' = [device EXCEPT ![b] = h]
    BY <1>2, <2>1 DEF Changes, tokenVars, userVars
  <2>3. Backed(a)' <=> Backed(a)
    BY <2>2 DEF Backed, Works, Sends, Releases
  <2>4. CASE a = b
    BY <1>0, <2>0, <2>2, <2>4 DEF Mines
  <2>5. CASE a # b
    <3>1. device'[a] = device[a] /\ m \notin Bad(a)
      BY <1>0, <2>0, <2>1, <2>2, <2>5 DEF Bad
    <3>2. CASE toController' = toController
      BY <1>0, <2>2, <2>3, <3>1, <3>2, MinesOn
    <3>3. CASE toController' = Append(toController, m)
      BY <1>0, <2>1, <2>2, <2>3, <3>1, <3>3, MinesTold
    <3>. QED  BY <2>2, <3>2, <3>3
  <2>. QED  BY <2>4, <2>5
<1>. QED  BY <1>1, <1>2 DEF DeviceStep

\* A command that is sent is that of a user or of its token.
LEMMA BackedSent ==
  ASSUME TypeOK, Threads, NEW u \in Users, Sent(u) \/ SendRelease(u), entity # None, NEW a
  PROVE  Backed(a) => Backed(a)'
<1>0. "get" \notin Users \cup {None} /\ toDevice \in Seq(Request)
  BY ConstantsAssumption DEF TypeOK
<1>1. PICK c : c = (IF Sent(u) THEN Command(call[u].access, call[u].release, u) ELSE Command(tokens[u].access, TRUE, None))
  OBVIOUS
<1>2. c \in Request /\ c.by # "get" /\ (Works(u, a) => c.access = a)
  <2>1. CASE Sent(u)
    <3>1. pc[u] = "sending" /\ call[u] \in Call
      BY <2>1 DEF Sent, Threads, Thread
    <3>. QED  BY <1>0, <1>1, <2>1, <3>1 DEF Command, Request, Call, Requesters, Works, Sends, Releases
  <2>2. CASE SendRelease(u) /\ ~Sent(u)
    <3>1. pc[u] = "sendingRelease" /\ tokens[u] \in Token
      BY <2>2 DEF SendRelease, Threads, Thread, TokenLocked
    <3>. QED  BY <1>0, <1>1, <2>2, <3>1 DEF Command, Request, Token, Requesters, Works, Sends, Releases
  <2>. QED  BY <2>1, <2>2
<1>3. toDevice' = Append(toDevice, c)
  BY <1>1 DEF Sent, SendRelease
<1>4. Has(toDevice', NewsOn(a)) <=> Has(toDevice, NewsOn(a)) \/ c \in NewsOn(a)
  BY <1>0, <1>2, <1>3, HasAppend
<1>5. \A v \in Users \ {u} : Works(v, a) => Works(v, a)'
  BY DEF Sent, SendRelease, tokenVars, Works, Sends, Releases, TypeOK
<1>6. Works(u, a) => c \in NewsOn(a)
  BY <1>2 DEF NewsOn
<1>. QED  BY <1>4, <1>5, <1>6 DEF Backed

LEMMA MineKept ==
  ASSUME TypeOK, TypeOK', Threads, Waiting, Expecting, Answers, Taking, Mine,
         AskStep \/ SendStep \/ DropStep \/ ReadStep \/ RevokeStep \/ StayStep \/ EnumStep \/ DeviceStep
  PROVE  Mine'
<1> SUFFICES ASSUME entity' # None, ~over', NEW a \in Accesses PROVE Mines(a)'
  BY DEF Mine
<1>1. CASE OnEntityOnline
  <2>1. PICK s : s = [b \in Accesses |-> "Undefined"]
    OBVIOUS
  <2>2. entity'.state = s /\ toController' = <<>>
    BY <1>1, <2>1, OnlineIs DEF OnEntityOnline
  <2>3. entity'.state[a] \in OurStates
    BY <2>1, <2>2 DEF OurStates
  <2>. QED  BY <2>2, <2>3, EmptyIs DEF Mines
<1>2. CASE ~OnEntityOnline
  <2>0. entity # None /\ ~over /\ entity \in Entity
    BY <1>2, StaysOn DEF TypeOK
  <2>a. Mines(a) /\ pc \in [Users -> Places] /\ tokens \in [Users -> Token \cup {None}] /\ call \in [Users -> Call \cup {None}]
    BY <2>0 DEF Mine, TypeOK
  <2>b. ASSUME UNCHANGED <<toDevice>>, \A v \in Users : Works(v, a) => Works(v, a)' PROVE Backed(a) => Backed(a)'
    BY <2>b DEF Backed
  <2>c. ASSUME NEW u \in Users, NEW b \in Accesses, NEW r \in BOOLEAN, entity' = Begun(b, r), Works(u, b)',
               \A v \in Users : Works(v, a) => Works(v, a)', UNCHANGED <<toDevice, toController, device>>
        PROVE  Mines(a)'
    <3>1. PICK e : e = Begun(b, r)
      OBVIOUS
    <3>2. \A d \in Accesses : d # b => e.state[d] = entity.state[d]
      BY <2>0, <3>1, Beginning
    <3>3. a # b => entity'.state[a] = entity.state[a]
      BY <2>c, <3>1, <3>2
    <3>4. a = b => Backed(a)'
      BY <2>c DEF Backed
    <3>. QED  BY <2>a, <2>b, <2>c, <3>3, <3>4, MinesOn
  <2>1. CASE AskStep
    <3>1. ASSUME NEW u \in Users, NEW c \in Call, Begins(u, c) PROVE Mines(a)'
      <4>1. c.access \in Accesses /\ c.release \in BOOLEAN
        BY DEF Call
      <4>2. Works(u, c.access)' /\ \A v \in Users : Works(v, a) => Works(v, a)'
        BY <2>a, <3>1 DEF Begins, tokenVars, Works, Sends, Releases
      <4>. QED  BY <2>c, <3>1, <4>1, <4>2 DEF Begins, worldVars
    <3>2. ASSUME NEW u \in Users, NEW b \in TokenTypes, Granted(u, b) PROVE Mines(a)'
      <4>1. \A v \in Users : Works(v, a) => Works(v, a)'
        BY <2>a, <3>2 DEF Granted, Works, Sends, Releases
      <4>. QED  BY <2>a, <2>b, <3>2, <4>1, MinesOn DEF Granted, worldVars
    <3>3. CASE Refused
      <4>1. \A v \in Users : Works(v, a) => Works(v, a)'
        BY <3>3 DEF Refused, tokenVars, Works, Sends, Releases
      <4>. QED  BY <2>a, <2>b, <3>3, <4>1, MinesOn DEF Refused, worldVars
    <3>. QED  BY <2>1, <3>1, <3>2, <3>3 DEF AskStep
  <2>2. CASE SendStep
    <3>1. PICK u \in Users : Sent(u) \/ SendRelease(u)
      BY <2>0, <2>2 DEF SendStep, Unsent
    <3>2. Backed(a) => Backed(a)'
      BY <2>0, <3>1, BackedSent
    <3>3. UNCHANGED <<device, toController, entity>>
      BY <3>1 DEF Sent, SendRelease, worldVars
    <3>. QED  BY <2>a, <3>2, <3>3, MinesOn
  <2>3. CASE DropStep
    <3>1. ASSUME NEW u \in Users, Drops(u) PROVE Mines(a)'
      <4>1. \A v \in Users : Works(v, a) => Works(v, a)'
        BY <2>a, <3>1 DEF Drops, Destroys, Forgets, Works, Sends, Releases
      <4>. QED  BY <2>a, <2>b, <3>1, <4>1, MinesOn DEF Drops, Destroys, worldVars
    <3>2. ASSUME NEW u \in Users, ReleaseBegins(u) PROVE Mines(a)'
      <4>1. PICK b \in Accesses : b = tokens[u].access
        BY <3>2 DEF ReleaseBegins, Threads, Thread, TokenLocked, Token
      <4>2. Works(u, b)' /\ \A v \in Users : Works(v, a) => Works(v, a)'
        BY <2>a, <3>2, <4>1 DEF ReleaseBegins, tokenVars, Works, Sends, Releases
      <4>. QED  BY <2>c, <3>2, <4>1, <4>2 DEF ReleaseBegins, worldVars
    <3>. QED  BY <2>3, <3>1, <3>2 DEF DropStep
  <2>4. CASE ReadStep
    <3>1. PICK m \in Messages : Ignores(m) \/ Retries(m) \/ Learns(m) \/ Revokes(m) \/ Tells(m) \/ Passes(m)
      BY <2>4 DEF ReadStep
    <3>2. /\ Reads(m)
          /\ entity'.state[a] = entity.state[a] \/ (m.access = a /\ entity'.state[a] = Says(m))
          /\ m.by # "get" /\ m.access = a => entity'.state[a] = Says(m)
      BY <3>1, ReadIs DEF Ignores
    <3>3. \A v \in Users : Works(v, a) => Works(v, a)'
      <4>1. CASE Tells(m)
        <5>1. PICK u \in Users : u = m.by
          BY <4>1 DEF Tells
        <5>2. PICK status : status = m.status
          OBVIOUS
        <5>3. pc[u] = "waiting" /\ call[u] \in Call /\ Answer(u, status)
          BY <3>2, <4>1, <5>1, <5>2, Awaited DEF Tells, Awaits
        <5>. QED  BY <5>3, WorksAnswered
      <4>2. CASE ~Tells(m)
        <5>1. UNCHANGED <<tokens, pc, call>>
          BY <3>1, <4>2 DEF Ignores, Retries, Learns, Revokes, Passes, tokenVars
        <5>. QED  BY <5>1 DEF Works, Sends, Releases
      <4>. QED  BY <4>1, <4>2
    <3>4. Backed(a) => Backed(a)'
      BY <2>b, <3>2, <3>3 DEF Reads
    <3>. QED  BY <2>a, <3>2, <3>4, MinesRead
  <2>5. CASE RevokeStep
    <3>1. UNCHANGED <<entity, toDevice, toController, device>>
      BY <2>5 DEF RevokeStep, Concludes, Invalidates, worldVars
    <3>2. \A v \in Users : Works(v, a) => Works(v, a)'
      <4>1. ASSUME NEW u \in Users, Concludes, network.by = u PROVE \A v \in Users : Works(v, a) => Works(v, a)'
        <5>1. PICK status : status = network.status
          OBVIOUS
        <5>2. pc[u] = "waiting" /\ call[u] \in Call /\ Answer(u, status)
          BY <4>1, <5>1 DEF Concludes, Waiting, Waits, Threads, Thread
        <5>. QED  BY <5>2, WorksAnswered
      <4>2. CASE Concludes /\ network.by \notin Users
        BY <4>2 DEF Concludes, tokenVars, Works, Sends, Releases
      <4>3. ASSUME NEW u \in Users, Invalidates(u) PROVE \A v \in Users : Works(v, a) => Works(v, a)'
        <5>1. UNCHANGED <<pc, call>> /\ pc[u] # "sendingRelease" /\ \A v \in Users \ {u} : tokens'[v] = tokens[v]
          BY <2>a, <4>3 DEF Invalidates, userVars, TokenLocked
        <5>. QED  BY <5>1 DEF Works, Sends, Releases
      <4>. QED  BY <2>5, <4>1, <4>2, <4>3 DEF RevokeStep
    <3>. QED  BY <2>a, <2>b, <3>1, <3>2, MinesOn
  <2>6. CASE StayStep
    BY <1>2, <2>6 DEF StayStep, OnEntityOffline, Shutdown
  <2>7. CASE EnumStep
    <3>1. UNCHANGED <<device, toController, pc, call, tokens>>
      BY <2>7 DEF EnumStep, Prepares, Questions, Publishes, Resends, Abandons, worldVars, tokenVars, userVars
    <3>2. Range(toDevice) \subseteq Range(toDevice')
      <4>1. ASSUME NEW q \in Query, Resends(q) PROVE Range(toDevice) \subseteq Range(toDevice')
        <5>1. q.access \in Accesses
          BY DEF Query
        <5>2. QueryOf(q.access) \in Request /\ toDevice' = Append(toDevice, QueryOf(q.access))
          BY <4>1, <5>1, QueryIs DEF Resends
        <5>. QED  BY <5>2, RangeSent
      <4>. QED  BY <2>7, <4>1, QuestionsSend DEF EnumStep, Prepares, Publishes, Abandons
    <3>3. Backed(a) => Backed(a)'
      BY <3>1, <3>2 DEF Backed, Has, Works, Sends, Releases
    <3>4. CASE entity'.state[a] = entity.state[a]
      BY <2>a, <3>1, <3>3, <3>4, MinesOn
    <3>5. CASE entity'.state[a] # entity.state[a]
      <4>1. Questions
        BY <2>7, <3>5 DEF EnumStep, Prepares, Publishes, Resends, Abandons
      <4>2. a \notin Queried(entity.milan)
        BY <3>5, <4>1 DEF Questions
      <4>3. a \notin Implemented
        BY <2>0, <4>2 DEF Expecting, Queried, Implemented, Accesses
      <4>. QED  BY <3>1, <4>3 DEF Mines, Taking
    <3>. QED  BY <3>4, <3>5
  <2>8. CASE DeviceStep
    BY <2>0, <2>8, MinesOnTheDevice
  <2>. QED  BY <2>1, <2>2, <2>3, <2>4, <2>5, <2>6, <2>7, <2>8
<1>. QED  BY <1>1, <1>2

\* Nothing more is under way for an access than before.
LEMMA AloneOn ==
  ASSUME NEW a, Alone(a), Once(toController', On(a)), Once(toDevice', On(a)),
         Has(toController', On(a)) => Has(toController, On(a)), Has(toDevice', On(a)) => Has(toDevice, On(a)),
         \A v \in Users : Works(v, a)' => Works(v, a),
         InProgress(entity.state[a]) => InProgress(entity'.state[a])
  PROVE  Alone(a)'
<1>1. Occupied(a)' => Occupied(a)
  BY DEF Occupied
<1>. QED  BY <1>1 DEF Alone

LEMMA AloneUnchanged ==
  ASSUME NEW a, Alone(a), UNCHANGED <<toController, toDevice>>, \A v \in Users : Works(v, a)' => Works(v, a),
         InProgress(entity.state[a]) => InProgress(entity'.state[a])
  PROVE  Alone(a)'
BY AloneOn DEF Alone

\* Nothing is under way any more.
LEMMA AloneFree ==
  ASSUME NEW a, ~Has(toController', On(a)), ~Has(toDevice', On(a)), \A v \in Users : ~Works(v, a)'
  PROVE  Alone(a)'
<1>1. Once(toController', On(a)) /\ Once(toDevice', On(a))
  BY DEF Has, Once, Range
<1>. QED  BY <1>1 DEF Alone, Occupied

\* A user begins what it will send.
LEMMA AloneBegun ==
  ASSUME NEW a \in Accesses, Alone(a), UNCHANGED <<toController, toDevice>>, NEW u \in Users, NEW b \in Accesses,
         ~InProgress(entity.state[b]), InProgress(entity'.state[b]),
         \A d \in Accesses : d # b => entity'.state[d] = entity.state[d],
         \A v \in Users : v # u => (Works(v, a)' => Works(v, a)), Works(u, a)' => a = b
  PROVE  Alone(a)'
<1>1. CASE a = b
  <2>1. ~Occupied(a)
    BY <1>1 DEF Alone
  <2>2. ~Has(toController', On(a)) /\ ~Has(toDevice', On(a)) /\ \A v \in Users : Works(v, a)' => v = u
    BY <2>1 DEF Occupied
  <2>3. Once(toController', On(a)) /\ Once(toDevice', On(a))
    BY DEF Alone
  <2>. QED  BY <1>1, <2>2, <2>3 DEF Alone
<1>2. CASE a # b
  <2>1. entity'.state[a] = entity.state[a] /\ \A v \in Users : Works(v, a)' => Works(v, a)
    BY <1>2
  <2>. QED  BY <2>1, AloneUnchanged
<1>. QED  BY <1>1, <1>2

\* What a user had begun is sent.
LEMMA AloneSent ==
  ASSUME TypeOK, NEW a \in Accesses, Alone(a), NEW c \in Request, toDevice' = Append(toDevice, c),
         UNCHANGED <<toController, entity>>, NEW u \in Users, Works(u, c.access),
         \A v \in Users : Works(v, a)' => v # u /\ Works(v, a)
  PROVE  Alone(a)'
<1>0. toDevice \in Seq(Request)
  BY DEF TypeOK
<1>1. /\ Has(toDevice', On(a)) <=> Has(toDevice, On(a)) \/ c \in On(a)
      /\ Once(toDevice, On(a)) /\ ~(c \in On(a) /\ Has(toDevice, On(a))) => Once(toDevice', On(a))
  BY <1>0, HasAppend
<1>2. c \in On(a) <=> c.access = a
  BY DEF On
<1>3. CASE c.access = a
  <2>1. Works(u, a)
    BY <1>3
  <2>2. ~Has(toController, On(a)) /\ ~Has(toDevice, On(a)) /\ (\A v \in Users : Works(v, a) => u = v)
        /\ Once(toController, On(a)) /\ Once(toDevice, On(a))
    BY <2>1 DEF Alone
  <2>3. InProgress(entity.state[a])
    BY <2>1 DEF Alone, Occupied
  <2>4. \A v \in Users : ~Works(v, a)'
    BY <2>2
  <2>. QED  BY <1>1, <2>2, <2>3, <2>4 DEF Alone
<1>4. CASE c.access # a
  <2>1. Once(toController', On(a)) /\ Once(toDevice', On(a))
    BY <1>1, <1>2, <1>4 DEF Alone
  <2>. QED  BY <1>1, <1>2, <1>4, <2>1, AloneOn
<1>. QED  BY <1>3, <1>4

\* A message is read.
LEMMA AloneRead ==
  ASSUME TypeOK, NEW a \in Accesses, Alone(a), NEW m \in Messages, Reads(m), toDevice' = toDevice,
         m.access # a => entity'.state[a] = entity.state[a],
         \A v \in Users : Works(v, a)' => Works(v, a)
  PROVE  Alone(a)'
<1>0. toController \in Seq(Messages) /\ toController # <<>> /\ m = Head(toController) /\ toController' = Tail(toController)
  BY DEF TypeOK, Reads
<1>1. /\ Has(toController, On(a)) <=> Has(toController', On(a)) \/ m \in On(a)
      /\ Once(toController, On(a)) => Once(toController', On(a)) /\ (m \in On(a) => ~Has(toController', On(a)))
  BY <1>0, HasTail
<1>2. m \in On(a) <=> m.access = a
  BY DEF On
<1>3. CASE m.access = a
  <2>1. ~Has(toController', On(a)) /\ ~Has(toDevice, On(a)) /\ \A v \in Users : ~Works(v, a)
    BY <1>1, <1>2, <1>3 DEF Alone
  <2>. QED  BY <2>1, AloneFree
<1>4. CASE m.access # a
  <2>1. Once(toController', On(a)) /\ Once(toDevice', On(a))
    BY <1>1 DEF Alone
  <2>. QED  BY <1>1, <1>4, <2>1, AloneOn
<1>. QED  BY <1>3, <1>4

LEMMA AloneTravels ==
  ASSUME TypeOK, NEW a \in Accesses, Alone(a), NEW c \in Request, NEW m \in Response, Travels(c, m)
  PROVE  Alone(a)'
<1>0. /\ toController \in Seq(Messages) /\ toDevice \in Seq(Request) /\ toDevice # <<>> /\ m \in Messages
      /\ c = Head(toDevice) /\ toDevice' = Tail(toDevice) /\ toController' = Append(toController, m) /\ m.access = c.access
      /\ UNCHANGED <<entity, pc, call, tokens>>
  BY DEF TypeOK, Travels, Messages, tokenVars, userVars
<1>1. /\ Has(toDevice, On(a)) <=> Has(toDevice', On(a)) \/ c \in On(a)
      /\ Once(toDevice, On(a)) => Once(toDevice', On(a)) /\ (c \in On(a) => ~Has(toDevice', On(a)))
  BY <1>0, HasTail
<1>2. /\ Has(toController', On(a)) <=> Has(toController, On(a)) \/ m \in On(a)
      /\ Once(toController, On(a)) /\ ~(m \in On(a) /\ Has(toController, On(a))) => Once(toController', On(a))
  BY <1>0, HasAppend
<1>3. (c \in On(a) <=> c.access = a) /\ (m \in On(a) <=> c.access = a)
  BY <1>0 DEF On
<1>4. \A v \in Users : Works(v, a)' = Works(v, a)
  BY <1>0 DEF Works, Sends, Releases
<1>5. CASE c.access = a
  <2>1. /\ Has(toDevice, On(a)) /\ ~Has(toController, On(a)) /\ (\A v \in Users : ~Works(v, a))
        /\ Once(toDevice, On(a)) /\ Once(toController, On(a))
    BY <1>1, <1>3, <1>5 DEF Alone
  <2>2. InProgress(entity'.state[a])
    BY <1>0, <2>1 DEF Alone, Occupied
  <2>3. /\ ~Has(toDevice', On(a)) /\ (\A v \in Users : ~Works(v, a)')
        /\ Once(toDevice', On(a)) /\ Once(toController', On(a))
    BY <1>1, <1>2, <1>3, <1>4, <1>5, <2>1
  <2>. QED  BY <2>2, <2>3 DEF Alone
<1>6. CASE c.access # a
  <2>1. Once(toDevice', On(a)) /\ Once(toController', On(a))
    BY <1>1, <1>2, <1>3, <1>6 DEF Alone
  <2>2. (Has(toController', On(a)) => Has(toController, On(a))) /\ (Has(toDevice', On(a)) => Has(toDevice, On(a)))
    BY <1>1, <1>2, <1>3, <1>6
  <2>. QED  BY <1>0, <1>4, <2>1, <2>2, AloneOn
<1>. QED  BY <1>5, <1>6

\* An entity that is advertised has nothing under way: there were only queries, and
\* their answers are read.
LEMMA AloneWhenAdvertised ==
  ASSUME TypeOK, TypeOK', Expecting', Answers', Fresh, stays = 1, events = 0, faults' = 0, ~over, entity # None,
         ~entity.advertised, entity' # None, entity'.advertised, Publishes \/ \E m \in Messages : Learns(m),
         NEW a \in Accesses
  PROVE  Alone(a)'
<1>0. UNCHANGED <<toDevice, tokenVars, pc, call>> /\ Range(toController') \subseteq Range(toController)
  <2>1. ASSUME NEW m \in Messages, Learns(m)
        PROVE  UNCHANGED <<toDevice, tokenVars, pc, call>> /\ Range(toController') \subseteq Range(toController)
    BY <2>1, HeadIs DEF Learns, Reads
  <2>. QED  BY <2>1 DEF Publishes, userVars
<1>1. Young
  BY DEF Young
<1>2. /\ \A u \in Users : pc[u] = "idle"
      /\ \A c \in Range(toDevice) \cup Range(toController) : c.by = "get"
  BY <1>1 DEF Fresh
<1>3. \A c \in Range(toDevice') \cup Range(toController') : c.by = "get"
  BY <1>0, <1>2
<1>4. entity'.expected = {} /\ stray' = {}
  BY DEF Expecting, Answers
<1>5. ~Pending(toController', toDevice', <<"get", a>>)
  BY <1>4 DEF Expecting, Expected
<1>6. ASSUME NEW n \in Range(toDevice') \cup Range(toController'), n \in On(a) PROVE FALSE
  <2>1. n.by = "get" /\ n.access = a /\ n \in Request \cup Messages
    BY <1>3, <1>6 DEF On
  <2>2. n \in Of(<<"get", a>>)
    BY <2>1 DEF Of, Owner
  <2>. QED  BY <1>5, <1>6, <2>2 DEF Pending, Has
<1>7. ~Has(toController', On(a)) /\ ~Has(toDevice', On(a))
  BY <1>6 DEF Has
<1>8. \A v \in Users : ~Works(v, a)'
  BY <1>0, <1>2 DEF Works, Sends, Releases
<1>. QED  BY <1>7, <1>8, AloneFree

LEMMA ApartKept ==
  ASSUME TypeOK, TypeOK', Threads, Waiting, Expecting, Expecting', Answers, Answers', Fresh, Apart,
         AskStep \/ SendStep \/ DropStep \/ ReadStep \/ RevokeStep \/ StayStep \/ EnumStep \/ DeviceStep
  PROVE  Apart'
<1> SUFFICES ASSUME Advertised', ~over', stays' = 1, events' = 0, faults' = 0, NEW a \in Accesses PROVE Alone(a)'
  BY DEF Apart
<1>a. entity' # None /\ entity'.advertised
  BY DEF Advertised
<1>b. ~OnEntityOnline
  <2>1. SUFFICES ASSUME OnEntityOnline PROVE ~entity'.advertised
    BY <1>a
  <2>. QED  BY <2>1 DEF OnEntityOnline
<1>c. /\ stays = 1 /\ entity # None /\ ~over /\ entity \in Entity
      /\ (~entity.advertised => Publishes \/ \E m \in Messages : Learns(m))
  BY <1>a, <1>b, StaysOn DEF TypeOK
<1>d. events = 0 /\ faults = 0 /\ delayed = {} /\ stray = {}
  <2>1. events \in Nat
    BY DEF TypeOK
  <2>2. events' = events \/ events' = events + 1
    BY DEF AskStep, SendStep, DropStep, ReadStep, RevokeStep, StayStep, EnumStep, DeviceStep, Begins, Granted, Refused,
         Sent, Unsent, SendRelease, Drops, Destroys, ReleaseBegins, Ignores, Retries, Learns, Revokes, Tells, Passes,
         Reads, Concludes, Invalidates, OnEntityOnline, OnEntityOffline, Shutdown, Prepares, Questions, Publishes,
         Resends, Abandons, Replies, Loses, Travels, Changes, worldVars
  <2>3. faults = 0
    BY StepIs, NothingDelayed
  <2>. QED  BY <2>1, <2>2, <2>3 DEF Answers
<1>1. CASE ~entity.advertised
  BY <1>a, <1>c, <1>d, <1>1, AloneWhenAdvertised
<1> SUFFICES ASSUME entity.advertised PROVE Alone(a)'
  BY <1>1
<1>e. Alone(a) /\ entity.expected = {} /\ entity.step = "GetDynamicInfo"
  BY <1>c, <1>d DEF Apart, Advertised, Expecting
<1>f. pc \in [Users -> Places] /\ call \in [Users -> Call \cup {None}] /\ tokens \in [Users -> Token \cup {None}]
  BY DEF TypeOK
<1>2. ASSUME NEW u \in Users, NEW c \in Call, Begins(u, c) PROVE Alone(a)'
  <2>1. PICK b \in Accesses : b = c.access
    BY DEF Call
  <2>2. c.release \in BOOLEAN
    BY DEF Call
  <2>3. PICK e : e = Begun(b, c.release)
    OBVIOUS
  <2>4. InProgress(e.state[b]) /\ \A d \in Accesses : d # b => e.state[d] = entity.state[d]
    BY <1>c, <2>2, <2>3, Beginning
  <2>5. /\ entity' = e /\ ~InProgress(entity.state[b]) /\ UNCHANGED <<toController, toDevice>>
        /\ pc' = [pc EXCEPT ![u] = "sending"] /\ call' = [call EXCEPT ![u] = c] /\ tokens' = tokens
    BY <1>2, <2>1, <2>3 DEF Begins, tokenVars
  <2>6. \A v \in Users : v # u => (Works(v, a)' => Works(v, a))
    BY <1>f, <2>5 DEF Works, Sends, Releases
  <2>7. Works(u, a)' => a = b
    BY <1>f, <2>1, <2>5 DEF Works, Sends, Releases
  <2>. QED  BY <1>e, <2>4, <2>5, <2>6, <2>7, AloneBegun
<1>3. ASSUME NEW u \in Users, NEW b \in TokenTypes, Granted(u, b) PROVE Alone(a)'
  <2>1. pc[u] = "idle" /\ pc' = pc /\ call' = call /\ (\A v \in Users : v # u => tokens'[v] = tokens[v])
        /\ UNCHANGED <<entity, toController, toDevice>>
    BY <1>f, <1>3 DEF Granted
  <2>2. \A v \in Users : Works(v, a)' => Works(v, a)
    BY <2>1 DEF Works, Sends, Releases
  <2>. QED  BY <1>e, <2>1, <2>2, AloneUnchanged
<1>4. CASE Refused
  <2>1. UNCHANGED <<entity, toController, toDevice, pc, call, tokens>>
    BY <1>4 DEF Refused, tokenVars
  <2>2. \A v \in Users : Works(v, a)' => Works(v, a)
    BY <2>1 DEF Works, Sends, Releases
  <2>. QED  BY <1>e, <2>1, <2>2, AloneUnchanged
<1>5. ASSUME NEW u \in Users, Sent(u) PROVE Alone(a)'
  <2>1. PICK c : c = Command(call[u].access, call[u].release, u)
    OBVIOUS
  <2>2. call[u] \in Call /\ pc[u] = "sending"
    BY <1>5 DEF Sent, Threads, Thread
  <2>3. c \in Request /\ c.access = call[u].access
    BY <2>1, <2>2 DEF Command, Request, Call, Requesters
  <2>4. /\ toDevice' = Append(toDevice, c) /\ UNCHANGED <<toController, entity>>
        /\ pc' = [pc EXCEPT ![u] = "waiting"] /\ call' = call /\ tokens' = tokens
    BY <1>5, <2>1 DEF Sent, tokenVars
  <2>5. Works(u, c.access)
    BY <2>2, <2>3 DEF Works, Sends
  <2>6. \A v \in Users : Works(v, a)' => v # u /\ Works(v, a)
    BY <1>f, <2>4 DEF Works, Sends, Releases
  <2>. QED  BY <1>e, <2>3, <2>4, <2>5, <2>6, AloneSent
<1>6. ASSUME NEW u \in Users, SendRelease(u) PROVE Alone(a)'
  <2>1. PICK c : c = Command(tokens[u].access, TRUE, None)
    OBVIOUS
  <2>2. tokens[u].access \in Accesses /\ pc[u] = "sendingRelease"
    BY <1>6 DEF SendRelease, Threads, Thread, TokenLocked, Token
  <2>3. c \in Request /\ c.access = tokens[u].access
    BY <2>1, <2>2 DEF Command, Request, Requesters
  <2>4. /\ toDevice' = Append(toDevice, c) /\ UNCHANGED <<toController, entity>>
        /\ pc' = [pc EXCEPT ![u] = "idle"] /\ call' = call /\ tokens' = [tokens EXCEPT ![u] = None]
    BY <1>6, <1>c, <2>1 DEF SendRelease
  <2>5. Works(u, c.access)
    BY <2>2, <2>3 DEF Works, Releases
  <2>6. \A v \in Users : Works(v, a)' => v # u /\ Works(v, a)
    BY <1>f, <2>4 DEF Works, Sends, Releases
  <2>. QED  BY <1>e, <2>3, <2>4, <2>5, <2>6, AloneSent
<1>7. ASSUME NEW u \in Users, Drops(u) PROVE Alone(a)'
  <2>1. UNCHANGED <<entity, toController, toDevice, call>>
    BY <1>7 DEF Drops, Destroys
  <2>2. /\ pc'[u] \in {"idle", "destroying", "releasing"}
        /\ \A v \in Users : v # u => pc'[v] = pc[v] /\ tokens'[v] = tokens[v]
    BY <1>f, <1>7 DEF Drops, Destroys, Forgets
  <2>3. \A v \in Users : Works(v, a)' => Works(v, a)
    BY <2>1, <2>2 DEF Works, Sends, Releases
  <2>. QED  BY <1>e, <2>1, <2>3, AloneUnchanged
<1>8. ASSUME NEW u \in Users, ReleaseBegins(u) PROVE Alone(a)'
  <2>1. tokens[u] \in Token
    BY <1>8 DEF ReleaseBegins, Threads, Thread, TokenLocked
  <2>2. PICK b \in Accesses : b = tokens[u].access
    BY <2>1 DEF Token
  <2>3. PICK e : e = Begun(b, TRUE)
    OBVIOUS
  <2>4. InProgress(e.state[b]) /\ \A d \in Accesses : d # b => e.state[d] = entity.state[d]
    BY <1>c, <2>3, Beginning
  <2>5. /\ entity' = e /\ ~InProgress(entity.state[b]) /\ UNCHANGED <<toController, toDevice, call, tokens>>
        /\ pc' = [pc EXCEPT ![u] = "sendingRelease"]
    BY <1>8, <2>2, <2>3 DEF ReleaseBegins, tokenVars
  <2>6. \A v \in Users : v # u => (Works(v, a)' => Works(v, a))
    BY <1>f, <2>5 DEF Works, Sends, Releases
  <2>7. Works(u, a)' => a = b
    BY <1>f, <2>2, <2>5 DEF Works, Sends, Releases
  <2>. QED  BY <1>e, <2>4, <2>5, <2>6, <2>7, AloneBegun
<1>9. ASSUME NEW m \in Messages, Ignores(m) \/ Retries(m) \/ Learns(m) \/ Revokes(m) \/ Tells(m) \/ Passes(m) PROVE Alone(a)'
  <2>1. Reads(m) /\ m.access \in Accesses
    BY <1>9, SaysIs DEF Ignores, Retries, Learns, Revokes, Tells, Passes
  <2>2. m.by # "get"
    <3>1. toController # <<>> /\ m = Head(toController)
      BY <2>1 DEF Reads
    <3>. QED  BY <1>c, <1>d, <1>e, <3>1, AnswerExpected
  <2>3. Revokes(m) \/ Tells(m) \/ Passes(m)
    BY <1>9, <2>2 DEF Ignores, Retries, Learns
  <2>4. entity'.state = [entity.state EXCEPT ![m.access] = Says(m)] /\ toDevice' = toDevice
    BY <1>c, <2>1, <2>3, Updates DEF Revokes, Tells, Passes, Reads
  <2>5. m.access # a => entity'.state[a] = entity.state[a]
    BY <1>c, <2>4 DEF Entity
  <2>6. ASSUME NEW v \in Users PROVE Works(v, a)' => Works(v, a)
    <3>1. CASE Tells(m)
      <4>1. PICK u \in Users : u = m.by
        BY <3>1 DEF Tells
      <4>2. PICK status : status = m.status
        OBVIOUS
      <4>3. pc[u] = "waiting" /\ call[u] \in Call /\ Answer(u, status)
        BY <2>1, <3>1, <4>1, <4>2, Awaited DEF Tells, Awaits
      <4>. QED  BY <4>3, WorksAnswered
    <3>2. CASE Revokes(m) \/ Passes(m)
      <4>1. UNCHANGED <<pc, call, tokens>>
        BY <3>2 DEF Revokes, Passes, tokenVars
      <4>. QED  BY <4>1 DEF Works, Sends, Releases
    <3>. QED  BY <2>3, <3>1, <3>2
  <2>. QED  BY <1>e, <2>1, <2>4, <2>5, <2>6, AloneRead
<1>10. CASE Concludes
  <2>1. UNCHANGED <<entity, toController, toDevice>>
    BY <1>10 DEF Concludes
  <2>2. ASSUME NEW v \in Users PROVE Works(v, a)' => Works(v, a)
    <3>1. CASE network.by \in Users
      <4>1. PICK u \in Users : u = network.by
        BY <3>1
      <4>2. PICK status : status = network.status
        OBVIOUS
      <4>3. pc[u] = "waiting" /\ call[u] \in Call /\ Answer(u, status)
        BY <1>10, <3>1, <4>1, <4>2 DEF Concludes, Waiting, Waits, Threads, Thread
      <4>. QED  BY <4>3, WorksAnswered
    <3>2. CASE network.by \notin Users
      <4>1. UNCHANGED <<pc, call, tokens>>
        BY <1>10, <3>2 DEF Concludes, tokenVars
      <4>. QED  BY <4>1 DEF Works, Sends, Releases
    <3>. QED  BY <3>1, <3>2
  <2>. QED  BY <1>e, <2>1, <2>2, AloneUnchanged
<1>11. ASSUME NEW u \in Users, Invalidates(u) PROVE Alone(a)'
  <2>1. UNCHANGED <<entity, toController, toDevice, pc, call>> /\ pc[u] # "sendingRelease"
    BY <1>11 DEF Invalidates, userVars, TokenLocked
  <2>2. \A v \in Users : v # u => tokens'[v] = tokens[v]
    BY <1>f, <1>11 DEF Invalidates
  <2>3. \A v \in Users : Works(v, a)' => Works(v, a)
    BY <2>1, <2>2 DEF Works, Sends, Releases
  <2>. QED  BY <1>e, <2>1, <2>3, AloneUnchanged
<1>12. CASE StayStep
  BY <1>12, <1>a, <1>b DEF StayStep, OnEntityOffline, Shutdown
<1>13. ASSUME NEW c \in Request, NEW m \in Response, Replies(c, m) \/ Loses(c, m) PROVE Alone(a)'
  BY <1>13, <1>e, AloneTravels DEF Replies, Loses
<1>14. ASSUME NEW b \in Implemented, NEW h \in Others \cup {None}, Changes(b, h) PROVE FALSE
  BY <1>14, <1>d DEF Changes
<1>15. ~\E u \in Users : Unsent(u)
  BY <1>c DEF Unsent
<1>16. CASE EnumStep
  <2>1. Publishes
    BY <1>16, <1>c, <1>d, <1>e DEF EnumStep, Prepares, Questions, Resends, Abandons
  <2>2. entity'.state = entity.state /\ UNCHANGED <<toController, toDevice, pc, call, tokens>>
    BY <2>1 DEF Publishes, tokenVars, userVars
  <2>3. \A v \in Users : Works(v, a)' => Works(v, a)
    BY <2>2 DEF Works, Sends, Releases
  <2>. QED  BY <1>e, <2>2, <2>3, AloneUnchanged
<1>. QED
  BY <1>2, <1>3, <1>4, <1>5, <1>6, <1>7, <1>8, <1>9, <1>10, <1>11, <1>12, <1>13, <1>14, <1>15, <1>16
     DEF AskStep, SendStep, DropStep, ReadStep, RevokeStep, DeviceStep

LEMMA LeavesOn ==
  ASSUME NEW a, Leaves(a), UNCHANGED <<toDevice, device>> PROVE Leaves(a)'
BY DEF Leaves

\* A release is appended: it is the last command for its access.
LEMMA LeavesReleased ==
  ASSUME TypeOK, NEW a, Leaves(a), NEW c \in Request, c.release, toDevice' = Append(toDevice, c), device' = device
  PROVE  Leaves(a)'
<1>0. toDevice \in Seq(Request)
  BY DEF TypeOK
<1>1. /\ c \in On(a) => Lasts(toDevice', On(a)) \subseteq {c}
      /\ c \notin On(a) => Lasts(toDevice', On(a)) \subseteq Lasts(toDevice, On(a))
      /\ Has(toDevice', On(a)) <=> Has(toDevice, On(a)) \/ c \in On(a)
  BY <1>0, LastsAppend, HasAppend
<1>2. \A d \in Lasts(toDevice', On(a)) : d.release
  BY <1>1 DEF Leaves
<1>3. ~Has(toDevice', On(a)) => device'[a] # Us
  BY <1>1 DEF Leaves
<1>. QED  BY <1>2, <1>3 DEF Leaves

\* The device processes the last command for an access, a release: it is not ours then.
LEMMA LeavesReplied ==
  ASSUME TypeOK, Taking, NEW a \in Accesses, Leaves(a), NEW c \in Request, NEW m \in Response, Replies(c, m)
  PROVE  Leaves(a)'
<1>0. /\ toDevice \in Seq(Request) /\ toDevice # <<>> /\ c = Head(toDevice) /\ toDevice' = Tail(toDevice)
      /\ device \in [Accesses -> Holders] /\ device' = Holds(c)
  BY DEF TypeOK, Replies, Travels
<1>1. /\ Has(toDevice, On(a)) <=> Has(toDevice', On(a)) \/ c \in On(a)
      /\ Lasts(toDevice', On(a)) \subseteq Lasts(toDevice, On(a))
      /\ c \in On(a) /\ ~Has(toDevice', On(a)) => c \in Lasts(toDevice, On(a))
  BY <1>0, HasTail, LastsTail
<1>2. c \in On(a) <=> c.access = a
  BY DEF On
<1>3. \A d \in Lasts(toDevice', On(a)) : d.release
  BY <1>1 DEF Leaves
<1>4. ASSUME ~Has(toDevice', On(a)) PROVE device'[a] # Us
  <2>1. CASE c.access # a
    <3>1. device[a] # Us
      BY <1>1, <1>2, <1>4, <2>1 DEF Leaves
    <3>2. device'[a] = device[a]
      BY <1>0, <2>1, HoldsIs
    <3>. QED  BY <3>1, <3>2
  <2>2. CASE c.access = a
    <3>1. c.release
      BY <1>1, <1>2, <1>4, <2>2 DEF Leaves
    <3>2. CASE Processed(c).status = "Success"
      <4>1. device'[a] = Processed(c).holder
        BY <1>0, <2>2, <3>2, HoldsIs
      <4>2. Processed(c).holder = None
        BY <3>1, <3>2, ProcessedIs
      <4>. QED  BY <4>1, <4>2, ConstantsAssumption
    <3>3. CASE Processed(c).status = "HeldByOther"
      <4>1. device' = device
        BY <1>0, <3>3, HoldsIs
      <4>2. device[a] \in Others
        BY <2>2, <3>3, ProcessedIs
      <4>. QED  BY <4>1, <4>2, ConstantsAssumption
    <3>4. CASE Processed(c).status = "NotSupported"
      <4>1. device' = device
        BY <1>0, <3>4, HoldsIs
      <4>2. a \notin Implemented
        BY <2>2, <3>4, ProcessedIs
      <4>. QED  BY <4>1, <4>2 DEF Taking
    <3>. QED  BY <3>2, <3>3, <3>4, ProcessedIs
  <2>. QED  BY <2>1, <2>2
<1>. QED  BY <1>3, <1>4 DEF Leaves

\* The release of an access at the end of a sequence of commands.
LEMMA ReleasedLast ==
  ASSUME NEW q \in Seq(Request), NEW a \in Accesses, NEW b \in Accesses, entity # None
  PROVE  LET r == q \o Released(b)
         IN  /\ r \in Seq(Request)
             /\ b = a /\ MustRelease(entity.state[a]) => Has(r, On(a)) /\ \A c \in Lasts(r, On(a)) : c.release
             /\ Has(q, On(a)) => Has(r, On(a))
             /\ (\A c \in Lasts(q, On(a)) : c.release) => \A c \in Lasts(r, On(a)) : c.release
             /\ ~Has(q, On(a)) /\ (b # a \/ ~MustRelease(entity.state[a])) => ~Has(r, On(a))
<1>1. CASE ~MustRelease(entity.state[b])
  <2>1. q \o Released(b) = q
    BY <1>1 DEF Released
  <2>2. b = a => ~MustRelease(entity.state[a])
    BY <1>1
  <2>. QED  BY <2>1, <2>2
<1>2. CASE MustRelease(entity.state[b])
  <2>1. PICK c : c = Command(b, TRUE, None)
    OBVIOUS
  <2>2. c \in Request /\ c.access = b /\ c.release
    BY <2>1 DEF Command, Request, Requesters
  <2>3. q \o Released(b) = Append(q, c)
    <3>1. q \o <<c>> = Append(q, c)
      BY <2>2, AppendProperties
    <3>. QED  BY <1>2, <2>1, <3>1 DEF Released
  <2>4. PICK r \in Seq(Request) : r = Append(q, c)
    BY <2>2, AppendIs
  <2>5. /\ c \in On(a) => Lasts(r, On(a)) \subseteq {c}
        /\ c \notin On(a) => Lasts(r, On(a)) \subseteq Lasts(q, On(a))
        /\ Has(r, On(a)) <=> Has(q, On(a)) \/ c \in On(a)
    BY <2>2, <2>4, LastsAppend, HasAppend
  <2>6. c \in On(a) <=> b = a
    BY <2>2 DEF On
  <2>7. b = a => Has(r, On(a)) /\ \A d \in Lasts(r, On(a)) : d.release
    BY <2>2, <2>5, <2>6
  <2>8. (\A d \in Lasts(q, On(a)) : d.release) => \A d \in Lasts(r, On(a)) : d.release
    BY <2>2, <2>5
  <2>9. b = a => MustRelease(entity.state[a])
    BY <1>2
  <2>. QED  BY <2>3, <2>4, <2>5, <2>6, <2>7, <2>8, <2>9
<1>. QED  BY <1>1, <1>2

LEMMA ReleasesLast ==
  ASSUME TypeOK, Shutdown, entity # None, NEW a \in Accesses
  PROVE  /\ MustRelease(entity.state[a]) => Has(toDevice', On(a)) /\ \A c \in Lasts(toDevice', On(a)) : c.release
         /\ ~MustRelease(entity.state[a]) /\ ~Has(toDevice, On(a)) => ~Has(toDevice', On(a))
<1>0. "Acquire" \in Accesses /\ "Lock" \in Accesses /\ a \in {"Acquire", "Lock"}
  BY DEF Accesses
<1>1. PICK p \in Seq(Request) : p = toDevice
  BY DEF TypeOK
<1>2. PICK q \in Seq(Request) : q = p \o Released("Acquire")
  BY <1>0, ReleasedLast
<1>3. PICK r \in Seq(Request) : r = q \o Released("Lock")
  BY <1>0, ReleasedLast
<1>4. toDevice' = r
  BY <1>1, <1>2, <1>3 DEF Shutdown, Released
<1>5. /\ a = "Acquire" /\ MustRelease(entity.state[a]) => Has(q, On(a)) /\ \A c \in Lasts(q, On(a)) : c.release
      /\ ~Has(p, On(a)) /\ ("Acquire" # a \/ ~MustRelease(entity.state[a])) => ~Has(q, On(a))
  BY <1>0, <1>2, ReleasedLast
<1>6. /\ a = "Lock" /\ MustRelease(entity.state[a]) => Has(r, On(a)) /\ \A c \in Lasts(r, On(a)) : c.release
      /\ Has(q, On(a)) => Has(r, On(a))
      /\ (\A c \in Lasts(q, On(a)) : c.release) => \A c \in Lasts(r, On(a)) : c.release
      /\ ~Has(q, On(a)) /\ ("Lock" # a \/ ~MustRelease(entity.state[a])) => ~Has(r, On(a))
  BY <1>0, <1>3, ReleasedLast
<1>7. CASE a = "Acquire"
  BY <1>1, <1>4, <1>5, <1>6, <1>7
<1>8. CASE a = "Lock"
  BY <1>1, <1>4, <1>5, <1>6, <1>8
<1>. QED  BY <1>0, <1>7, <1>8

\* The controller is destroyed: what it holds, or may come to hold, it releases.
LEMMA LeavesAtShutdown ==
  ASSUME TypeOK, Expecting, Answers, Following, Taking, Apart, Shutdown, Advertised, faults = 0, events = 0, stays = 1, NEW a \in Accesses
  PROVE  Leaves(a)'
<1>0. entity # None /\ ~over /\ device' = device
  BY DEF Advertised, Shutdown, worldVars
<1>1. CASE MustRelease(entity.state[a])
  <2>1. Has(toDevice', On(a)) /\ \A c \in Lasts(toDevice', On(a)) : c.release
    BY <1>0, <1>1, ReleasesLast
  <2>. QED  BY <2>1 DEF Leaves
<1>2. CASE ~MustRelease(entity.state[a])
  <2>1. ~Occupied(a)
    BY <1>0, <1>2 DEF Apart, Alone, MustRelease
  <2>2. ~Has(toDevice', On(a))
    BY <1>0, <1>2, <2>1, ReleasesLast DEF Occupied
  <2>3. Lasts(toDevice', On(a)) = {}
    BY <2>2 DEF Lasts, Has, Range
  <2>4. device[a] # Us
    <3>1. SUFFICES ASSUME device[a] = Us PROVE FALSE
      OBVIOUS
    <3>2. a \in Implemented
      BY <3>1 DEF Taking
    <3>3. ~Underway(a) /\ ~Has(toController, On(a))
      BY <2>1 DEF Underway, Occupied, Works
    <3>4. IsTrue(entity.state[a], a)
      <4>1. ~InQuestion(a) /\ Questioned /\ stray = {}
        BY <1>0, AllAnswered DEF InQuestion, Pending, Questioned, Advertised, Answers
      <4>. QED  BY <3>2, <3>3, <4>1 DEF Following, Follows
    <3>5. entity.state[a] = StateOf(Us)
      BY <3>1, <3>4 DEF IsTrue
    <3>. QED  BY <1>2, <3>5, StateOfIs DEF MustRelease
  <2>. QED  BY <1>0, <2>2, <2>3, <2>4 DEF Leaves
<1>. QED  BY <1>1, <1>2

LEMMA LeavingKept ==
  ASSUME TypeOK, Threads, Expecting, Answers, Following, Taking, Apart, Leaving,
         AskStep \/ SendStep \/ DropStep \/ ReadStep \/ RevokeStep \/ StayStep \/ EnumStep \/ DeviceStep
  PROVE  Leaving'
<1> SUFFICES ASSUME over', Advertised', faults' = 0, events' = 0, stays' = 1
             PROVE  (\A v \in Users : pc'[v] # "sending") /\ \A a \in Accesses : Leaves(a)'
  BY DEF Leaving
<1> DEFINE Left == (\A v \in Users : pc'[v] # "sending") /\ \A a \in Accesses : Leaves(a)'
<1>a. faults \in Nat /\ events \in Nat /\ pc \in [Users -> Places] /\ tokens \in [Users -> Token \cup {None}]
  BY DEF TypeOK
<1>1. CASE Shutdown
  <2>1. UNCHANGED <<entity, pc, faults, events, stays>> /\ \A v \in Users : pc[v] \in {"idle", "waiting"}
    BY <1>1 DEF Shutdown, userVars, worldVars
  <2>2. Advertised /\ faults = 0 /\ events = 0 /\ stays = 1
    BY <2>1 DEF Advertised
  <2>. QED  BY <1>1, <2>1, <2>2, LeavesAtShutdown
<1>b. ASSUME over, Advertised, faults = 0, events = 0, stays = 1
      PROVE  (\A v \in Users : pc[v] # "sending") /\ \A a \in Accesses : Leaves(a)
  BY <1>b DEF Leaving
<1>c. ASSUME over, Advertised, UNCHANGED <<faults, events, stays, toDevice, device>>,
             \A v \in Users : pc'[v] = pc[v] \/ pc'[v] # "sending"
      PROVE  Left
  BY <1>b, <1>c, LeavesOn
<1>2. CASE AskStep
  <2>1. Refused \/ ~over'
    BY <1>2 DEF AskStep, Begins, Granted
  <2>2. Refused
    BY <2>1
  <2>3. UNCHANGED <<entity, over, faults, events, stays, toDevice, device, pc>>
    BY <2>2 DEF Refused, worldVars
  <2>. QED  BY <1>c, <2>3 DEF Advertised
<1>3. ASSUME NEW u \in Users, Sent(u) \/ Unsent(u) \/ SendRelease(u) PROVE Left
  <2>1. UNCHANGED <<entity, over, faults, events, stays, device>>
    BY <1>3 DEF Sent, Unsent, SendRelease, worldVars
  <2>2. (\A v \in Users : pc[v] # "sending") /\ \A a \in Accesses : Leaves(a)
    BY <1>b, <2>1 DEF Advertised
  <2>3. SendRelease(u)
    BY <1>3, <2>2 DEF Sent, Unsent
  <2>4. PICK c : c = Command(tokens[u].access, TRUE, None)
    OBVIOUS
  <2>5. toDevice' = Append(toDevice, c) /\ pc' = [pc EXCEPT ![u] = "idle"]
    BY <2>1, <2>3, <2>4 DEF SendRelease, Advertised
  <2>6. tokens[u].access \in Accesses
    BY <2>3 DEF SendRelease, Threads, Thread, TokenLocked, Token
  <2>7. c \in Request /\ c.release
    BY <2>4, <2>6 DEF Command, Request, Requesters
  <2>8. \A v \in Users : pc'[v] # "sending"
    BY <1>a, <2>2, <2>5
  <2>. QED  BY <2>1, <2>2, <2>5, <2>7, <2>8, LeavesReleased
<1>4. ASSUME NEW u \in Users, Drops(u) PROVE Left
  <2>1. UNCHANGED <<entity, over, faults, events, stays, toDevice, device>>
    BY <1>4 DEF Drops, Destroys, worldVars
  <2>2. \A v \in Users : pc'[v] = pc[v] \/ pc'[v] # "sending"
    BY <1>a, <1>4 DEF Drops, Destroys, Forgets
  <2>. QED  BY <1>c, <2>1, <2>2 DEF Advertised
<1>5. ASSUME NEW u \in Users, ReleaseBegins(u) PROVE Left
  <2>1. UNCHANGED <<over, faults, events, stays, toDevice, device>> /\ Advertised /\ pc' = [pc EXCEPT ![u] = "sendingRelease"]
    BY <1>5 DEF ReleaseBegins, worldVars
  <2>2. \A v \in Users : pc'[v] = pc[v] \/ pc'[v] # "sending"
    BY <1>a, <2>1
  <2>. QED  BY <1>c, <2>1, <2>2
<1>6. ~ReadStep
  BY DEF ReadStep, Ignores, Retries, Learns, Revokes, Tells, Passes, Reads
<1>7. CASE Concludes
  <2>1. UNCHANGED <<entity, over, faults, events, stays, toDevice, device>>
    BY <1>7 DEF Concludes, worldVars
  <2>2. \A v \in Users : pc'[v] = pc[v] \/ pc'[v] # "sending"
    BY <1>a, <1>7 DEF Concludes, Answer
  <2>. QED  BY <1>c, <2>1, <2>2 DEF Advertised
<1>8. ASSUME NEW u \in Users, Invalidates(u) PROVE Left
  <2>1. UNCHANGED <<entity, over, faults, events, stays, toDevice, device, pc>>
    BY <1>8 DEF Invalidates, userVars, worldVars
  <2>. QED  BY <1>c, <2>1 DEF Advertised
<1>9. ~OnEntityOnline /\ ~OnEntityOffline
  BY DEF OnEntityOnline, OnEntityOffline
<1>10. ASSUME NEW c \in Request, NEW m \in Response, Replies(c, m) PROVE Left
  <2>1. UNCHANGED <<entity, over, faults, events, stays, pc>>
    BY <1>10 DEF Replies, Travels, userVars
  <2>2. (\A v \in Users : pc[v] # "sending") /\ \A a \in Accesses : Leaves(a)
    BY <1>b, <2>1 DEF Advertised
  <2>. QED  BY <1>10, <2>1, <2>2, LeavesReplied
<1>11. ASSUME NEW c \in Request, NEW m \in Response, Loses(c, m) PROVE FALSE
  BY <1>11, <1>a DEF Loses
<1>12. ASSUME NEW b \in Implemented, NEW h \in Others \cup {None}, Changes(b, h) PROVE FALSE
  BY <1>12, <1>a DEF Changes
<1>13. ~EnumStep
  BY DEF EnumStep, Prepares, Questions, Publishes, Resends, Abandons, Advertised
<1>. QED
  BY <1>1, <1>2, <1>3, <1>4, <1>5, <1>6, <1>7, <1>8, <1>9, <1>10, <1>11, <1>12, <1>13
     DEF SendStep, DropStep, RevokeStep, StayStep, DeviceStep

LEMMA RightsInit == Init => Rights
<1> SUFFICES ASSUME Init PROVE Rights
  OBVIOUS
<1>0. /\ entity = None /\ ~over /\ toDevice = <<>> /\ toController = <<>> /\ stays = 0
      /\ \A u \in Users : pc[u] = "idle" /\ tokens[u] = None
  BY DEF Init
<1>1. Asking
  BY <1>0, NoneIsApart DEF Asking, Asks
<1>2. Taking
  <2>1. \A a \in Accesses : device[a] # Us
    BY ConstantsAssumption DEF Init
  <2>. QED  BY <1>0, <2>1, EmptyIs DEF Taking
<1>3. Fresh
  BY <1>0, EmptyIs DEF Fresh
<1>. QED  BY <1>0, <1>1, <1>2, <1>3 DEF Rights, Kept, Mine, Apart, Leaving, Advertised

LEMMA RightsStutter == Rights /\ UNCHANGED vars => Rights'
<1> SUFFICES ASSUME Rights, UNCHANGED vars PROVE Rights'
  OBVIOUS
<1>0. UNCHANGED <<entity, tokens, registered, pc, call, network, toDevice, toController, device, over, unreleased,
                  stays, events, faults>>
  BY DEF vars
<1>1. \A u, a : Works(u, a)' = Works(u, a)
  BY <1>0 DEF Works, Sends, Releases
<1>2. Asking' /\ Taking' /\ Fresh' /\ Kept'
  <2>1. \A m : Says(m)' = Says(m)
    BY DEF Says, InfoFromStatus, StateOf
  <2>. QED  BY <1>0, <2>1 DEF Rights, Asking, Asks, Taking, Fresh, Young, Kept, HeldFor
<1>3. Apart'
  BY <1>0, <1>1 DEF Rights, Apart, Alone, Occupied, Advertised
<1>4. Leaving'
  BY <1>0 DEF Rights, Leaving, Leaves, Advertised
<1>5. Mine'
  <2>1. ASSUME NEW a, Mines(a) PROVE Mines(a)'
    BY <1>0, <1>1, <2>1, MinesOn DEF Backed
  <2>. QED  BY <1>0, <2>1 DEF Rights, Mine
<1>. QED  BY <1>2, <1>3, <1>4, <1>5 DEF Rights

LEMMA RightsNext ==
  ASSUME Inv, Rights, Next PROVE Rights'
<1>0. /\ TypeOK /\ Threads /\ Waiting /\ Expecting /\ Answers /\ Following
      /\ Asking /\ Taking /\ Fresh /\ Kept /\ Mine /\ Apart /\ Leaving
  BY DEF Inv, Rights
<1>1. TypeOK' /\ Expecting' /\ Answers'
  BY InvNext DEF Inv
<1>2. AskStep \/ SendStep \/ DropStep \/ ReadStep \/ RevokeStep \/ StayStep \/ EnumStep \/ DeviceStep
  BY <1>0, FineStepIs
<1>3. Asking'
  BY <1>0, <1>2, AskingKept
<1>4. Taking'
  BY <1>0, <1>2, TakingKept
<1>5. Fresh'
  BY <1>0, <1>1, <1>2, FreshKept
<1>6. Kept'
  BY <1>0, <1>1, <1>2, KeptOn
<1>7. Mine'
  BY <1>0, <1>1, <1>2, MineKept
<1>8. Apart'
  BY <1>0, <1>1, <1>2, ApartKept
<1>9. Leaving'
  BY <1>0, <1>2, LeavingKept
<1>. QED  BY <1>3, <1>4, <1>5, <1>6, <1>7, <1>8, <1>9 DEF Rights

LEMMA RightsInvariant == Spec => [](Inv /\ Rights)
<1>1. Init => Inv /\ Rights
  BY InvInit, RightsInit
<1>2. (Inv /\ Rights) /\ [Next]_vars => (Inv /\ Rights)'
  BY InvNext, InvStutter, RightsNext, RightsStutter
<1>. QED  BY <1>1, <1>2, PTL DEF Spec

\* Nothing is held for nobody: when the tokens are destroyed and nothing is under way, the
\* entity is released (unregisterExclusiveAccessToken releases it with the last token),
\* provided that the tokens are of one access and that users take nothing themselves; and
\* a controller that is destroyed, when nothing is lost and no other intervenes, leaves
\* nothing held, not even by a command that was on its way (~ControllerImpl).
THEOREM NothingKeptForNobody == Spec => []NothingHeldForNobody
<1>1. Inv /\ Rights => NothingHeldForNobody
  <2> SUFFICES ASSUME Inv, Rights, Advertised PROVE NothingHeldForNobody
    BY DEF NothingHeldForNobody
  <2>0. entity # None /\ Taking
    BY DEF Advertised, Rights
  <2>1. ASSUME Quiet, ~over, ~unreleased, registered = {}, "take" \notin Direct, OneAccess,
               NEW a \in Accesses, device[a] = Us
        PROVE  entity.state[a] = "Undefined"
    <3>1. toController = <<>> /\ toDevice = <<>> /\ \A u \in Users : pc[u] = "idle"
      BY <2>1 DEF Quiet
    <3>2. ~Has(toController, Good(a)) /\ ~Has(toDevice, NewsOn(a))
      BY <3>1, EmptyIs
    <3>3. ~Backed(a)
      BY <3>1, <3>2 DEF Backed, Works, Sends, Releases
    <3>4. entity.state[a] \in OurStates
      BY <2>0, <2>1, <3>2, <3>3 DEF Rights, Mine, Mines
    <3>5. entity.state[a] # "Held"
      <4>1. ~HeldFor(a)
        BY <2>1, <3>1 DEF HeldFor
      <4>. QED  BY <2>0, <2>1, <4>1 DEF Rights, Kept
    <3>. QED  BY <3>4, <3>5 DEF OurStates
  <2>2. ASSUME over, toDevice = <<>>, faults + events = 0, stays = 1, NEW a \in Accesses
        PROVE  device[a] # Us
    <3>1. faults = 0 /\ events = 0
      <4>1. faults \in Nat /\ events \in Nat
        BY DEF Inv, TypeOK
      <4>. QED  BY <2>2, <4>1
    <3>2. ~Has(toDevice, On(a))
      BY <2>2, EmptyIs
    <3>. QED  BY <2>2, <3>1, <3>2 DEF Rights, Leaving, Leaves
  <2>. QED  BY <2>1, <2>2 DEF NothingHeldForNobody
<1>. QED  BY <1>1, RightsInvariant, PTL
=============================================================================
