-------------------------- MODULE SanitizerProofs --------------------------
(***************************************************************************)
(* Theorems about Sanitizer, for any number of turns, threads and permits: *)
(* the gate order holds and the permits of the workers are conserved. The  *)
(* inductive invariant ties the stage of a turn to its jobs and the queue  *)
(* to the jobs that are queued.                                            *)
(* The last part is about Workers, what one of these jobs reports of a     *)
(* payload and makes of it: each modality's results, the report they merge *)
(* into, then the inductive invariant.                                     *)
(***************************************************************************)
EXTENDS Sanitizer, Workers, FiniteSetTheorems, SequenceTheorems, TLAPS

\* What the stage of a turn says about its jobs, and its worker about its
\* engines.
Coherent(t) ==
  /\ stage[t] = "loaded" => \A k \in Engines \cup {"worker"} : job[<<t, k>>] = "none"
  /\ stage[t] \in {"prescan", "waiting"} => job[<<t, "worker">>] = "none"
  /\ stage[t] \in {"waiting", "working", "passed"} => \A e \in Engines : job[<<t, e>>] = "clean"
  /\ stage[t] = "passed" => job[<<t, "worker">>] = "clean"
  /\ job[<<t, "worker">>] # "none" => \A e \in Engines : job[<<t, e>>] = "clean"

\* The queue holds the queued jobs, each once.
Queued(q, j) ==
  /\ q \in Seq(Jobs)
  /\ \A i \in 1 .. Len(q) : j[q[i]] = "queued" /\ \A k \in 1 .. i - 1 : q[k] # q[i]
  /\ \A x \in Jobs : j[x] = "queued" => \E i \in 1 .. Len(q) : q[i] = x

\* The named sets of TypeOK.
Stages == {"loaded", "prescan", "waiting", "working"} \cup Ended
States == {"none", "queued", "running"} \cup Results

\* The turns that hold a permit.
Working == {t \in Turns : stage[t] = "working"}

\* The inductive invariant.
IInv ==
  /\ stage \in [Turns -> Stages] /\ job \in [Jobs -> States] /\ permits \in 0 .. MaxWorkers
  /\ Queued(queue, job)
  /\ PermitsConserved
  /\ \A t \in Turns : Coherent(t)

---------------------------------------------------------------------------

\* A job is a turn and an engine or the worker.
LEMMA JobsAre ==
  /\ \A t \in Turns : \A k \in Engines \cup {"worker"} : <<t, k>> \in Jobs
  /\ \A j \in Jobs : j[1] \in Turns /\ j[2] \in Engines \cup {"worker"} /\ j = <<j[1], j[2]>>
  /\ "clamav" \in Engines /\ "yara" \in Engines /\ "worker" \notin Engines
BY DEF Jobs, Engines

\* A thread takes the head of the queue: the rest is still the queued jobs,
\* each once.
LEMMA Taken ==
  ASSUME NEW q, NEW j \in [Jobs -> States], Queued(q, j), q # <<>>
  PROVE  /\ Head(q) \in Jobs /\ j[Head(q)] = "queued"
         /\ Queued(Tail(q), [j EXCEPT ![Head(q)] = "running"])
<1> DEFINE jj == [j EXCEPT ![Head(q)] = "running"]
           n == Len(q)
<1>1. q \in Seq(Jobs) /\ n \in Nat \ {0} /\ Head(q) = q[1] /\ q[1] \in Jobs
  BY DEF Queued
<1>2. /\ Tail(q) \in Seq(Jobs) /\ Len(Tail(q)) = n - 1
      /\ \A i \in 1 .. n - 1 : Tail(q)[i] = q[i + 1]
  BY <1>1
<1>3. \A i \in 1 .. n : q[i] \in Jobs /\ j[q[i]] = "queued" /\ \A k \in 1 .. i - 1 : q[k] # q[i]
  BY <1>1 DEF Queued
<1>4. ASSUME NEW i \in 1 .. n - 1
      PROVE  jj[Tail(q)[i]] = "queued" /\ \A k \in 1 .. i - 1 : Tail(q)[k] # Tail(q)[i]
  <2>1. i + 1 \in 1 .. n /\ 1 \in 1 .. (i + 1) - 1
    BY <1>1
  <2>2. q[i + 1] \in Jobs /\ j[q[i + 1]] = "queued" /\ q[1] # q[i + 1]
    BY <1>3, <2>1
  <2>3. jj[q[i + 1]] = "queued"
    BY <1>1, <2>2
  <2>4. ASSUME NEW k \in 1 .. i - 1 PROVE Tail(q)[k] # Tail(q)[i]
    <3>1. k \in 1 .. n - 1 /\ k + 1 \in 1 .. (i + 1) - 1
      BY <1>1
    <3> QED
      BY <1>2, <1>3, <2>1, <3>1
  <2> QED
    BY <1>2, <2>3, <2>4
<1>5. ASSUME NEW x \in Jobs, jj[x] = "queued"
      PROVE  \E i \in 1 .. Len(Tail(q)) : Tail(q)[i] = x
  <2>1. x # q[1] /\ j[x] = "queued"
    BY <1>1, <1>5
  <2>2. PICK i \in 1 .. n : q[i] = x
    BY <2>1 DEF Queued
  <2>3. i # 1 /\ i - 1 \in 1 .. n - 1 /\ (i - 1) + 1 = i
    BY <1>1, <2>1, <2>2
  <2>4. Tail(q)[i - 1] = x
    BY <1>2, <2>2, <2>3
  <2> QED
    BY <1>2, <2>3, <2>4
<1> QED
  BY <1>1, <1>2, <1>3, <1>4, <1>5 DEF Queued

\* Queueing two jobs at once is queueing one after the other (the two engines
\* of scan, gathered).
LEMMA AppendsBoth ==
  ASSUME NEW q \in Seq(Jobs), NEW x \in Jobs, NEW y \in Jobs
  PROVE  q \o <<x, y>> = Append(Append(q, x), y)
<1> DEFINE a == Append(q, x)
           l == q \o <<x, y>>
           r == Append(a, y)
           n == Len(q)
<1>1. n \in Nat /\ <<x, y>> \in Seq(Jobs) /\ Len(<<x, y>>) = 2
  OBVIOUS
<1>2. a \in Seq(Jobs) /\ Len(a) = n + 1 /\ a[n + 1] = x /\ \A i \in 1 .. n : a[i] = q[i]
  BY AppendProperties
<1> HIDE DEF a
<1>3. r \in Seq(Jobs) /\ Len(r) = n + 2 /\ r[n + 2] = y /\ \A i \in 1 .. n + 1 : r[i] = a[i]
  <2>1. /\ r \in Seq(Jobs) /\ Len(r) = Len(a) + 1 /\ r[Len(a) + 1] = y
        /\ \A i \in 1 .. Len(a) : r[i] = a[i]
    BY <1>2, AppendProperties
  <2>2. Len(a) + 1 = n + 2
    BY <1>1, <1>2
  <2> QED
    BY <1>2, <2>1, <2>2
<1> HIDE DEF r
<1>4. /\ l \in Seq(Jobs) /\ Len(l) = n + 2
      /\ \A i \in 1 .. n + 2 : l[i] = IF i <= n THEN q[i] ELSE <<x, y>>[i - n]
  BY <1>1, ConcatProperties
<1> HIDE DEF l
<1>5. ASSUME NEW i \in 1 .. n + 2 PROVE l[i] = r[i]
  <2>1. CASE i \in 1 .. n
    BY <1>1, <1>2, <1>3, <1>4, <2>1
  <2>2. CASE i = n + 1
    <3>1. ~(i <= n) /\ i - n = 1 /\ i \in 1 .. n + 1
      BY <1>1, <2>2
    <3> QED
      BY <1>2, <1>3, <1>4, <2>2, <3>1
  <2>3. CASE i = n + 2
    <3>1. ~(i <= n) /\ i - n = 2
      BY <1>1, <2>3
    <3> QED
      BY <1>3, <1>4, <2>3, <3>1
  <2> QED
    BY <1>1, <2>1, <2>2, <2>3
<1>6. l = r
  BY <1>3, <1>4, <1>5, SeqEqual
<1> QED
  BY <1>6 DEF l, r, a

\* A job that was not queued joins the queue.
LEMMA Appended ==
  ASSUME NEW q, NEW j \in [Jobs -> States], Queued(q, j), NEW x \in Jobs, j[x] # "queued"
  PROVE  Queued(Append(q, x), [j EXCEPT ![x] = "queued"])
<1> DEFINE jj == [j EXCEPT ![x] = "queued"]
           a == Append(q, x)
           n == Len(q)
<1>1. q \in Seq(Jobs) /\ n \in Nat
  BY DEF Queued
<1>2. /\ a \in Seq(Jobs) /\ Len(a) = n + 1 /\ a[n + 1] = x
      /\ \A i \in 1 .. n : a[i] = q[i]
  BY <1>1
<1>3. \A i \in 1 .. n : q[i] \in Jobs /\ j[q[i]] = "queued" /\ q[i] # x
                       /\ \A k \in 1 .. i - 1 : q[k] # q[i]
  BY <1>1 DEF Queued
<1> HIDE DEF a
<1>4. ASSUME NEW i \in 1 .. Len(a)
      PROVE  jj[a[i]] = "queued" /\ \A k \in 1 .. i - 1 : a[k] # a[i]
  <2>1. CASE i = n + 1
    <3>1. \A k \in 1 .. i - 1 : k \in 1 .. n
      BY <1>1, <2>1
    <3> QED
      BY <1>2, <1>3, <2>1, <3>1
  <2>2. CASE i \in 1 .. n
    <3>1. \A k \in 1 .. i - 1 : k \in 1 .. n
      BY <1>1, <2>2
    <3> QED
      BY <1>2, <1>3, <2>2, <3>1
  <2> QED
    BY <1>1, <1>2, <2>1, <2>2
<1>5. ASSUME NEW y \in Jobs, jj[y] = "queued"
      PROVE  \E i \in 1 .. Len(a) : a[i] = y
  <2>1. CASE y = x
    <3>1. n + 1 \in 1 .. Len(a)
      BY <1>1, <1>2
    <3> QED
      BY <1>2, <2>1, <3>1
  <2>2. CASE y # x
    <3>1. PICK i \in 1 .. n : q[i] = y
      BY <1>5, <2>2 DEF Queued
    <3>2. i \in 1 .. Len(a)
      BY <1>1, <1>2
    <3> QED
      BY <1>2, <3>1, <3>2
  <2> QED
    BY <2>1, <2>2
<1> QED
  BY <1>2, <1>4, <1>5 DEF Queued, a

\* A cancelled job leaves the queue wherever it stands in it.
LEMMA Removed ==
  ASSUME NEW q, NEW j \in [Jobs -> States], Queued(q, j), NEW i \in 1 .. Len(q)
  PROVE  Queued(RemoveAt(q, i), [j EXCEPT ![q[i]] = "none"])
<1> DEFINE jj == [j EXCEPT ![q[i]] = "none"]
           r == RemoveAt(q, i)
           n == Len(q)
<1>1. q \in Seq(Jobs) /\ n \in Nat /\ i \in 1 .. n
  BY DEF Queued
<1>2. /\ r \in Seq(Jobs) /\ Len(r) = n - 1
      /\ \A k \in 1 .. n - 1 : r[k] = IF k < i THEN q[k] ELSE q[k + 1]
  <2>1. /\ SubSeq(q, 1, i - 1) \in Seq(Jobs) /\ Len(SubSeq(q, 1, i - 1)) = i - 1
        /\ \A k \in 1 .. i - 1 : SubSeq(q, 1, i - 1)[k] = q[k]
    BY <1>1
  <2>2. /\ SubSeq(q, i + 1, n) \in Seq(Jobs) /\ Len(SubSeq(q, i + 1, n)) = n - i
        /\ \A k \in 1 .. n - i : SubSeq(q, i + 1, n)[k] = q[i + k]
    BY <1>1
  <2>3. r = SubSeq(q, 1, i - 1) \o SubSeq(q, i + 1, n)
    BY DEF RemoveAt
  <2> DEFINE a == SubSeq(q, 1, i - 1)
             b == SubSeq(q, i + 1, n)
  <2> HIDE DEF a, b
  <2>4. /\ r = a \o b /\ a \in Seq(Jobs) /\ b \in Seq(Jobs) /\ Len(a) = i - 1 /\ Len(b) = n - i
        /\ \A k \in 1 .. i - 1 : a[k] = q[k]
        /\ \A k \in 1 .. n - i : b[k] = q[i + k]
    BY <2>1, <2>2, <2>3 DEF a, b
  <2> HIDE DEF r
  <2>5. r \in Seq(Jobs) /\ Len(r) = n - 1
    <3>1. a \o b \in Seq(Jobs) /\ Len(a \o b) = Len(a) + Len(b)
      BY <2>4, ConcatProperties
    <3> QED
      BY <1>1, <2>4, <3>1
  <2>6. ASSUME NEW k \in 1 .. n - 1 PROVE r[k] = IF k < i THEN q[k] ELSE q[k + 1]
    <3>1. r[k] = IF k <= Len(a) THEN a[k] ELSE b[k - Len(a)]
      <4>1. k \in 1 .. Len(a) + Len(b)
        BY <1>1, <2>4
      <4> QED
        BY <2>4, <4>1, ConcatProperties
    <3>2. CASE k < i
      BY <1>1, <2>4, <3>1, <3>2
    <3>3. CASE k >= i
      <4>1. k - Len(a) \in 1 .. n - i /\ i + (k - Len(a)) = k + 1 /\ ~(k <= Len(a)) /\ ~(k < i)
        BY <1>1, <2>4, <3>3
      <4> QED
        BY <2>4, <3>1, <4>1
    <3> QED
      BY <1>1, <3>2, <3>3
  <2> QED
    BY <2>5, <2>6
<1> HIDE DEF r
<1>3. \A k \in 1 .. n : q[k] \in Jobs /\ j[q[k]] = "queued"
  BY <1>1 DEF Queued
<1>4. \A k, l \in 1 .. n : k # l => q[k] # q[l]
  <2>1. ASSUME NEW k \in 1 .. n, NEW l \in 1 .. n, k < l PROVE q[k] # q[l]
    <3>1. k \in 1 .. l - 1
      BY <1>1, <2>1
    <3> QED
      BY <3>1 DEF Queued
  <2> QED
    BY <1>1, <2>1
<1>5. ASSUME NEW k \in 1 .. n - 1
      PROVE  jj[r[k]] = "queued" /\ \A l \in 1 .. k - 1 : r[l] # r[k]
  <2>1. PICK m \in 1 .. n : r[k] = q[m] /\ m # i /\ m = IF k < i THEN k ELSE k + 1
    BY <1>1, <1>2
  <2>2. jj[r[k]] = "queued"
    BY <1>1, <1>3, <1>4, <2>1
  <2>3. ASSUME NEW l \in 1 .. k - 1 PROVE r[l] # r[k]
    <3>1. l \in 1 .. n - 1
      BY <1>1
    <3>2. PICK o \in 1 .. n : r[l] = q[o] /\ o = IF l < i THEN l ELSE l + 1
      BY <1>1, <1>2, <3>1
    <3>3. o # m
      BY <1>1, <2>1, <3>2
    <3> QED
      BY <1>4, <2>1, <3>2, <3>3
  <2> QED
    BY <2>2, <2>3
<1>6. ASSUME NEW y \in Jobs, jj[y] = "queued"
      PROVE  \E k \in 1 .. n - 1 : r[k] = y
  <2>1. y # q[i] /\ j[y] = "queued"
    BY <1>1, <1>3, <1>6
  <2>2. PICK m \in 1 .. n : q[m] = y
    BY <2>1 DEF Queued
  <2>3. CASE m < i
    <3>1. m \in 1 .. n - 1 /\ m < i
      BY <1>1, <2>3
    <3> QED
      BY <1>2, <2>2, <3>1
  <2>4. CASE m > i
    <3>1. m - 1 \in 1 .. n - 1 /\ ~(m - 1 < i) /\ (m - 1) + 1 = m
      BY <1>1, <2>4
    <3> QED
      BY <1>2, <2>2, <3>1
  <2> QED
    BY <1>1, <2>1, <2>2, <2>3, <2>4
<1> QED
  BY <1>2, <1>5, <1>6 DEF Queued, r

\* A job that is not queued, before and after, is no concern of the queue.
LEMMA Unqueued ==
  ASSUME NEW q, NEW j \in [Jobs -> States], Queued(q, j), NEW x \in Jobs, j[x] # "queued",
         NEW v \in States, v # "queued"
  PROVE  Queued(q, [j EXCEPT ![x] = v])
<1>1. \A i \in 1 .. Len(q) : q[i] \in Jobs /\ q[i] # x
  BY DEF Queued
<1> QED
  BY <1>1 DEF Queued

---------------------------------------------------------------------------

\* Sets of turns are finite; adding or removing one turn counts one.
LEMMA WorkingCounted ==
  ASSUME NEW T \in SUBSET Turns
  PROVE  /\ Cardinality(T) \in Nat
         /\ \A t \in Turns : t \notin T => Cardinality(T \cup {t}) = Cardinality(T) + 1
         /\ \A t \in T : Cardinality(T \ {t}) = Cardinality(T) - 1 /\ Cardinality(T) > 0
<1>1. IsFiniteSet(T)
  BY SanitizerAssumption, FS_Subset
<1>2. Cardinality(T) \in Nat
  BY <1>1, FS_CardinalityType
<1>3. ASSUME NEW t \in Turns, t \notin T PROVE Cardinality(T \cup {t}) = Cardinality(T) + 1
  BY <1>1, <1>3, FS_AddElement
<1>4. ASSUME NEW t \in T PROVE Cardinality(T \ {t}) = Cardinality(T) - 1 /\ Cardinality(T) > 0
  <2>1. Cardinality(T \ {t}) = Cardinality(T) - 1 /\ IsFiniteSet(T \ {t})
    BY <1>1, FS_RemoveElement
  <2>2. Cardinality(T \ {t}) \in Nat
    BY <2>1, FS_CardinalityType
  <2> QED
    BY <1>2, <2>1, <2>2
<1> QED
  BY <1>2, <1>3, <1>4

\* A permit is taken as a turn begins to work and given back as it stops: that
\* is all a step of one turn can do to the balance.
LEMMA PermitsBalance ==
  ASSUME IInv, NEW t \in Turns, NEW v \in Stages, stage' = [stage EXCEPT ![t] = v],
         \/ stage[t] # "working" /\ v # "working" /\ permits' = permits
         \/ stage[t] # "working" /\ v = "working" /\ permits > 0 /\ permits' = permits - 1
         \/ stage[t] = "working" /\ v # "working" /\ permits' = permits + 1
  PROVE  PermitsConserved' /\ permits' \in 0 .. MaxWorkers /\ stage' \in [Turns -> Stages]
<1>1. stage \in [Turns -> Stages] /\ permits \in 0 .. MaxWorkers /\ MaxWorkers \in Nat
  BY SanitizerAssumption DEF IInv
<1>2. Working \in SUBSET Turns /\ Cardinality(Working) \in Nat
      /\ permits + Cardinality(Working) = MaxWorkers
  BY WorkingCounted DEF Working, IInv, PermitsConserved
<1>3. permits' \in Nat /\ permits' + Cardinality(Working') = MaxWorkers
  <2>1. CASE stage[t] # "working" /\ v # "working" /\ permits' = permits
    <3>1. Working' = Working
      BY <1>1, <2>1 DEF Working
    <3> QED
      BY <1>1, <1>2, <2>1, <3>1
  <2>2. CASE stage[t] # "working" /\ v = "working" /\ permits > 0 /\ permits' = permits - 1
    <3>1. Working' = Working \cup {t} /\ t \notin Working
      BY <1>1, <2>2 DEF Working
    <3>2. Cardinality(Working') = Cardinality(Working) + 1
      BY <1>2, <3>1, WorkingCounted
    <3> QED
      BY <1>1, <1>2, <2>2, <3>2
  <2>3. CASE stage[t] = "working" /\ v # "working" /\ permits' = permits + 1
    <3>1. Working' = Working \ {t} /\ t \in Working
      BY <1>1, <2>3 DEF Working
    <3>2. Cardinality(Working') = Cardinality(Working) - 1
      BY <1>2, <3>1, WorkingCounted
    <3> QED
      BY <1>1, <1>2, <2>3, <3>2
  <2> QED
    BY <2>1, <2>2, <2>3
<1>4. Working' \in SUBSET Turns
  BY DEF Working
<1>5. Cardinality(Working') \in Nat
  BY <1>4, WorkingCounted
<1> QED
  BY <1>1, <1>3, <1>5 DEF Working, PermitsConserved

\* Steps of the thread pool move no turn and no permit.
LEMMA SameStages ==
  ASSUME IInv, UNCHANGED <<stage, permits>>
  PROVE  PermitsConserved' /\ permits' \in 0 .. MaxWorkers /\ stage' \in [Turns -> Stages]
BY DEF IInv, PermitsConserved

\* A turn whose stage and jobs stay as they are stays coherent.
LEMMA Untouched ==
  ASSUME NEW t \in Turns, Coherent(t), stage'[t] = stage[t],
         \A k \in Engines \cup {"worker"} : job'[<<t, k>>] = job[<<t, k>>]
  PROVE  Coherent(t)'
BY DEF Coherent

\* The invariant holds before any turn has begun.
LEMMA InitiallyInvariant == Init => IInv
<1> SUFFICES ASSUME Init PROVE IInv
  OBVIOUS
<1>1. /\ stage \in [Turns -> Stages] /\ job \in [Jobs -> States]
      /\ permits = MaxWorkers /\ queue = <<>>
  BY DEF Init, Stages, States
<1>2. /\ \A t \in Turns : stage[t] = "loaded"
      /\ \A j \in Jobs : job[j] = "none"
  BY DEF Init
<1>3. Queued(queue, job)
  BY <1>1, <1>2 DEF Queued
<1>4. PermitsConserved /\ permits \in 0 .. MaxWorkers
  <2>1. {t \in Turns : stage[t] = "working"} = {}
    BY <1>2
  <2>2. Cardinality({t \in Turns : stage[t] = "working"}) = 0
    BY <2>1, FS_EmptySet, Zenon
  <2>3. MaxWorkers \in Nat /\ permits \in 0 .. MaxWorkers
    BY <1>1, SanitizerAssumption
  <2>4. PermitsConserved
    BY <1>1, <2>2, <2>3 DEF PermitsConserved
  <2> QED
    BY <2>3, <2>4
<1>5. ASSUME NEW t \in Turns PROVE Coherent(t)
  BY <1>2, JobsAre DEF Coherent
<1> QED
  BY <1>1, <1>3, <1>4, <1>5 DEF IInv

\* A thread takes a job: a queued one, so none whose result a stage relies on.
LEMMA ThreadTakesKeeps == ASSUME IInv, ThreadTakes PROVE IInv'
<1>1. /\ queue # <<>> /\ job' = [job EXCEPT ![Head(queue)] = "running"] /\ queue' = Tail(queue)
      /\ UNCHANGED <<stage, permits>>
  BY DEF ThreadTakes
<1>2. Queued(queue, job) /\ job \in [Jobs -> States]
  BY DEF IInv
<1>3. /\ Head(queue) \in Jobs /\ job[Head(queue)] = "queued" /\ Queued(queue', job')
  BY <1>1, <1>2, Taken
<1>4. job' \in [Jobs -> States]
  BY <1>1, <1>2 DEF States
<1>5. ASSUME NEW t \in Turns PROVE Coherent(t)'
  <2>1. Coherent(t)
    BY DEF IInv
  <2>2. \A k \in Engines \cup {"worker"} :
          \/ job'[<<t, k>>] = job[<<t, k>>]
          \/ job[<<t, k>>] = "queued" /\ job'[<<t, k>>] = "running"
    BY <1>1, <1>2, <1>3, JobsAre
  <2>3. "worker" \in Engines \cup {"worker"} /\ Engines \subseteq Engines \cup {"worker"}
    OBVIOUS
  <2> QED
    BY <1>1, <2>1, <2>2, <2>3 DEF Coherent
<1> QED
  BY <1>1, <1>3, <1>4, <1>5, SameStages DEF IInv

\* A job returns: a running one, so a clean engine stays clean.
LEMMA JobReturnsKeeps == ASSUME IInv, NEW j \in Jobs, JobReturns(j) PROVE IInv'
<1>1. PICK r \in Results : job' = [job EXCEPT ![j] = r]
  BY DEF JobReturns
<1>2. job[j] = "running" /\ UNCHANGED <<stage, queue, permits>>
  BY DEF JobReturns
<1>3. Queued(queue, job) /\ job \in [Jobs -> States] /\ r \in States /\ r # "queued"
  BY DEF IInv, States, Results
<1>4. Queued(queue', job') /\ job' \in [Jobs -> States]
  BY <1>1, <1>2, <1>3, Unqueued
<1>5. ASSUME NEW t \in Turns PROVE Coherent(t)'
  <2>1. Coherent(t)
    BY DEF IInv
  <2>2. \A k \in Engines \cup {"worker"} :
          \/ job'[<<t, k>>] = job[<<t, k>>]
          \/ job[<<t, k>>] = "running"
    BY <1>1, <1>2, <1>3, JobsAre
  <2>3. "worker" \in Engines \cup {"worker"} /\ Engines \subseteq Engines \cup {"worker"}
    OBVIOUS
  <2> QED
    BY <1>2, <2>1, <2>2, <2>3 DEF Coherent
<1> QED
  BY <1>2, <1>4, <1>5, SameStages DEF IInv

\* runner.run hands the payload to both engines (scan).
LEMMA StartKeeps == ASSUME IInv, NEW t \in Turns, Start(t) PROVE IInv'
<1> DEFINE c == <<t, "clamav">>
           y == <<t, "yara">>
           j1 == [job EXCEPT ![c] = "queued"]
<1>1. /\ stage[t] = "loaded" /\ stage' = [stage EXCEPT ![t] = "prescan"]
      /\ job' = [job EXCEPT ![c] = "queued", ![y] = "queued"]
      /\ queue' = queue \o <<c, y>> /\ permits' = permits
  BY DEF Start
<1>2. Queued(queue, job) /\ job \in [Jobs -> States] /\ Coherent(t) /\ stage \in [Turns -> Stages]
  BY DEF IInv
<1>3. c \in Jobs /\ y \in Jobs /\ c # y /\ job[c] = "none" /\ job[y] = "none" /\ queue \in Seq(Jobs)
  BY <1>1, <1>2, JobsAre DEF Coherent, Queued
<1>4. j1 \in [Jobs -> States] /\ j1[y] = "none" /\ job' = [j1 EXCEPT ![y] = "queued"]
  BY <1>1, <1>2, <1>3 DEF States
<1>5. queue' = Append(Append(queue, c), y)
  BY <1>1, <1>3, AppendsBoth
<1> HIDE DEF c, y
<1>6. Queued(Append(queue, c), j1)
  BY <1>2, <1>3, Appended
<1> HIDE DEF j1
<1>7. Queued(queue', job')
  BY <1>3, <1>4, <1>5, <1>6, Appended
<1>8. job' \in [Jobs -> States]
  BY <1>3, <1>4 DEF States
<1>9. PermitsConserved' /\ permits' \in 0 .. MaxWorkers /\ stage' \in [Turns -> Stages]
  BY <1>1, PermitsBalance DEF Stages
<1>10. ASSUME NEW u \in Turns PROVE Coherent(u)'
  <2>1. CASE u # t
    <3>1. \A k \in Engines \cup {"worker"} : job'[<<u, k>>] = job[<<u, k>>]
      BY <1>1, <1>2, <2>1, JobsAre DEF c, y
    <3> QED
      BY <1>1, <1>2, <2>1, <3>1, Untouched DEF IInv
  <2>2. CASE u = t
    <3>1. job'[<<t, "worker">>] = job[<<t, "worker">>] /\ job[<<t, "worker">>] = "none"
      BY <1>1, <1>2, JobsAre DEF c, y, Coherent
    <3>2. stage'[t] = "prescan"
      BY <1>1, <1>2
    <3> QED
      BY <2>2, <3>1, <3>2 DEF Coherent
  <2> QED
    BY <2>1, <2>2
<1> QED
  BY <1>7, <1>8, <1>9, <1>10 DEF IInv

\* The gathered answers of both engines decide (scan, run): a turn waits for
\* its worker only if both are clean.
LEMMA EnginesKeep ==
  ASSUME IInv, NEW t \in Turns, EngineFaults(t) \/ PreSanitized(t) PROVE IInv'
<1>1. /\ stage[t] = "prescan" /\ UNCHANGED <<job, queue, permits>>
      /\ \/ stage' = [stage EXCEPT ![t] = "failed"]
         \/ stage' = [stage EXCEPT ![t] = "blocked"]
         \/ /\ stage' = [stage EXCEPT ![t] = "waiting"]
            /\ \A e \in Engines : job[<<t, e>>] = "clean"
  BY DEF EngineFaults, PreSanitized, EnginesDone, EngineBlocks
<1>2. Queued(queue, job) /\ job \in [Jobs -> States] /\ Coherent(t) /\ stage \in [Turns -> Stages]
  BY DEF IInv
<1>3. PermitsConserved' /\ permits' \in 0 .. MaxWorkers /\ stage' \in [Turns -> Stages]
  <2>1. "failed" \in Stages /\ "blocked" \in Stages /\ "waiting" \in Stages
    BY DEF Stages, Ended
  <2> QED
    BY <1>1, <2>1, PermitsBalance
<1>4. ASSUME NEW u \in Turns PROVE Coherent(u)'
  <2>1. CASE u # t
    BY <1>1, <1>2, <2>1, Untouched DEF IInv
  <2>2. CASE u = t
    BY <1>1, <1>2, <2>2 DEF Coherent
  <2> QED
    BY <2>1, <2>2
<1> QED
  BY <1>1, <1>2, <1>3, <1>4 DEF IInv

\* _run_worker has its permit: the scan of the worker is queued after both
\* engines found the payload clean.
LEMMA WorkerStartsKeeps == ASSUME IInv, NEW t \in Turns, WorkerStarts(t) PROVE IInv'
<1> DEFINE w == <<t, "worker">>
<1>1. /\ stage[t] = "waiting" /\ permits > 0 /\ stage' = [stage EXCEPT ![t] = "working"]
      /\ permits' = permits - 1 /\ job' = [job EXCEPT ![w] = "queued"]
      /\ queue' = Append(queue, w)
  BY DEF WorkerStarts
<1>2. Queued(queue, job) /\ job \in [Jobs -> States] /\ Coherent(t) /\ stage \in [Turns -> Stages]
  BY DEF IInv
<1>3. w \in Jobs /\ job[w] = "none"
  BY <1>1, <1>2, JobsAre DEF Coherent
<1>4. Queued(queue', job') /\ job' \in [Jobs -> States]
  BY <1>1, <1>2, <1>3, Appended DEF States
<1>5. PermitsConserved' /\ permits' \in 0 .. MaxWorkers /\ stage' \in [Turns -> Stages]
  BY <1>1, PermitsBalance DEF Stages
<1>6. ASSUME NEW u \in Turns PROVE Coherent(u)'
  <2>1. CASE u # t
    <3>1. \A k \in Engines \cup {"worker"} : job'[<<u, k>>] = job[<<u, k>>]
      BY <1>1, <1>2, <2>1, JobsAre
    <3> QED
      BY <1>1, <1>2, <2>1, <3>1, Untouched DEF IInv
  <2>2. CASE u = t
    <3>1. \A e \in Engines : job'[<<t, e>>] = job[<<t, e>>] /\ job[<<t, e>>] = "clean"
      BY <1>1, <1>2, JobsAre DEF Coherent
    <3>2. stage'[t] = "working" /\ job'[w] = "queued"
      BY <1>1, <1>2, <1>3
    <3> QED
      BY <2>2, <3>1, <3>2 DEF Coherent
  <2> QED
    BY <2>1, <2>2
<1> QED
  BY <1>4, <1>5, <1>6 DEF IInv

\* The worker returned (run): a turn passes on a clean result alone.
LEMMA WorkerDoneKeeps == ASSUME IInv, NEW t \in Turns, WorkerDone(t) PROVE IInv'
<1> DEFINE w == <<t, "worker">>
<1>1. /\ stage[t] = "working" /\ permits' = permits + 1 /\ UNCHANGED <<job, queue>>
      /\ \/ stage' = [stage EXCEPT ![t] = "passed"] /\ job[w] = "clean"
         \/ stage' = [stage EXCEPT ![t] = "blocked"]
         \/ stage' = [stage EXCEPT ![t] = "failed"]
  BY DEF WorkerDone, Results
<1>2. Queued(queue, job) /\ job \in [Jobs -> States] /\ Coherent(t) /\ stage \in [Turns -> Stages]
  BY DEF IInv
<1>3. PermitsConserved' /\ permits' \in 0 .. MaxWorkers /\ stage' \in [Turns -> Stages]
  <2>1. "failed" \in Stages /\ "blocked" \in Stages /\ "passed" \in Stages
    BY DEF Stages, Ended
  <2> QED
    BY <1>1, <2>1, PermitsBalance
<1>4. ASSUME NEW u \in Turns PROVE Coherent(u)'
  <2>1. CASE u # t
    BY <1>1, <1>2, <2>1, Untouched DEF IInv
  <2>2. CASE u = t
    BY <1>1, <1>2, <2>2 DEF Coherent
  <2> QED
    BY <2>1, <2>2
<1> QED
  BY <1>1, <1>2, <1>3, <1>4 DEF IInv

\* A timeout fails a turn, gives its permit back if it has one, and drops a
\* scan that is still queued (_run_worker, run).
LEMMA TimesOutKeeps == ASSUME IInv, NEW t \in Turns, TimesOut(t) PROVE IInv'
<1> DEFINE w == <<t, "worker">>
<1>1. /\ stage[t] \in {"waiting", "working"} /\ stage' = [stage EXCEPT ![t] = "failed"]
      /\ permits' = IF stage[t] = "working" THEN permits + 1 ELSE permits
      /\ \/ /\ job[w] = "queued" /\ job' = [job EXCEPT ![w] = "none"]
            /\ \E i \in 1 .. Len(queue) : queue[i] = w /\ queue' = RemoveAt(queue, i)
         \/ UNCHANGED <<job, queue>>
  BY DEF TimesOut, Released, Cancelled
<1>2. Queued(queue, job) /\ job \in [Jobs -> States] /\ Coherent(t) /\ stage \in [Turns -> Stages]
  BY DEF IInv
<1>3. Queued(queue', job') /\ job' \in [Jobs -> States]
  BY <1>1, <1>2, Removed DEF States
<1>4. PermitsConserved' /\ permits' \in 0 .. MaxWorkers /\ stage' \in [Turns -> Stages]
  <2>1. "failed" \in Stages
    BY DEF Stages, Ended
  <2> QED
    BY <1>1, <2>1, PermitsBalance
<1>5. ASSUME NEW u \in Turns PROVE Coherent(u)'
  <2>1. CASE u # t
    <3>1. \A k \in Engines \cup {"worker"} : job'[<<u, k>>] = job[<<u, k>>]
      BY <1>1, <1>2, <2>1, JobsAre
    <3> QED
      BY <1>1, <1>2, <2>1, <3>1, Untouched DEF IInv
  <2>2. CASE u = t
    <3>1. \A e \in Engines : job'[<<t, e>>] = job[<<t, e>>] /\ job[<<t, e>>] = "clean"
      BY <1>1, <1>2, JobsAre DEF Coherent
    <3>2. stage'[t] = "failed"
      BY <1>1, <1>2
    <3> QED
      BY <2>2, <3>1, <3>2 DEF Coherent
  <2> QED
    BY <2>1, <2>2
<1> QED
  BY <1>3, <1>4, <1>5 DEF IInv

\* The inductive invariant holds throughout.
LEMMA Invariant == Spec => []IInv
<1>1. IInv /\ UNCHANGED vars => IInv'
  BY DEF IInv, vars, PermitsConserved, Coherent
<1>2. IInv /\ Next => IInv'
  BY ThreadTakesKeeps, JobReturnsKeeps, StartKeeps, EnginesKeep, WorkerStartsKeeps,
     WorkerDoneKeeps, TimesOutKeeps
  DEF Next, LoopStep
<1> QED
  BY <1>1, <1>2, InitiallyInvariant, PTL DEF Spec

\* However turns end - passing, blocked, by a fault or a timeout - each permit
\* of _worker_semaphore is given back exactly once, for any number of turns,
\* threads and permits.
THEOREM PermitsAreConserved == Spec => []PermitInv
<1>1. IInv => PermitInv
  BY DEF IInv, PermitInv, TypeOK, Queued, Stages, States
<1> QED
  BY <1>1, Invariant, PTL

\* No parser of a modality touches a payload before ClamAV and YARA both found
\* it clean, and a turn passes only if all three did, whatever the timeouts
\* and the threads left behind do (runner.run).
THEOREM ScansAreOrdered == Spec => []ScannedInOrder
<1>1. IInv => ScannedInOrder
  BY DEF IInv, Coherent, ScannedInOrder
<1> QED
  BY <1>1, Invariant, PTL
---------------------------------------------------------------------------
\* Workers, whatever the libraries do.

\* A payload as it comes in (foundation/contracts/io.py).
LEMMA RawIsPayload ==
  ASSUME NEW p \in Raw
  PROVE  /\ p \in Payload /\ p.altered = FALSE /\ p.shape \in {"value", "path"}
         /\ p.modality \in {"text", "image", "pdf", "audio", "video"}
         /\ p.modality = "text" => p.traits \subseteq {"pii", "secret", "veiled pii", "veiled secret"}
         /\ p.modality = "image" => p.traits \subseteq {"malformed", "oversized", "metadata"}
         /\ p.modality = "pdf" =>
              p.traits \subseteq {"malformed", "encrypted", "locked", "oversized", "active", "buried"}
         /\ p.modality \in {"audio", "video"} =>
              p.traits \subseteq {"malformed", "oversized", "undated", "metadata"}
<1>1. PICK m \in DOMAIN Traits :
        p \in [modality : {m}, shape : {"value", "path"},
               traits : SUBSET Traits[m], altered : {FALSE}]
  BY DEF Raw
<1>2. DOMAIN Traits = {"text", "image", "pdf", "audio", "video"}
  BY DEF Traits
<1>3. p.modality = m /\ p.traits \subseteq Traits[m] /\ p.altered = FALSE /\ p.shape \in {"value", "path"}
  BY <1>1
<1>4. p.traits \in SUBSET AllTraits
  BY <1>1, <1>3 DEF AllTraits
<1>5. p \in Payload
  BY <1>1, <1>4 DEF Payload
<1>6. /\ Traits["text"] = {"pii", "secret", "veiled pii", "veiled secret"}
      /\ Traits["image"] = {"malformed", "oversized", "metadata"}
      /\ Traits["pdf"] = {"malformed", "encrypted", "locked", "oversized", "active", "buried"}
      /\ Traits["audio"] = {"malformed", "oversized", "undated", "metadata"}
      /\ Traits["video"] = {"malformed", "oversized", "undated", "metadata"}
  BY DEF Traits
<1>7. p.traits \subseteq Traits[p.modality]
  BY <1>3
<1>8. p.modality \in {"text", "image", "pdf", "audio", "video"}
  BY <1>2, <1>3
<1>9. /\ p.modality = "text" => p.traits \subseteq Traits["text"]
      /\ p.modality = "image" => p.traits \subseteq Traits["image"]
      /\ p.modality = "pdf" => p.traits \subseteq Traits["pdf"]
      /\ p.modality = "audio" => p.traits \subseteq Traits["audio"]
      /\ p.modality = "video" => p.traits \subseteq Traits["video"]
  BY <1>7
<1>10. p.modality \in {"audio", "video"} =>
         p.traits \subseteq {"malformed", "oversized", "undated", "metadata"}
  BY <1>6, <1>9
<1> QED
  BY <1>3, <1>5, <1>6, <1>8, <1>9, <1>10

\* What is left of a payload is a payload of the same modality.
LEMMA WithoutIsPayload ==
  ASSUME NEW p \in Payload, NEW gone
  PROVE  /\ Without(p, gone) \in Payload
         /\ Without(p, gone).traits = p.traits \ gone
         /\ Without(p, gone).altered = TRUE
         /\ Without(p, gone).modality = p.modality
  BY DEF Payload, Without

\* A replacement is a payload of the same modality, so it is not None.
LEMMA MadeIsPayload ==
  ASSUME NEW p \in Payload, NEW threat
  PROVE  /\ Made(threat, p).threat = threat
         /\ Made(threat, p).sanitized \in Payload
         /\ Made(threat, p).sanitized # None
         /\ Made(threat, p).sanitized.traits = p.traits
         /\ Made(threat, p).sanitized.altered = p.altered
         /\ Made(threat, p).sanitized.modality = p.modality
         /\ Made(threat, p).sanitized.shape = "value"
<1>1. [p EXCEPT !.shape = "value"] \in Payload
  BY DEF Payload
<1>2. None \notin Payload
  BY WorkersAssumption
<1> QED
  BY <1>1, <1>2 DEF Payload, Made

\* What has been reported: one result of each sub-worker so far, in order.
Reported(p, rs) ==
  /\ DOMAIN rs = 1 .. Len(rs) /\ Len(rs) \in Nat /\ Len(rs) <= Len(Scan(p))
  /\ \A i \in 1 .. Len(rs) : rs[i] \in Scan(p)[i]

\* The sub-workers of each modality.
LEMMA ScanOf ==
  ASSUME NEW p
  PROVE  /\ p.modality = "text" => Scan(p) = <<Secrets(Text(p)), Presidio(Text(p))>>
         /\ p.modality = "image" => Scan(p) = <<Image(p)>>
         /\ p.modality = "pdf" => Scan(p) = <<PdfStructure(p), PdfPages(p), PdfSanitize(p)>>
         /\ p.modality = "audio" => Scan(p) = <<AudioProbe(p), AudioTags(p), AudioSanitize(p)>>
         /\ p.modality = "video" => Scan(p) = <<VideoProbe(p), VideoTags(p), VideoSanitize(p)>>
  BY DEF Scan

\* What the worker of text sees of a payload: the name of a path has no traits
\* (workers/text.py).
LEMMA TextOf ==
  ASSUME NEW p \in Payload
  PROVE  /\ Text(p) \in Payload /\ Text(p).modality = p.modality
         /\ Text(p).altered = p.altered /\ Text(p).shape # "path"
         /\ Text(p).traits \subseteq p.traits
         /\ p.shape # "path" => Text(p) = p
  BY DEF Payload, Text

\* A result that names a threat, and only that, has a reason.
Sound(r) == r.threat \in ThreatLevel /\ r.reason = (r.threat # "none")

\* The two results that replace nothing.
LEMMA FineAndFound ==
  /\ Sound(Fine) /\ Fine.sanitized = None /\ Fine.threat = "none"
  /\ \A threat \in ThreatLevel \ {"none"} :
       /\ Sound(Found(threat)) /\ Found(threat).sanitized = None
       /\ Found(threat).threat = threat
  BY DEF Sound, Fine, Found, ThreatLevel

\* Neither does a replacement name a threat without a reason.
LEMMA MadeIsSound ==
  /\ \A p : Sound(Made("none", p))
  /\ \A p : Sound(Made("low", p))
  /\ \A p : Sound(Made("medium", p))
  BY DEF Sound, Made, ThreatLevel

\* What the sub-workers of text report (workers/text.py).
LEMMA TextResults ==
  ASSUME NEW p \in Payload
  PROVE  /\ \A r \in Secrets(p) : /\ Sound(r) /\ r.sanitized = None
                                  /\ "secret" \in p.traits => r.threat = "high"
         /\ \A r \in Presidio(p) : /\ Sound(r)
                                   /\ IF "pii" \in p.traits
                                      THEN r = Made("medium", Without(p, {"pii"}))
                                      ELSE r = Fine
<1>1. \A r \in Secrets(p) : /\ Sound(r) /\ r.sanitized = None
                            /\ "secret" \in p.traits => r.threat = "high"
  BY FineAndFound DEF Secrets, ThreatLevel
<1>2. Sound(Made("medium", Without(p, {"pii"})))
  BY MadeIsSound
<1>3. ASSUME NEW r \in Presidio(p)
      PROVE  /\ Sound(r)
             /\ IF "pii" \in p.traits THEN r = Made("medium", Without(p, {"pii"})) ELSE r = Fine
  BY <1>2, FineAndFound DEF Presidio
<1> QED
  BY <1>1, <1>3

\* What the worker of images reports; of one too large or broken it raises
\* (workers/image.py).
LEMMA ImageResults ==
  ASSUME NEW p \in Payload, NEW r \in Image(p)
  PROVE  /\ Sound(r) /\ p.traits \cap {"malformed", "oversized"} = {}
         /\ r = Made("none", p) \/ r = Made("low", Without(p, {"metadata"}))
<1>1. p.traits \cap {"malformed", "oversized"} = {}
  BY DEF Image
<1>2. r = Made("none", p) \/ r = Made("low", Without(p, {"metadata"}))
  BY <1>1 DEF Image
<1>3. Sound(Made("none", p)) /\ Sound(Made("low", Without(p, {"metadata"})))
  BY MadeIsSound
<1> QED
  BY <1>1, <1>2, <1>3

\* What the sub-workers of PDFs report: pikepdf opens what is well formed and
\* saves it without encryption (workers/pdf.py).
LEMMA PdfResults ==
  ASSUME NEW p \in Payload
  PROVE  /\ \A r \in PdfStructure(p) :
              /\ Sound(r) /\ r.sanitized = None /\ "malformed" \notin p.traits
              /\ p.traits \cap {"encrypted", "locked"} # {} => r.threat = "high"
         /\ \A r \in PdfPages(p) :
              /\ Sound(r) /\ r.sanitized = None
              /\ "oversized" \in p.traits => r.threat = "high"
         /\ \A r \in PdfSanitize(p) :
              /\ Sound(r)
              /\ \/ r = Made("medium", Without(p, {"active", "encrypted"}))
                 \/ "active" \notin p.traits /\ r = Made("low", Without(p, {"encrypted"}))
                 \/ p.traits \cap {"active", "encrypted"} = {} /\ r = Made("none", p)
<1>1. ASSUME NEW r \in PdfStructure(p)
      PROVE  /\ Sound(r) /\ r.sanitized = None /\ "malformed" \notin p.traits
             /\ p.traits \cap {"encrypted", "locked"} # {} => r.threat = "high"
  BY FineAndFound DEF PdfStructure, ThreatLevel
<1>2. ASSUME NEW r \in PdfPages(p)
      PROVE  Sound(r) /\ r.sanitized = None /\ ("oversized" \in p.traits => r.threat = "high")
  BY FineAndFound DEF PdfPages, ThreatLevel
<1>3. ASSUME NEW r \in PdfSanitize(p)
      PROVE  /\ Sound(r)
             /\ \/ r = Made("medium", Without(p, {"active", "encrypted"}))
                \/ "active" \notin p.traits /\ r = Made("low", Without(p, {"encrypted"}))
                \/ p.traits \cap {"active", "encrypted"} = {} /\ r = Made("none", p)
  <2>1. /\ Sound(Made("medium", Without(p, {"active", "encrypted"})))
        /\ Sound(Made("low", Without(p, {"encrypted"}))) /\ Sound(Made("none", p))
    BY MadeIsSound
  <2>2. \/ r = Made("medium", Without(p, {"active", "encrypted"}))
        \/ "active" \notin p.traits /\ r = Made("low", Without(p, {"encrypted"}))
        \/ p.traits \cap {"active", "encrypted"} = {} /\ r = Made("none", p)
    BY DEF PdfSanitize
  <2> QED
    BY <2>1, <2>2
<1> QED
  BY <1>1, <1>2, <1>3

\* What the sub-workers of audio and video report; neither takes what has no
\* stream of its kind (workers/audio.py, workers/video.py).
LEMMA MediaResults ==
  ASSUME NEW p \in Payload
  PROVE  /\ \A r \in AudioProbe(p) \cup VideoProbe(p) :
              /\ Sound(r) /\ r.sanitized = None /\ "malformed" \notin p.traits
              /\ "oversized" \in p.traits /\ "undated" \notin p.traits => r.threat = "high"
         /\ \A r \in AudioTags(p) \cup VideoTags(p) : Sound(r) /\ r.sanitized = None
         /\ \A r \in AudioSanitize(p) \cup VideoSanitize(p) :
              /\ Sound(r)
              /\ r = Made("low", Without(p, {"metadata"})) \/ r = Made("low", p)
<1>1. ASSUME NEW r \in AudioProbe(p) \cup VideoProbe(p)
      PROVE  /\ Sound(r) /\ r.sanitized = None /\ "malformed" \notin p.traits
             /\ "oversized" \in p.traits /\ "undated" \notin p.traits => r.threat = "high"
  BY FineAndFound DEF AudioProbe, VideoProbe, ThreatLevel
<1>2. ASSUME NEW r \in AudioTags(p) \cup VideoTags(p)
      PROVE  Sound(r) /\ r.sanitized = None
  BY FineAndFound DEF AudioTags, VideoTags, ThreatLevel
<1>3. ASSUME NEW r \in AudioSanitize(p) \cup VideoSanitize(p)
      PROVE  /\ Sound(r)
             /\ r = Made("low", Without(p, {"metadata"})) \/ r = Made("low", p)
  <2>1. Sound(Made("low", Without(p, {"metadata"}))) /\ Sound(Made("low", p))
    BY MadeIsSound
  <2> QED
    BY <2>1 DEF AudioSanitize, VideoSanitize
<1> QED
  BY <1>1, <1>2, <1>3

\* Whatever a sub-worker reports is sound, and only the last one replaces the
\* payload.
LEMMA ResultsAreSound ==
  ASSUME NEW p \in Raw
  PROVE  /\ Len(Scan(p)) \in 1 .. 3
         /\ \A i \in 1 .. Len(Scan(p)) : \A r \in Scan(p)[i] :
              Sound(r) /\ (i < Len(Scan(p)) => r.sanitized = None)
<1>1. p \in Payload /\ p.modality \in {"text", "image", "pdf", "audio", "video"}
  BY RawIsPayload
<1>2. Text(p) \in Payload
  BY <1>1, TextOf
<1>3. CASE p.modality = "text"
  <2>1. Scan(p) = <<Secrets(Text(p)), Presidio(Text(p))>>
    BY <1>3, ScanOf
  <2>2. /\ \A r \in Secrets(Text(p)) : Sound(r) /\ r.sanitized = None
        /\ \A r \in Presidio(Text(p)) : Sound(r)
    BY <1>2, TextResults
  <2> QED
    BY <2>1, <2>2
<1>4. CASE p.modality = "image"
  <2>1. Scan(p) = <<Image(p)>>
    BY <1>4, ScanOf
  <2>2. \A r \in Image(p) : Sound(r)
    BY <1>1, ImageResults
  <2> QED
    BY <2>1, <2>2
<1>5. CASE p.modality = "pdf"
  <2>1. Scan(p) = <<PdfStructure(p), PdfPages(p), PdfSanitize(p)>>
    BY <1>5, ScanOf
  <2>2. /\ \A r \in PdfStructure(p) : Sound(r) /\ r.sanitized = None
        /\ \A r \in PdfPages(p) : Sound(r) /\ r.sanitized = None
        /\ \A r \in PdfSanitize(p) : Sound(r)
    BY <1>1, PdfResults
  <2> QED
    BY <2>1, <2>2
<1>6. CASE p.modality = "audio"
  <2>1. Scan(p) = <<AudioProbe(p), AudioTags(p), AudioSanitize(p)>>
    BY <1>6, ScanOf
  <2>2. /\ \A r \in AudioProbe(p) : Sound(r) /\ r.sanitized = None
        /\ \A r \in AudioTags(p) : Sound(r) /\ r.sanitized = None
        /\ \A r \in AudioSanitize(p) : Sound(r)
    BY <1>1, MediaResults
  <2> QED
    BY <2>1, <2>2
<1>7. CASE p.modality = "video"
  <2>1. Scan(p) = <<VideoProbe(p), VideoTags(p), VideoSanitize(p)>>
    BY <1>7, ScanOf
  <2>2. /\ \A r \in VideoProbe(p) : Sound(r) /\ r.sanitized = None
        /\ \A r \in VideoTags(p) : Sound(r) /\ r.sanitized = None
        /\ \A r \in VideoSanitize(p) : Sound(r)
    BY <1>1, MediaResults
  <2> QED
    BY <2>1, <2>2
<1> QED
  BY <1>1, <1>3, <1>4, <1>5, <1>6, <1>7

\* So the replacement in the report is the last one's.
LEMMA LastSanitizes ==
  ASSUME NEW rs, DOMAIN rs = 1 .. Len(rs), Len(rs) \in Nat \ {0},
         \A i \in 1 .. Len(rs) : i < Len(rs) => rs[i].sanitized = None
  PROVE  Sanitized(rs) = rs[Len(rs)].sanitized
<1> DEFINE n == Len(rs)
           made == {i \in DOMAIN rs : rs[i].sanitized # None}
<1>1. Sanitized(rs) = IF made = {} THEN None ELSE rs[Min(made)].sanitized
  BY DEF Sanitized
<1>2. n \in DOMAIN rs /\ n \in Nat
  OBVIOUS
<1>3. CASE rs[n].sanitized = None
  <2>1. made = {}
    BY <1>3
  <2> QED
    BY <1>1, <1>3, <2>1
<1>4. CASE rs[n].sanitized # None
  <2>1. made = {n}
    BY <1>2, <1>4
  <2> HIDE DEF made, n
  <2>2. Min({n}) = n
    BY <1>2 DEF Min
  <2> QED
    BY <1>1, <2>1, <2>2 DEF n
<1> QED
  BY <1>3, <1>4

\* The level of the report is that of one result, and none is above it.
LEMMA HighestIsWorst ==
  ASSUME NEW rs, DOMAIN rs = 1 .. Len(rs), Len(rs) \in 1 .. 3,
         \A i \in 1 .. Len(rs) : rs[i].threat \in ThreatLevel
  PROVE  \E i \in 1 .. Len(rs) :
           /\ HighestThreat(rs) = rs[i].threat
           /\ \A j \in 1 .. Len(rs) : Rank[rs[j].threat] <= Rank[rs[i].threat]
<1> DEFINE rank == [i \in 1 .. Len(rs) |-> Rank[rs[i].threat]]
           Worst(r) == \A s \in ToSet(rs) : Rank[s.threat] <= Rank[r.threat]
<1>1. ToSet(rs) = {rs[i] : i \in 1 .. Len(rs)}
  BY DEF ToSet
<1>2. \A i \in 1 .. Len(rs) : rank[i] \in Nat /\ rank[i] = Rank[rs[i].threat]
  BY DEF Rank, ThreatLevel
<1> HIDE DEF rank
<1>3. \E i \in 1 .. Len(rs) : \A j \in 1 .. Len(rs) : rank[j] <= rank[i]
  <2>1. Len(rs) = 1 \/ Len(rs) = 2 \/ Len(rs) = 3
    OBVIOUS
  <2>2. 1 \in 1 .. Len(rs) /\ rank[1] \in Nat
    BY <1>2, <2>1
  <2>3. CASE Len(rs) = 1
    <3>1. \A j \in 1 .. Len(rs) : j = 1
      BY <2>3
    <3>2. \A j \in 1 .. Len(rs) : rank[j] <= rank[1]
      BY <2>2, <3>1
    <3> QED
      BY <2>2, <3>2
  <2>4. CASE Len(rs) \in {2, 3}
    <3>1. 2 \in 1 .. Len(rs) /\ rank[2] \in Nat
      BY <1>2, <2>4
    <3>2. PICK i \in {1, 2} : rank[1] <= rank[i] /\ rank[2] <= rank[i]
      BY <2>2, <3>1
    <3>3. i \in 1 .. Len(rs) /\ rank[i] \in Nat
      BY <2>2, <3>1
    <3>4. CASE Len(rs) = 2
      <4>1. \A j \in 1 .. Len(rs) : j = 1 \/ j = 2
        BY <3>4
      <4>2. \A j \in 1 .. Len(rs) : rank[j] <= rank[i]
        BY <3>2, <4>1
      <4> QED
        BY <3>3, <4>2
    <3>5. CASE Len(rs) = 3
      <4>1. 3 \in 1 .. Len(rs) /\ \A j \in 1 .. Len(rs) : j = 1 \/ j = 2 \/ j = 3
        BY <3>5
      <4>2. rank[3] \in Nat
        BY <1>2, <4>1
      <4>3. CASE rank[3] <= rank[i]
        <5>1. \A j \in 1 .. Len(rs) : rank[j] <= rank[i]
          BY <3>2, <4>1, <4>3
        <5> QED
          BY <3>3, <5>1
      <4>4. CASE rank[i] <= rank[3]
        <5>1. rank[1] <= rank[3] /\ rank[2] <= rank[3]
          BY <2>2, <3>1, <3>2, <3>3, <4>2, <4>4
        <5>2. \A j \in 1 .. Len(rs) : rank[j] <= rank[3]
          BY <4>1, <4>2, <5>1
        <5> QED
          BY <4>1, <5>2
      <4> QED
        BY <3>3, <4>2, <4>3, <4>4
    <3> QED
      BY <2>4, <3>4, <3>5
  <2> QED
    BY <2>1, <2>3, <2>4
<1>4. \E r \in ToSet(rs) : Worst(r)
  <2>1. PICK i \in 1 .. Len(rs) : \A j \in 1 .. Len(rs) : rank[j] <= rank[i]
    BY <1>3
  <2>2. \A j \in 1 .. Len(rs) : Rank[rs[j].threat] <= Rank[rs[i].threat]
    BY <1>2, <2>1
  <2> QED
    BY <1>1, <2>2
<1> DEFINE worst == CHOOSE r \in ToSet(rs) : Worst(r)
<1>5. HighestThreat(rs) = worst.threat
  BY DEF HighestThreat
<1>6. worst \in ToSet(rs) /\ Worst(worst)
  <2> HIDE DEF Worst
  <2> QED
    BY <1>4
<1> HIDE DEF worst
<1>7. PICK i \in 1 .. Len(rs) : worst = rs[i]
  BY <1>1, <1>6
<1>8. \A j \in 1 .. Len(rs) : Rank[rs[j].threat] <= Rank[rs[i].threat]
  BY <1>1, <1>6, <1>7
<1> QED
  BY <1>5, <1>7, <1>8

\* Hence a worker that is not blocked found no threat that blocks; one that is
\* blocked names a reason; and where any result has a threat, the report has.
LEMMA ReportIsWorst ==
  ASSUME NEW p \in Raw, NEW rs, Reported(p, rs),
         Len(rs) = Len(Scan(p))
  PROVE  /\ ~ShouldBlock(Report(rs).threat) =>
              \A i \in 1 .. Len(rs) : rs[i].threat \notin {"high", "critical"}
         /\ ShouldBlock(Report(rs).threat) => Report(rs).reason
         /\ (\E i \in 1 .. Len(rs) : rs[i].threat # "none") =>
              Report(rs).reason /\ Report(rs).threat # "none"
         /\ Report(rs).sanitized = rs[Len(rs)].sanitized
<1>1. /\ Len(rs) \in 1 .. 3 /\ DOMAIN rs = 1 .. Len(rs)
      /\ \A i \in 1 .. Len(rs) : Sound(rs[i]) /\ (i < Len(rs) => rs[i].sanitized = None)
  BY ResultsAreSound DEF Reported
<1>2. \A i \in 1 .. Len(rs) : rs[i].threat \in ThreatLevel /\ rs[i].reason = (rs[i].threat # "none")
  BY <1>1 DEF Sound
<1>3. PICK k \in 1 .. Len(rs) :
        /\ HighestThreat(rs) = rs[k].threat
        /\ \A j \in 1 .. Len(rs) : Rank[rs[j].threat] <= Rank[rs[k].threat]
  BY <1>1, <1>2, HighestIsWorst
<1>4. /\ Report(rs).threat = rs[k].threat
      /\ Report(rs).reason = \E i \in 1 .. Len(rs) : rs[i].reason
      /\ Report(rs).sanitized = rs[Len(rs)].sanitized
  <2>1. Sanitized(rs) = rs[Len(rs)].sanitized
    BY <1>1, LastSanitizes
  <2>2. (\E r \in ToSet(rs) : r.reason) = \E i \in 1 .. Len(rs) : rs[i].reason
    BY <1>1 DEF ToSet
  <2> QED
    BY <1>3, <2>1, <2>2 DEF Report
<1>5. ASSUME NEW i \in 1 .. Len(rs), rs[i].threat \in {"high", "critical"}
      PROVE  ShouldBlock(rs[k].threat)
  <2>1. Rank[rs[i].threat] >= 3 /\ Rank[rs[i].threat] <= Rank[rs[k].threat]
    BY <1>3, <1>5 DEF Rank
  <2> QED
    BY <1>2, <2>1 DEF Rank, ThreatLevel, ShouldBlock
<1>6. ASSUME NEW i \in 1 .. Len(rs), rs[i].threat # "none"
      PROVE  rs[k].threat # "none"
  <2>1. Rank[rs[i].threat] <= Rank[rs[k].threat]
    BY <1>3
  <2>2. rs[i].threat \in {"low", "medium", "high", "critical"}
    BY <1>2, <1>6 DEF ThreatLevel
  <2>3. Rank[rs[i].threat] \in 1 .. 4
    BY <2>2 DEF Rank
  <2>4. Rank["none"] = 0
    BY DEF Rank
  <2> QED
    BY <2>1, <2>3, <2>4
<1>7. ShouldBlock(rs[k].threat) => rs[k].reason
  BY <1>2 DEF ShouldBlock
<1>8. rs[k].threat # "none" => rs[k].reason
  BY <1>2
<1> QED
  BY <1>3, <1>4, <1>5, <1>6, <1>7, <1>8

\* What the stage hands on of payload p: the replacement, or p itself.
Handed(p, s) == IF s = None THEN p ELSE s

\* What PassedIsClean says of a payload as the workers see it, ...
Clean(p) ==
  /\ View(p).traits \cap {"malformed", "encrypted", "locked", "secret", "pii", "active"} = {}
  /\ "oversized" \in View(p).traits => "undated" \in View(p).traits

\* ... and of what the normalizer reads of q, where p came in.
ShowsVeiled(p, q) ==
  \A t \in Read(q).traits \cap {"pii", "secret"} : Veiled[t] \in p.traits

\* Stabilizing shows what was veiled, and no more (core/normalizer/utils.py).
LEMMA StableShows ==
  ASSUME NEW p \in Payload, NEW q \in Payload, q.modality = "text",
         View(q).traits \subseteq p.traits, View(q).traits \cap {"pii", "secret"} = {}
  PROVE  ShowsVeiled(p, q)
<1>1. Text(q) \in Payload /\ View(q) = Text(q)
  BY TextOf DEF View
<1>2. Read(q).traits = Stable(Text(q).traits)
  BY <1>1 DEF Read, Payload
<1> QED
  BY <1>1, <1>2 DEF Stable, Veiled, ShowsVeiled

\* All but text is scanned as it is, and bytes are text as they are.
LEMMA ViewOf ==
  ASSUME NEW p \in Payload
  PROVE  /\ p.modality # "text" => View(p) = p
         /\ p.modality = "text" => View(p) = Text(p)
         /\ p.shape = "value" => View(p) = p
  BY TextOf DEF View

\* A text without secrets is handed on without personal data (workers/text.py).
LEMMA TextIsClean ==
  ASSUME NEW p \in Raw, p.modality = "text",
         NEW first \in Secrets(Text(p)), first.threat \notin {"high", "critical"},
         NEW last \in Presidio(Text(p))
  PROVE  /\ Clean(Handed(p, last.sanitized))
         /\ ShowsVeiled(p, Handed(p, last.sanitized))
         /\ Handed(p, last.sanitized).altered => last.threat # "none"
<1> DEFINE veiled == {"veiled pii", "veiled secret"}
<1>1. /\ p \in Payload /\ p.altered = FALSE /\ p.traits \subseteq {"pii", "secret"} \cup veiled
  BY RawIsPayload
<1>2. /\ Text(p) \in Payload /\ Text(p).traits \subseteq {"pii"} \cup veiled
      /\ Text(p).traits \subseteq p.traits /\ View(p) = Text(p)
      /\ Text(p).modality = "text"
  <2>1. Text(p) \in Payload /\ Text(p).traits \subseteq p.traits /\ Text(p).modality = "text"
    BY <1>1, TextOf
  <2>2. "secret" \notin Text(p).traits
    BY <2>1, TextResults
  <2>3. View(p) = Text(p)
    BY <1>1, ViewOf
  <2> QED
    BY <1>1, <2>1, <2>2, <2>3
<1>3. CASE "pii" \in Text(p).traits
  <2> DEFINE q == Without(Text(p), {"pii"})
             h == last.sanitized
  <2>1. last = Made("medium", q)
    BY <1>2, <1>3, TextResults
  <2>2. q \in Payload /\ q.traits = Text(p).traits \ {"pii"} /\ q.modality = "text"
    BY <1>2, WithoutIsPayload
  <2> HIDE DEF q
  <2>3. /\ last.threat = "medium" /\ h # None /\ h \in Payload
        /\ h.traits = q.traits /\ h.shape = "value" /\ h.modality = "text"
    BY <2>1, <2>2, MadeIsPayload
  <2>4. View(h) = h /\ h.traits \subseteq veiled /\ h.traits \subseteq p.traits
    BY <1>2, <2>2, <2>3, ViewOf
  <2>5. View(h).traits \subseteq {"veiled pii", "veiled secret"}
    BY <2>4
  <2> HIDE DEF h
  <2>6. Clean(h)
    BY <2>5 DEF Clean
  <2>7. ShowsVeiled(p, h)
    BY <1>1, <2>3, <2>4, <2>5, StableShows DEF h
  <2> QED
    BY <2>3, <2>6, <2>7 DEF Handed, h
<1>4. CASE "pii" \notin Text(p).traits
  <2>1. last.sanitized = None
    BY <1>2, <1>4, TextResults, FineAndFound
  <2>2. View(p).traits \subseteq veiled /\ View(p).traits \subseteq p.traits
    BY <1>2, <1>4
  <2>3. Clean(p)
    BY <2>2 DEF Clean
  <2>4. ShowsVeiled(p, p)
    BY <1>1, <2>2, StableShows
  <2> QED
    BY <1>1, <2>1, <2>3, <2>4 DEF Handed
<1> QED
  BY <1>3, <1>4

\* Any other replacement is what a worker would scan again.
LEMMA MadeIsHanded ==
  ASSUME NEW p \in Payload, p.modality # "text", NEW q \in Payload,
         NEW threat, NEW r, r = Made(threat, p)
  PROVE  /\ Handed(q, r.sanitized).altered = p.altered /\ r.threat = threat
         /\ View(Handed(q, r.sanitized)).traits = p.traits
<1>1. /\ r.threat = threat /\ r.sanitized # None /\ r.sanitized \in Payload
      /\ r.sanitized.traits = p.traits /\ r.sanitized.altered = p.altered
      /\ r.sanitized.modality = p.modality
  BY MadeIsPayload
<1>2. View(r.sanitized) = r.sanitized
  BY <1>1, ViewOf
<1> QED
  BY <1>1, <1>2 DEF Handed

\* An image that opens within the limits (workers/image.py).
LEMMA ImageIsClean ==
  ASSUME NEW p \in Raw, p.modality = "image", NEW r \in Image(p)
  PROVE  Clean(Handed(p, r.sanitized)) /\ (Handed(p, r.sanitized).altered => r.threat # "none")
<1>1. /\ p \in Payload /\ p.altered = FALSE
      /\ p.traits \subseteq {"malformed", "oversized", "metadata"}
  BY RawIsPayload
<1>2. /\ p.traits \cap {"malformed", "oversized"} = {}
      /\ r = Made("none", p) \/ r = Made("low", Without(p, {"metadata"}))
  BY <1>1, ImageResults
<1>3. CASE r = Made("none", p)
  <2>1. Handed(p, r.sanitized).altered = FALSE /\ View(Handed(p, r.sanitized)).traits = p.traits
    BY <1>1, <1>3, MadeIsHanded
  <2> QED
    BY <1>1, <1>2, <2>1 DEF Clean
<1>4. CASE r = Made("low", Without(p, {"metadata"}))
  <2> DEFINE q == Without(p, {"metadata"})
  <2>1. q \in Payload /\ q.modality # "text" /\ q.traits = p.traits \ {"metadata"}
    BY <1>1, WithoutIsPayload
  <2>2. r.threat = "low" /\ View(Handed(p, r.sanitized)).traits = q.traits
    BY <1>1, <1>4, <2>1, MadeIsHanded
  <2> QED
    BY <1>1, <1>2, <2>1, <2>2 DEF Clean
<1> QED
  BY <1>2, <1>3, <1>4

\* A PDF that opens, within the limits, without the active content the walk
\* comes to (workers/pdf.py).
LEMMA PdfIsClean ==
  ASSUME NEW p \in Raw, p.modality = "pdf",
         NEW first \in PdfStructure(p), first.threat # "high",
         NEW second \in PdfPages(p), second.threat # "high",
         NEW last \in PdfSanitize(p)
  PROVE  /\ Clean(Handed(p, last.sanitized))
         /\ Handed(p, last.sanitized).altered => last.threat # "none"
<1>1. /\ p \in Payload /\ p.altered = FALSE
      /\ p.traits \subseteq {"malformed", "encrypted", "locked", "oversized", "active", "buried"}
  BY RawIsPayload
<1>2. p.traits \subseteq {"active", "buried"}
  <2>1. "malformed" \notin p.traits /\ p.traits \cap {"encrypted", "locked"} = {}
    BY <1>1, PdfResults
  <2>2. "oversized" \notin p.traits
    BY <1>1, PdfResults
  <2> QED
    BY <1>1, <2>1, <2>2
<1>3. CASE last = Made("medium", Without(p, {"active", "encrypted"}))
  <2> DEFINE q == Without(p, {"active", "encrypted"})
  <2>1. q \in Payload /\ q.modality # "text" /\ q.traits = p.traits \ {"active", "encrypted"}
    BY <1>1, WithoutIsPayload
  <2>2. last.threat = "medium" /\ View(Handed(p, last.sanitized)).traits = q.traits
    BY <1>1, <1>3, <2>1, MadeIsHanded
  <2>3. q.traits \subseteq {"buried"}
    BY <1>2, <2>1
  <2> QED
    BY <2>2, <2>3 DEF Clean
<1>4. CASE "active" \notin p.traits /\ last = Made("low", Without(p, {"encrypted"}))
  <2> DEFINE q == Without(p, {"encrypted"})
  <2>1. q \in Payload /\ q.modality # "text" /\ q.traits = p.traits \ {"encrypted"}
    BY <1>1, WithoutIsPayload
  <2>2. last.threat = "low" /\ View(Handed(p, last.sanitized)).traits = q.traits
    BY <1>1, <1>4, <2>1, MadeIsHanded
  <2>3. q.traits \subseteq {"buried"}
    BY <1>2, <1>4, <2>1
  <2> QED
    BY <2>2, <2>3 DEF Clean
<1>5. CASE p.traits \cap {"active", "encrypted"} = {} /\ last = Made("none", p)
  <2>1. Handed(p, last.sanitized).altered = FALSE /\ View(Handed(p, last.sanitized)).traits = p.traits
    BY <1>1, <1>5, MadeIsHanded
  <2>2. p.traits \subseteq {"buried"}
    BY <1>2, <1>5
  <2> QED
    BY <2>1, <2>2 DEF Clean
<1> QED
  BY <1>1, <1>3, <1>4, <1>5, PdfResults

\* Audio and video of a valid container, within the limits as far as it states
\* a duration (workers/audio.py, workers/video.py).
LEMMA MediaIsClean ==
  ASSUME NEW p \in Raw, p.modality \in {"audio", "video"},
         NEW first \in AudioProbe(p) \cup VideoProbe(p), first.threat # "high",
         NEW last \in AudioSanitize(p) \cup VideoSanitize(p)
  PROVE  Clean(Handed(p, last.sanitized)) /\ last.threat # "none"
<1>1. /\ p \in Payload /\ p.modality # "text"
      /\ p.traits \subseteq {"malformed", "oversized", "undated", "metadata"}
  BY RawIsPayload
<1>2. /\ "malformed" \notin p.traits
      /\ "oversized" \in p.traits => "undated" \in p.traits
  BY <1>1, MediaResults
<1> DEFINE q == Without(p, {"metadata"})
<1>3. q \in Payload /\ q.modality # "text" /\ q.traits = p.traits \ {"metadata"}
  BY <1>1, WithoutIsPayload
<1>4. last = Made("low", q) \/ last = Made("low", p)
  BY <1>1, MediaResults
<1> HIDE DEF q
<1>5. /\ last.threat = "low"
      /\ \/ View(Handed(p, last.sanitized)).traits = q.traits
         \/ View(Handed(p, last.sanitized)).traits = p.traits
  BY <1>1, <1>3, <1>4, MadeIsHanded
<1>6. CASE View(Handed(p, last.sanitized)).traits = q.traits
  BY <1>1, <1>2, <1>3, <1>5, <1>6 DEF Clean
<1>7. CASE View(Handed(p, last.sanitized)).traits = p.traits
  BY <1>1, <1>2, <1>5, <1>7 DEF Clean
<1> QED
  BY <1>5, <1>6, <1>7

\* Of any modality: what is handed on unless a threat blocks is clean, and what
\* is altered has a threat to show for it (runner.py:109-150).
LEMMA HandedIsClean ==
  ASSUME NEW p \in Raw, NEW rs, Reported(p, rs),
         Len(rs) = Len(Scan(p)),
         \A i \in 1 .. Len(rs) : rs[i].threat \notin {"high", "critical"}
  PROVE  /\ Clean(Handed(p, rs[Len(rs)].sanitized))
         /\ p.modality = "text" => ShowsVeiled(p, Handed(p, rs[Len(rs)].sanitized))
         /\ Handed(p, rs[Len(rs)].sanitized).altered => rs[Len(rs)].threat # "none"
<1>1. p.modality \in {"text", "image", "pdf", "audio", "video"}
  BY RawIsPayload
<1>2. \A i \in 1 .. Len(rs) : rs[i] \in Scan(p)[i]
  BY DEF Reported
<1>3. CASE p.modality = "text"
  <2>1. Scan(p) = <<Secrets(Text(p)), Presidio(Text(p))>>
    BY <1>3, ScanOf
  <2>2. Len(rs) = 2 /\ 1 \in 1 .. Len(rs) /\ 2 \in 1 .. Len(rs)
    BY <2>1
  <2>3. rs[1] \in Secrets(Text(p)) /\ rs[2] \in Presidio(Text(p))
    BY <1>2, <2>1, <2>2
  <2> QED
    BY <1>3, <2>2, <2>3, TextIsClean
<1>4. CASE p.modality = "image"
  <2>1. Scan(p) = <<Image(p)>>
    BY <1>4, ScanOf
  <2>2. Len(rs) = 1 /\ 1 \in 1 .. Len(rs)
    BY <2>1
  <2>3. rs[1] \in Image(p)
    BY <1>2, <2>1, <2>2
  <2> QED
    BY <1>4, <2>2, <2>3, ImageIsClean
<1>5. CASE p.modality = "pdf"
  <2>1. Scan(p) = <<PdfStructure(p), PdfPages(p), PdfSanitize(p)>>
    BY <1>5, ScanOf
  <2>2. Len(rs) = 3 /\ 1 \in 1 .. Len(rs) /\ 2 \in 1 .. Len(rs) /\ 3 \in 1 .. Len(rs)
    BY <2>1
  <2>3. rs[1] \in PdfStructure(p) /\ rs[2] \in PdfPages(p) /\ rs[3] \in PdfSanitize(p)
    BY <1>2, <2>1, <2>2
  <2> QED
    BY <1>5, <2>2, <2>3, PdfIsClean
<1>6. CASE p.modality = "audio"
  <2>1. Scan(p) = <<AudioProbe(p), AudioTags(p), AudioSanitize(p)>>
    BY <1>6, ScanOf
  <2>2. Len(rs) = 3 /\ 1 \in 1 .. Len(rs) /\ 3 \in 1 .. Len(rs)
    BY <2>1
  <2>3. rs[1] \in AudioProbe(p) /\ rs[3] \in AudioSanitize(p)
    BY <1>2, <2>1, <2>2
  <2> QED
    BY <1>6, <2>2, <2>3, MediaIsClean
<1>7. CASE p.modality = "video"
  <2>1. Scan(p) = <<VideoProbe(p), VideoTags(p), VideoSanitize(p)>>
    BY <1>7, ScanOf
  <2>2. Len(rs) = 3 /\ 1 \in 1 .. Len(rs) /\ 3 \in 1 .. Len(rs)
    BY <2>1
  <2>3. rs[1] \in VideoProbe(p) /\ rs[3] \in VideoSanitize(p)
    BY <1>2, <2>1, <2>2
  <2> QED
    BY <1>7, <2>2, <2>3, MediaIsClean
<1> QED
  BY <1>1, <1>3, <1>4, <1>5, <1>6, <1>7

---------------------------------------------------------------------------

\* The inductive invariant of a worker: what is reported comes from the
\* sub-workers in their order, and a worker ends with the report of them all.
ScanInv ==
  /\ raw \in Raw
  /\ results \in Seq(UNION {Scan(raw)[i] : i \in 1 .. Len(Scan(raw))})
  /\ Reported(raw, results)
  /\ outcome \in {"scanning", "raised", "blocked", "passed"}
  /\ outcome \in {"blocked", "passed"} =>
       Len(results) = Len(Scan(raw)) /\ report = Report(results)
  /\ outcome = "blocked" => ShouldBlock(report.threat)
  /\ outcome = "passed" => ~ShouldBlock(report.threat) /\ handed = Handed(raw, report.sanitized)

\* A worker starts with nothing reported.
LEMMA ScanStarts ==
  ASSUME ScanInit
  PROVE  ScanInv
<1>1. raw \in Raw /\ results = <<>> /\ outcome = "scanning"
  BY DEF ScanInit
<1>2. Len(Scan(raw)) \in 1 .. 3
  BY <1>1, ResultsAreSound
<1>3. Reported(raw, <<>>)
  BY <1>2 DEF Reported
<1> QED
  BY <1>1, <1>3 DEF ScanInv

\* A sub-worker appends its result.
LEMMA SubWorkerKeeps ==
  ASSUME ScanInv, SubWorker
  PROVE  ScanInv'
<1> DEFINE S == UNION {Scan(raw)[i] : i \in 1 .. Len(Scan(raw))}
           n == Len(results)
<1>1. /\ outcome = "scanning" /\ Len(results) < Len(Scan(raw))
      /\ raw' = raw /\ outcome' = outcome /\ report' = report /\ handed' = handed
  BY DEF SubWorker
<1>2. PICK r \in Scan(raw)[n + 1] : results' = Append(results, r)
  BY DEF SubWorker
<1>3. raw \in Raw /\ results \in Seq(S) /\ Reported(raw, results)
  BY DEF ScanInv
<1>4. Len(Scan(raw)) \in 1 .. 3
  BY <1>3, ResultsAreSound
<1>5. n \in Nat /\ n + 1 \in 1 .. Len(Scan(raw)) /\ n + 1 <= Len(Scan(raw))
  BY <1>1, <1>3, <1>4, LenProperties
<1>6. r \in S
  BY <1>5
<1> HIDE DEF S
<1>7. /\ results' \in Seq(S) /\ Len(results') = n + 1
      /\ \A i \in 1 .. n : results'[i] = results[i]
      /\ results'[n + 1] = r
  BY <1>2, <1>3, <1>6, AppendProperties
<1>8. DOMAIN results' = 1 .. n + 1
  BY <1>7, LenProperties
<1>9. ASSUME NEW i \in 1 .. n + 1 PROVE results'[i] \in Scan(raw)[i]
  <2>1. CASE i = n + 1
    BY <1>7, <2>1
  <2>2. CASE i # n + 1
    <3>1. i \in 1 .. n
      BY <1>5, <2>2
    <3> QED
      BY <1>3, <1>7, <3>1 DEF Reported
  <2> QED
    BY <2>1, <2>2
<1>10. Reported(raw, results')
  <2> HIDE DEF n
  <2> QED
    BY <1>5, <1>7, <1>8, <1>9 DEF Reported
<1>11. Reported(raw, results)'
  BY <1>1, <1>10 DEF Reported
<1> QED
  BY <1>1, <1>3, <1>7, <1>11 DEF ScanInv, S

\* An exception leaves what was reported and ends the scan.
LEMMA RaisesKeeps ==
  ASSUME ScanInv, Raises
  PROVE  ScanInv'
<1>1. raw' = raw /\ results' = results /\ outcome' = "raised"
  BY DEF Raises
<1>2. Reported(raw, results)'
  BY <1>1 DEF ScanInv, Reported
<1> QED
  BY <1>1, <1>2 DEF ScanInv

\* The runner takes the report (runner.py:109-150).
LEMMA MergeKeeps ==
  ASSUME ScanInv, Merge
  PROVE  ScanInv'
<1>1. /\ raw' = raw /\ results' = results /\ Len(results) = Len(Scan(raw))
      /\ report' = Report(results)
  BY DEF Merge
<1>2. \/ outcome' = "blocked" /\ ShouldBlock(report'.threat)
      \/ /\ outcome' = "passed" /\ ~ShouldBlock(report'.threat)
         /\ handed' = Handed(raw, report'.sanitized)
  BY <1>1 DEF Merge, Handed
<1>3. Reported(raw, results)'
  BY <1>1 DEF ScanInv, Reported
<1>4. Len(results') = Len(Scan(raw')) /\ report' = Report(results') /\ handed' = handed'
  BY <1>1
<1> QED
  BY <1>1, <1>2, <1>3, <1>4 DEF ScanInv

\* Every step keeps the invariant.
LEMMA ScanStep ==
  ASSUME ScanInv, [ScanNext]_scanVars
  PROVE  ScanInv'
<1>1. CASE SubWorker
  BY <1>1, SubWorkerKeeps
<1>2. CASE Raises
  BY <1>2, RaisesKeeps
<1>3. CASE Merge
  BY <1>3, MergeKeeps
<1>4. CASE UNCHANGED scanVars
  BY <1>4 DEF scanVars, ScanInv, Reported
<1> QED
  BY <1>1, <1>2, <1>3, <1>4 DEF ScanNext

\* What the scan can find does not pass, whichever library fails: what the
\* stage hands on is, as a worker sees it, well formed, within its limits as far
\* as they can be known, without secrets, personal data, encryption or active
\* content the walk comes to, and what shows when it is stabilized was veiled in
\* the text that came in (workers/*.py, runner.py:109-150).
THEOREM HandedOnIsClean == ScanSpec => []PassedIsClean
<1>1. ScanInit => ScanInv
  BY ScanStarts
<1>2. ScanInv /\ [ScanNext]_scanVars => ScanInv'
  BY ScanStep
<1>3. ScanInv => PassedIsClean
  <2> SUFFICES ASSUME ScanInv, outcome = "passed"
               PROVE  Clean(handed) /\ (raw.modality = "text" => ShowsVeiled(raw, handed))
    BY DEF PassedIsClean, Clean, ShowsVeiled
  <2>1. /\ raw \in Raw /\ Reported(raw, results) /\ Len(results) = Len(Scan(raw))
        /\ ~ShouldBlock(Report(results).threat)
        /\ handed = Handed(raw, Report(results).sanitized)
    BY DEF ScanInv
  <2>2. /\ \A i \in 1 .. Len(results) : results[i].threat \notin {"high", "critical"}
        /\ handed = Handed(raw, results[Len(results)].sanitized)
    BY <2>1, ReportIsWorst
  <2> QED
    BY <2>1, <2>2, HandedIsClean
<1> QED
  BY <1>1, <1>2, <1>3, PTL DEF ScanSpec

\* A blocked turn names a reason, and the bytes of a turn that passes are not
\* changed without a reason and a threat in the report (runner.py:132-150).
THEOREM ReportsExplain == ScanSpec => []Explained
<1>1. ScanInit => ScanInv
  BY ScanStarts
<1>2. ScanInv /\ [ScanNext]_scanVars => ScanInv'
  BY ScanStep
<1>3. ScanInv => Explained
  <2> SUFFICES ASSUME ScanInv PROVE Explained
    OBVIOUS
  <2>1. raw \in Raw /\ Reported(raw, results)
    BY DEF ScanInv
  <2>2. ASSUME outcome = "blocked" PROVE report.reason
    <3>1. Len(results) = Len(Scan(raw)) /\ report = Report(results) /\ ShouldBlock(report.threat)
      BY <2>2 DEF ScanInv
    <3> QED
      BY <2>1, <3>1, ReportIsWorst
  <2>3. ASSUME outcome = "passed", handed.altered PROVE report.reason /\ report.threat # "none"
    <3>1. /\ Len(results) = Len(Scan(raw)) /\ report = Report(results)
          /\ ~ShouldBlock(report.threat) /\ handed = Handed(raw, report.sanitized)
      BY <2>3 DEF ScanInv
    <3>2. /\ \A i \in 1 .. Len(results) : results[i].threat \notin {"high", "critical"}
          /\ report.sanitized = results[Len(results)].sanitized
      BY <2>1, <3>1, ReportIsWorst
    <3>3. results[Len(results)].threat # "none"
      BY <2>1, <2>3, <3>1, <3>2, HandedIsClean
    <3>4. Len(results) \in 1 .. Len(results)
      <4>1. Len(Scan(raw)) \in 1 .. 3
        BY <2>1, ResultsAreSound
      <4> QED
        BY <3>1, <4>1
    <3> QED
      BY <2>1, <3>1, <3>3, <3>4, ReportIsWorst
  <2> QED
    BY <2>2, <2>3 DEF Explained
<1> QED
  BY <1>1, <1>2, <1>3, PTL DEF ScanSpec
=============================================================================
