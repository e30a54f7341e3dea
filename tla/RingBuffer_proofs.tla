-------------------------- MODULE RingBuffer_proofs --------------------------
(***************************************************************************)
(* Proofs about RingBuffer for a pool of any size with one taker, as the    *)
(* driver would have.                                                       *)
(***************************************************************************)
EXTENDS RingBuffer, TLAPS

OneTaker == \A t, u \in Takers : t = u

(* The buffer so many places after `from', at most once around.             *)
After(from, n) == IF from + n < RBUF_MAXSIZE THEN from + n ELSE from + n - RBUF_MAXSIZE

(* BuffersOwn is not inductive: the buffers in use are those from next_in   *)
(* on, as many as the size says are missing, up to next_out; and a taker    *)
(* that has passed the test still finds one.                                *)
PoolInv ==
  /\ rb \in [size : 0 .. RBUF_MAXSIZE, next_in : 0 .. RBUF_MAXSIZE - 1,
             next_out : 0 .. RBUF_MAXSIZE - 1]
  /\ taker \in [Takers -> {"out", "test", "waiting", "lock"}]
  /\ used \in Seq(0 .. RBUF_MAXSIZE - 1)
  /\ rb.size = RBUF_MAXSIZE - Len(used)
  /\ rb.next_out = After(rb.next_in, Len(used))
  /\ \A i \in 1 .. Len(used) : used[i] = After(rb.next_in, i - 1)
  /\ \A t \in Takers : taker[t] = "lock" => rb.size > 0

(* Counting on by one, around the ring.                                     *)
LEMMA CountOn ==
  ASSUME NEW i \in 0 .. RBUF_MAXSIZE - 1
  PROVE  /\ (i + 1) % RBUF_MAXSIZE = After(i, 1)
         /\ After(i, 1) \in 0 .. RBUF_MAXSIZE - 1
<1>1. CASE i + 1 < RBUF_MAXSIZE
  BY <1>1, PoolAssumption DEF After
<1>2. CASE i + 1 = RBUF_MAXSIZE
  BY <1>2, PoolAssumption DEF After
<1>3. QED
  BY <1>1, <1>2, PoolAssumption

(* Going around: no place comes twice, and one place after another.         *)
LEMMA AfterFacts ==
  ASSUME NEW from \in 0 .. RBUF_MAXSIZE - 1
  PROVE  /\ \A n \in 0 .. RBUF_MAXSIZE - 1 :
              /\ After(from, n) \in 0 .. RBUF_MAXSIZE - 1
              /\ After(After(from, n), 1) = After(from, n + 1)
              /\ After(After(from, 1), n) = After(from, n + 1)
         /\ \A m, n \in 0 .. RBUF_MAXSIZE - 1 :
              After(from, m) = After(from, n) => m = n
         /\ After(from, 0) = from
BY PoolAssumption DEF After

(* The places in use are consecutive, so no two are the same.               *)
LEMMA PoolOwn == PoolInv => BuffersOwn
<1> SUFFICES ASSUME PoolInv PROVE BuffersOwn
  OBVIOUS
<1>1. DOMAIN used = 1 .. Len(used) /\ Len(used) \in 0 .. RBUF_MAXSIZE
  BY PoolAssumption DEF PoolInv
<1>2. ASSUME NEW i \in DOMAIN used, NEW j \in DOMAIN used, used[i] = used[j]
      PROVE  i = j
  <2>1. /\ i - 1 \in 0 .. RBUF_MAXSIZE - 1 /\ j - 1 \in 0 .. RBUF_MAXSIZE - 1
        /\ i \in Int /\ j \in Int
    BY <1>1, PoolAssumption
  <2>2. rb.next_in \in 0 .. RBUF_MAXSIZE - 1
    BY DEF PoolInv
  <2>3. After(rb.next_in, i - 1) = After(rb.next_in, j - 1)
    BY <1>1, <1>2 DEF PoolInv
  <2>4. i - 1 = j - 1
    BY <2>1, <2>2, <2>3, AfterFacts
  <2>5. QED
    BY <2>1, <2>4
<1>3. used # <<>> => Head(used) = rb.next_in
  <2>1. SUFFICES ASSUME used # <<>> PROVE Head(used) = rb.next_in
    OBVIOUS
  <2>2. Len(used) > 0 /\ Head(used) = used[1]
    BY <2>1 DEF PoolInv
  <2>3. used[1] = After(rb.next_in, 0)
    BY <1>1, <2>2 DEF PoolInv
  <2>4. QED
    BY <2>2, <2>3, PoolAssumption DEF PoolInv, After
<1>4. QED
  BY <1>2, <1>3 DEF BuffersOwn, PoolInv

(* The whole pool is free at the start.                                     *)
LEMMA PoolStart == PoolInit => PoolInv
BY PoolAssumption DEF PoolInit, PoolInv, After

(* get and enqueue move one place on, around the ring.                      *)
LEMMA PoolStep ==
  ASSUME OneTaker, PoolInv, [PoolNext]_poolVars
  PROVE  PoolInv'
<1> USE PoolAssumption DEF PoolInv
<1>1. CASE UNCHANGED poolVars
  BY <1>1 DEF poolVars
<1>2. ASSUME NEW t \in Takers, Call(t) \/ Test(t) \/ Woken(t)
      PROVE  PoolInv'
  BY <1>2 DEF Call, Test, Woken, At, rbuf_empty
<1>3. ASSUME NEW t \in Takers, Take(t) PROVE PoolInv'
  <2>1. /\ taker[t] = "lock" /\ rb.size > 0
        /\ taker' = [taker EXCEPT ![t] = "out"]
        /\ used' = Append(used, rb.next_out)
        /\ rb' = [rb EXCEPT !.size = rb.size - 1,
                            !.next_out = (rb.next_out + 1) % RBUF_MAXSIZE]
    BY <1>3 DEF Take, At
  <2>2. \A u \in Takers : taker'[u] # "lock"
    BY <2>1 DEF OneTaker
  <2>3. /\ used' \in Seq(0 .. RBUF_MAXSIZE - 1) /\ Len(used') = Len(used) + 1
        /\ \A i \in 1 .. Len(used) : used'[i] = used[i]
        /\ used'[Len(used) + 1] = rb.next_out
    BY <2>1
  <2>4. rb'.next_out = After(rb.next_out, 1)
    BY <2>1, CountOn
  <2>5. /\ rb'.size = rb.size - 1 /\ rb'.next_in = rb.next_in
        /\ rb' = [size |-> rb'.size, next_in |-> rb'.next_in, next_out |-> rb'.next_out]
    BY <2>1
  <2>a. /\ rb.next_in \in 0 .. RBUF_MAXSIZE - 1 /\ Len(used) \in 0 .. RBUF_MAXSIZE - 1
        /\ rb.next_out \in 0 .. RBUF_MAXSIZE - 1
    BY <2>1
  <2>6. After(rb.next_out, 1) = After(rb.next_in, Len(used) + 1)
        /\ After(rb.next_out, 1) \in 0 .. RBUF_MAXSIZE - 1
    <3>1. After(After(rb.next_in, Len(used)), 1) = After(rb.next_in, Len(used) + 1)
      BY <2>a, AfterFacts
    <3>2. After(rb.next_out, 1) \in 0 .. RBUF_MAXSIZE - 1
      BY <2>a, CountOn
    <3>3. QED
      BY <3>1, <3>2
  <2>7. ASSUME NEW i \in 1 .. Len(used')
        PROVE  used'[i] = After(rb'.next_in, i - 1)
    <3>1. CASE i \in 1 .. Len(used)
      BY <3>1, <2>3, <2>5
    <3>2. CASE i = Len(used) + 1
      <4>1. i - 1 = Len(used)
        BY <3>2, <2>a
      <4>2. QED
        BY <3>2, <4>1, <2>3, <2>5
    <3>3. QED
      BY <3>1, <3>2, <2>3, <2>a
  <2>8. QED
    BY <2>1, <2>2, <2>3, <2>4, <2>5, <2>6, <2>7
<1>4. CASE rbuf_enqueue
  <2>1. /\ used # <<>> /\ used' = Tail(used) /\ taker' = taker
        /\ rb' = [rb EXCEPT !.size = rb.size + 1,
                            !.next_in = (rb.next_in + 1) % RBUF_MAXSIZE]
    BY <1>4 DEF rbuf_enqueue
  <2>2. /\ used' \in Seq(0 .. RBUF_MAXSIZE - 1)
        /\ Len(used') = Len(used) - 1 /\ Len(used) > 0
        /\ \A i \in 1 .. Len(used') : used'[i] = used[i + 1]
    BY <2>1
  <2>3. rb'.next_in = After(rb.next_in, 1)
    BY <2>1, CountOn
  <2>4. /\ rb'.size = rb.size + 1 /\ rb'.next_out = rb.next_out
        /\ rb' = [size |-> rb'.size, next_in |-> rb'.next_in, next_out |-> rb'.next_out]
    BY <2>1
  <2>a. /\ rb.next_in \in 0 .. RBUF_MAXSIZE - 1 /\ Len(used) \in 1 .. RBUF_MAXSIZE
        /\ Len(used) - 1 \in 0 .. RBUF_MAXSIZE - 1
    BY <2>2
  <2>5. ASSUME NEW i \in 1 .. Len(used')
        PROVE  used'[i] = After(rb'.next_in, i - 1)
    <3>1. i - 1 \in 0 .. RBUF_MAXSIZE - 1 /\ i + 1 \in 1 .. Len(used) /\ (i - 1) + 1 = i
          /\ (i + 1) - 1 = i
      BY <2>a, <2>2
    <3>2. After(After(rb.next_in, 1), i - 1) = After(rb.next_in, i)
      BY <3>1, <2>a, AfterFacts
    <3>3. used[i + 1] = After(rb.next_in, i)
      BY <3>1
    <3>4. QED
      BY <3>2, <3>3, <2>2, <2>3
  <2>6. /\ After(rb.next_in, 1) \in 0 .. RBUF_MAXSIZE - 1
        /\ rb.next_out = After(After(rb.next_in, 1), Len(used) - 1)
    <3>1. (Len(used) - 1) + 1 = Len(used)
      BY <2>a
    <3>2. After(After(rb.next_in, 1), Len(used) - 1) = After(rb.next_in, Len(used))
      BY <3>1, <2>a, AfterFacts
    <3>3. After(rb.next_in, 1) \in 0 .. RBUF_MAXSIZE - 1
      BY <2>a, CountOn
    <3>4. QED
      BY <3>2, <3>3
  <2>8. QED
    BY <2>1, <2>2, <2>3, <2>4, <2>5, <2>6
<1>5. QED
  BY <1>1, <1>2, <1>3, <1>4 DEF PoolNext

(* No buffer has two owners and the one counted as free is the one that     *)
(* came back, in a pool of any size, although its size is tested before the *)
(* lock is taken (ringbuffer.c:41-54).                                      *)
THEOREM NoBufferTwice ==
  ASSUME OneTaker
  PROVE  PoolSpec => []BuffersOwn
<1>1. PoolInv /\ [PoolNext]_poolVars => PoolInv'
  BY PoolStep
<1>2. QED
  BY <1>1, PoolStart, PoolOwn, PTL DEF PoolSpec
=============================================================================
