----------------------------- MODULE RingBuffer -----------------------------
(***************************************************************************)
(* ringbuffer.c: the pool of receive buffers that is built into the driver.  *)
(* A taker gets the buffer at next_out; rbuf_enqueue is not told which       *)
(* buffer comes back and counts next_in on.  The size is tested without the  *)
(* lock, so the test and the taking are two steps; what is done under the    *)
(* lock is one.  The clients are external: main.c has their calls in         *)
(* comments (483, 501, 870); a reception takes, and a work queue of one      *)
(* thread (1005), which runs the works in their order, gives back.           *)
(***************************************************************************)
EXTENDS Integers, Sequences

CONSTANTS Takers, RBUF_MAXSIZE

ASSUME PoolAssumption == RBUF_MAXSIZE \in Nat \ {0}

VARIABLES
  rb,         \* size, next_in, next_out
  taker,      \* where a taker is: out, at the test, waiting, before the lock
  used        \* the buffers that clients have, the one taken first in front

poolVars == <<rb, taker, used>>

PoolInit ==
  /\ rb = [size |-> RBUF_MAXSIZE, next_in |-> 0, next_out |-> 0]
  /\ taker = [t \in Takers |-> "out"] /\ used = <<>>

At(t, pc) == taker' = [taker EXCEPT ![t] = pc]
rbuf_empty   == rb.size = 0

(* rbuf_get_avail_msg                                                        *)
Call(t) == taker[t] = "out" /\ At(t, "test") /\ UNCHANGED <<rb, used>>
TestHasty(t) ==                     \* wrong: says that it is empty, and goes on
  /\ taker[t] = "test" /\ At(t, "lock")
  /\ UNCHANGED <<rb, used>>
Test(t) ==
  /\ taker[t] = "test" /\ At(t, IF rbuf_empty THEN "waiting" ELSE "lock")
  /\ UNCHANGED <<rb, used>>
Woken(t) ==
  /\ taker[t] = "waiting" /\ ~rbuf_empty /\ At(t, "lock")
  /\ UNCHANGED <<rb, used>>
Take(t) ==
  /\ taker[t] = "lock" /\ At(t, "out")
  /\ used' = Append(used, rb.next_out)
  /\ rb' = [rb EXCEPT !.size = @ - 1, !.next_out = (@ + 1) % RBUF_MAXSIZE]

rbuf_enqueue ==
  /\ used # <<>> /\ used' = Tail(used)
  /\ rb' = [rb EXCEPT !.size = @ + 1, !.next_in = (@ + 1) % RBUF_MAXSIZE]
  /\ UNCHANGED taker

PoolNext == \/ \E t \in Takers : Call(t) \/ Test(t) \/ Woken(t) \/ Take(t)
            \/ rbuf_enqueue
PoolSpec == PoolInit /\ [][PoolNext]_poolVars

-----------------------------------------------------------------------------
(* No buffer is given out while a client still has it, and the one that      *)
(* rbuf_enqueue counts as free is the one that came back, although the size  *)
(* is tested before the lock is taken (ringbuffer.c:41-54): with one taker,  *)
(* as the driver would have, nobody takes in between.                        *)
BuffersOwn ==
  /\ \A i, j \in DOMAIN used : used[i] = used[j] => i = j
  /\ used # <<>> => Head(used) = rb.next_in
  /\ rb.size = RBUF_MAXSIZE - Len(used)
=============================================================================
