------------------------------- MODULE Console -------------------------------
(***************************************************************************)
(* console.c: the two buffers between the device and the threads.  Each    *)
(* character is the number of its place in the stream, so that one that is *)
(* lost, doubled or moved shows; characters typed are numbered above every *)
(* code and error a system call can return.                                *)
(***************************************************************************)
EXTENDS Scheduler

CONSTANT CONSOLE_BUFFER_SIZE   \* 1024 characters in the build

ASSUME ConsoleAssumption == CONSOLE_BUFFER_SIZE \in Nat \ {0}

\* The i-th character typed since boot.
char(i) == 100 + i

-----------------------------------------------------------------------------
(* Output.                                                                 *)

\* Mutant: the characters that were sent stay in front.
unsent_unshifted(n) == SubSeq(console_send_buffer, 1, Len(console_send_buffer) - n)

\* The buffer once __console_send has moved the rest down.
unsent(n) == SubSeq(console_send_buffer, n + 1, Len(console_send_buffer))

\* What the device may take of the buffer.
sendable == 0 .. Len(console_send_buffer)

last_sent(n) == IF n = 0 THEN tx_data ELSE console_send_buffer[n]

\* Mutant: nothing is sent.
console_send_idle(n) == UNCHANGED <<tx_data, console_send_buffer>>

\* __console_send while the device takes n characters, oldest first.
console_send(n) ==
  /\ tx_data' = last_sent(n)
  /\ console_send_buffer' = unsent(n)

\* __putc sends, when the buffer is full, before it gives up; the device has
\* taken n characters by the time the new one is stored.
putc_full(n) == Len(console_send_buffer) = CONSOLE_BUFFER_SIZE /\ n = 0

putc_store(n) ==
  /\ tx_data' = last_sent(n)
  /\ console_send_buffer' = Append(unsent(n), put + 1)
  /\ put' = put + 1

-----------------------------------------------------------------------------
(* Input.                                                                  *)

\* __getc on an empty buffer: __scheduler_next, yield, then __waiting_push.
getc_blocks == console_receive_buffer = <<>>

getc_end ==
  IF getc_blocks
  THEN Then(switch_end(ready_threads),
            LinkEnd(thread_current,
                    ToSet(scheduler_rest(ready_threads)) \cup Linked(Sem)))
  ELSE "no"

getc_block(code) ==
  /\ scheduler_next(ready_threads)
  /\ threads_waiting_for_input' = Append(threads_waiting_for_input, thread_current)
  /\ a0' = [a0 EXCEPT ![thread_current] = code]
  /\ UNCHANGED console_receive_buffer

\* __getc on a buffer with characters writes the result to the frame of the
\* last switch, so a0 of the current frame may keep the code (see Context).
getc_take(code) ==
  /\ \E result \in {Head(console_receive_buffer), code} :
       a0' = [a0 EXCEPT ![thread_current] = result]
  /\ console_receive_buffer' = Tail(console_receive_buffer)
  /\ UNCHANGED <<threads_waiting_for_input, ready_threads, thread_current>>

\* The first loop of __console_receive takes this many characters.
received_len ==
  LET room == CONSOLE_BUFFER_SIZE - Len(console_receive_buffer)
  IN IF Len(rx_data) < room THEN Len(rx_data) ELSE room

received == console_receive_buffer \o SubSeq(rx_data, 1, received_len)

\* Mutant: only one thread is unblocked for several characters.
unblocked_cnt_one ==
  IF threads_waiting_for_input = <<>> \/ received = <<>> THEN 0 ELSE 1

\* The second loop hands the first characters to the threads that wait.
unblocked_cnt ==
  IF Len(threads_waiting_for_input) < Len(received)
  THEN Len(threads_waiting_for_input) ELSE Len(received)

unblocked == SubSeq(threads_waiting_for_input, 1, unblocked_cnt)

\* Mutant: one thread too many leaves the ring.
still_waiting_fewer ==
  SubSeq(threads_waiting_for_input, unblocked_cnt + 2, Len(threads_waiting_for_input))

still_waiting_all == threads_waiting_for_input  \* mutant: nobody leaves the ring

still_waiting ==
  SubSeq(threads_waiting_for_input, unblocked_cnt + 1, Len(threads_waiting_for_input))

\* How pushing the unblocked threads ends: as the first push that goes wrong.
receive_end ==
  LET linked == ToSet(ready_threads) \cup Waiters(Sem) \cup ToSet(still_waiting)
      bad == {i \in DOMAIN unblocked : LinkEnd(unblocked[i], linked) # "no"}
  IN IF bad = {} THEN "no" ELSE LinkEnd(unblocked[Min(bad)], linked)

\* Mutant: the rest of the buffer is not moved down.
unread_unshifted == SubSeq(received, 1, Len(received) - unblocked_cnt)

\* The buffer once the rest has been moved down.
unread == SubSeq(received, unblocked_cnt + 1, Len(received))

\* Mutant: every thread gets the first character.
handed_first(t) == received[1]

\* The character handed to an unblocked thread.
handed(t) == received[CHOOSE i \in DOMAIN unblocked : unblocked[i] = t]

console_receive ==
  /\ rx_data' = SubSeq(rx_data, received_len + 1, Len(rx_data))
  /\ console_receive_buffer' = unread
  /\ threads_waiting_for_input' = still_waiting
  /\ ready_threads' = ready_threads \o unblocked
  /\ time_left' = renewed_slice(time_left, ToSet(unblocked))
  /\ a0' = [t \in Tcb |-> IF t \in ToSet(unblocked) THEN handed(t) ELSE a0[t]]
=============================================================================
