-------------------------------- MODULE Uart --------------------------------
(***************************************************************************)
(* UART and the event task of its test: the driver's interrupt puts bytes  *)
(* into the ring buffer and announces them in uart_queue; the task waits   *)
(* for an event, reads as many bytes as it announces (with portMAX_DELAY   *)
(* on port 0) and may flush, as it does when the buffer was full.          *)
(*                                                                         *)
(* A definition whose name ends in _<lowercase words> is a faulty variant  *)
(* of the one after it, kept to show that the properties notice.           *)
(***************************************************************************)
EXTENDS Naturals, Sequences

CONSTANTS
  RingSize,   (* bytes of the ring buffer                                    *)
  QueueSize,  (* events uart_queue holds                                     *)
  MaxChunk    (* bytes that arrive between two interrupts                    *)

ASSUME UartAssumption ==
  RingSize \in Nat \ {0} /\ QueueSize \in Nat \ {0} /\ MaxChunk \in 1 .. RingSize

VARIABLES
  installed,
  ring,        (* bytes in the ring buffer                                   *)
  stash,       (* bytes the interrupt holds while the ring is full           *)
  uart_queue,  (* sizes of the data events; 0 is a buffer-full event         *)
  uartPc,      (* wait, read or flush (between its two steps)                *)
  wants        (* bytes the task is about to read                            *)

uartVars == <<installed, ring, stash, uart_queue, uartPc, wants>>

UartInit ==
  /\ installed = FALSE /\ ring = 0 /\ stash = 0
  /\ uart_queue = <<>> /\ uartPc = "wait" /\ wants = 0

\* uart_driver_install fails, or whatever the calls after it answer
InitUart(ok) ==
  /\ ~installed
  /\ installed' = ok
  /\ UNCHANGED <<ring, stash, uart_queue, uartPc, wants>>

\* an event that finds the queue full is dropped
Post(e) ==
  uart_queue' = IF Len(uart_queue) < QueueSize THEN Append(uart_queue, e) ELSE uart_queue

\* what does not fit stays in the interrupt, which is then disabled
Receive(n) ==
  /\ installed /\ stash = 0
  /\ IF ring + n <= RingSize
       THEN ring' = ring + n /\ Post(n) /\ UNCHANGED stash
       ELSE stash' = n /\ Post(0) /\ UNCHANGED ring
  /\ UNCHANGED <<installed, uartPc, wants>>

waitRX ==
  /\ installed /\ uartPc = "wait" /\ uart_queue # <<>>
  /\ uart_queue' = Tail(uart_queue)
  /\ wants' = Head(uart_queue)
  /\ uartPc' = "read"
  /\ UNCHANGED <<installed, ring, stash>>

\* reading makes room for what the interrupt holds, which is not announced
ReadBytes ==
  /\ uartPc = "read" /\ 0 < wants /\ wants <= ring
  /\ LET fits == stash # 0 /\ ring - wants + stash <= RingSize IN
       /\ ring' = ring - wants + (IF fits THEN stash ELSE 0)
       /\ stash' = IF fits THEN 0 ELSE stash
  /\ wants' = 0
  /\ uartPc' \in {"wait", "read"}   \* the test of port 1 flushes next
  /\ UNCHANGED <<installed, uart_queue>>

flush_queueFirst ==
  \/ /\ uartPc = "read" /\ wants = 0
     /\ uart_queue' = <<>>
     /\ uartPc' = "flush"
     /\ UNCHANGED <<installed, ring, stash, wants>>
  \/ /\ uartPc = "flush"
     /\ ring' = 0 /\ stash' = 0
     /\ uartPc' = "wait"
     /\ UNCHANGED <<installed, uart_queue, wants>>

\* uart_flush empties the buffer, then xQueueReset forgets the events, also
\* those of bytes that came in between
flush ==
  \/ /\ uartPc = "read" /\ wants = 0
     /\ ring' = 0 /\ stash' = 0
     /\ uartPc' = "flush"
     /\ UNCHANGED <<installed, uart_queue, wants>>
  \/ /\ uartPc = "flush"
     /\ uart_queue' = <<>>
     /\ uartPc' = "wait"
     /\ UNCHANGED <<installed, ring, stash, wants>>

UartNext ==
  \/ \E ok \in BOOLEAN : InitUart(ok)
  \/ \E n \in 1 .. MaxChunk : Receive(n)
  \/ waitRX \/ ReadBytes \/ flush

(* The bytes announced are there: outside flush() the buffer holds at      *)
(* least what the queued events and the read under way ask for, so that a  *)
(* read of event.size never waits for bytes a flush has thrown away        *)
(* (UART::flush, UART::read).                                              *)
AnnouncedIsThere ==
  LET announced[i \in 0 .. Len(uart_queue)] ==
        IF i = 0 THEN wants ELSE announced[i - 1] + uart_queue[i]
  IN uartPc # "flush" => announced[Len(uart_queue)] <= ring
=============================================================================
