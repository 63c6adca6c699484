----------------------------- MODULE TCPCarrier ------------------------------
(***************************************************************************)
(* The output side of a TCP carrier (netio/epoll/tcpcarrier.cpp): who      *)
(* produces output asks for EPOLLOUT, OnEvent writes what the socket takes *)
(* and, once the output is sent, tells the protocols they may send and     *)
(* gives EPOLLOUT up, unless they asked for it again meanwhile.            *)
(*                                                                         *)
(* One carrier and its chain from creation to the moment its delete is     *)
(* decided and carried out.  epoll_ctl on a descriptor that is open does   *)
(* not fail here: the macros of the code ignore its result.                *)
(* The names are a carrier's where IOHandlerManager has the plain ones, so *)
(* that a module may extend both.                                          *)
(***************************************************************************)
EXTENDS Naturals

CONSTANT MaxOutput        \* bound: bytes (or units) that wait to be sent

ASSUME MaxOutputAssumption == MaxOutput \in Nat

VARIABLES
  output,                 \* what GetOutputBuffer of the chain holds
  writeDataEnabled,       \* _writeDataEnabled
  enableWriteDataCalled,  \* _enableWriteDataCalled
  epollout,               \* whether the kernel watches for EPOLLOUT
  graceful,               \* _gracefullyEnqueueForDelete of the far endpoint
  fate,                   \* whether, and why, the chain is enqueued for delete
  at,                     \* where OnEvent is
  writable                \* whether its event has EPOLLOUT

carrierVars == <<output, writeDataEnabled, enableWriteDataCalled, epollout, graceful,
                 fate, at, writable>>

writeInterest == <<writeDataEnabled, enableWriteDataCalled, epollout>>

\* "sending" is inside ReadyForSend, "sent" after it in DISABLE_WRITE_DATA.
Places == {"loop", "reading", "writing", "sending", "sent", "deleted"}

CarrierInit ==
  /\ output = 0
  /\ writeDataEnabled = FALSE /\ enableWriteDataCalled = FALSE
  /\ epollout = FALSE         \* TCPCarrier::TCPCarrier: EnableReadData only
  /\ graceful = FALSE /\ fate = "alive"
  /\ at = "loop" /\ writable = FALSE

\* The reason that came first is kept.
Enqueue(why) == fate' = IF fate = "alive" THEN why ELSE fate

-----------------------------------------------------------------------------
(* Producers: a timer, another connection, the handling of input, or       *)
(* ReadyForSend itself.                                                    *)

\* ENABLE_WRITE_DATA: EnableWriteData is called when the flag was not set.
SignalOutputData ==
  /\ writeDataEnabled' = TRUE
  /\ epollout' = (epollout \/ ~writeDataEnabled)
  /\ enableWriteDataCalled' = TRUE

\* Output is appended and EnqueueForOutbound called; some protocols call it
\* with nothing to send (n = 0).
Produce(n) ==
  /\ at \in {"loop", "reading", "sending"}
  /\ output + n <= MaxOutput
  /\ output' = output + n
  /\ SignalOutputData
  /\ UNCHANGED <<graceful, fate, at, writable>>

\* The chain is deleted at once if there is nothing to send.
GracefullyEnqueueForDelete ==
  /\ at \in {"loop", "reading", "sending"}
  /\ graceful' = TRUE
  /\ IF output = 0 THEN Enqueue("graceful") ELSE UNCHANGED fate
  /\ UNCHANGED <<output, writeInterest, at, writable>>

-----------------------------------------------------------------------------
(* OnEvent.                                                                *)

OnEvent(in, out) ==
  /\ at = "loop"
  /\ in \/ out
  /\ out => epollout
  /\ writable' = out
  /\ at' = IF in THEN "reading" ELSE "writing"
  /\ UNCHANGED <<output, writeInterest, graceful, fate>>

\* recv fails, the peer has closed, or a protocol rejects the input: OnEvent
\* returns false and the reactor enqueues the carrier for delete.
ReadFails ==
  /\ at = "reading"
  /\ Enqueue("failed")
  /\ at' = "loop"
  /\ UNCHANGED <<output, writeInterest, graceful, writable>>

ReadReturns ==
  /\ at = "reading"
  /\ at' = IF writable THEN "writing" ELSE "loop"
  /\ UNCHANGED <<output, writeInterest, graceful, fate, writable>>

\* Mistake: the protocols are not told that the output is sent.
DISABLE_WRITE_DATA_Silent ==
  /\ enableWriteDataCalled' = FALSE
  /\ at' = IF writeDataEnabled THEN "sent" ELSE "loop"
  /\ UNCHANGED <<fate, writeDataEnabled, epollout>>

\* DISABLE_WRITE_DATA up to ReadyForSend, which deletes a chain that waited
\* for its output and otherwise reaches the near protocols.
DISABLE_WRITE_DATA ==
  IF ~writeDataEnabled
  THEN at' = "loop" /\ UNCHANGED <<fate, writeInterest>>
  ELSE /\ enableWriteDataCalled' = FALSE
       /\ IF graceful THEN at' = "sent" /\ Enqueue("graceful")
                      ELSE at' = "sending" /\ UNCHANGED fate
       /\ UNCHANGED <<writeDataEnabled, epollout>>

\* Mistake: any write is taken for the whole output.
WriteSome_NotTested(n) ==
  /\ at = "writing" /\ output > 0
  /\ output' = output - n
  /\ DISABLE_WRITE_DATA
  /\ UNCHANGED <<graceful, writable>>

\* send takes n bytes, none on EAGAIN.
WriteSome(n) ==
  /\ at = "writing" /\ output > 0
  /\ output' = output - n
  /\ IF n = output THEN DISABLE_WRITE_DATA
     ELSE at' = "loop" /\ UNCHANGED <<fate, writeInterest>>
  /\ UNCHANGED <<graceful, writable>>

\* Mistake: EPOLLOUT without output is ignored.
NothingToWrite_Ignored ==
  /\ at = "writing" /\ output = 0
  /\ at' = "loop"
  /\ UNCHANGED <<output, writeInterest, graceful, fate, writable>>

NothingToWrite ==
  /\ at = "writing" /\ output = 0
  /\ DISABLE_WRITE_DATA
  /\ UNCHANGED <<output, graceful, writable>>

WriteFails ==
  /\ at = "writing" /\ output > 0
  /\ Enqueue("failed")
  /\ at' = "loop"
  /\ UNCHANGED <<output, writeInterest, graceful, writable>>

ReadyForSendReturns ==
  /\ at = "sending"
  /\ at' = "sent"
  /\ UNCHANGED <<output, writeInterest, graceful, fate, writable>>

\* Mistake: EPOLLOUT is given up whatever ReadyForSend has produced.
DisableWriteData_Always ==
  /\ at = "sent"
  /\ writeDataEnabled' = FALSE /\ epollout' = FALSE
  /\ at' = "loop"
  /\ UNCHANGED <<output, enableWriteDataCalled, graceful, fate, writable>>

\* The rest of DISABLE_WRITE_DATA.
DisableWriteData ==
  /\ at = "sent"
  /\ IF ~enableWriteDataCalled /\ output = 0
     THEN writeDataEnabled' = FALSE /\ epollout' = FALSE
     ELSE UNCHANGED <<writeDataEnabled, epollout>>
  /\ at' = "loop"
  /\ UNCHANGED <<output, enableWriteDataCalled, graceful, fate, writable>>

\* EPOLLERR: the reactor enqueues the carrier, whatever OnEvent does.
ErrorEvent ==
  /\ at = "loop"
  /\ Enqueue("failed")
  /\ UNCHANGED <<output, writeInterest, graceful, at, writable>>

\* The end of the pulse; events of the same batch came before.
Deleted ==
  /\ at = "loop" /\ fate # "alive"
  /\ at' = "deleted"
  /\ UNCHANGED <<output, writeInterest, graceful, fate, writable>>

-----------------------------------------------------------------------------
Produces == \E n \in 0..MaxOutput : Produce(n)

\* What the code does once it runs.
Handler ==
  \/ ReadReturns \/ ReadFails \/ NothingToWrite \/ WriteFails
  \/ \E n \in 0..output : WriteSome(n)
  \/ ReadyForSendReturns \/ DisableWriteData \/ Deleted

CarrierNext ==
  \/ Produces \/ GracefullyEnqueueForDelete
  \/ \E in, out \in BOOLEAN : OnEvent(in, out)
  \/ ErrorEvent \/ Handler

CarrierSpec == CarrierInit /\ [][CarrierNext]_carrierVars

\* Handlers return and the loop deletes what is enqueued; EPOLLOUT is level
\* triggered and reported; a socket that stays open takes data in the end.
CarrierFairness ==
  /\ WF_carrierVars(Handler)
  /\ SF_carrierVars(\E in \in BOOLEAN : OnEvent(in, TRUE))
  /\ SF_carrierVars(\E n \in 1..output : WriteSome(n))

CarrierFairSpec == CarrierSpec /\ CarrierFairness

-----------------------------------------------------------------------------
(* Properties.                                                             *)

\* Every variable has its type.
CarrierTypeOK ==
  /\ output \in 0..MaxOutput
  /\ writeDataEnabled \in BOOLEAN /\ enableWriteDataCalled \in BOOLEAN
  /\ epollout \in BOOLEAN /\ graceful \in BOOLEAN /\ writable \in BOOLEAN
  /\ fate \in {"alive", "graceful", "failed"}
  /\ at \in Places

\* No wake-up is lost: as long as there is output the kernel watches for
\* EPOLLOUT, whoever produced it and wherever OnEvent was.
NoLostWakeup == output > 0 => epollout

\* A graceful delete is never decided while there is output to send.
FlushedFirst ==
  [][fate = "alive" /\ fate' = "graceful" => output' = 0]_carrierVars

\* A chain that is to be deleted gracefully is, once nothing is produced any
\* more: no code keeps a chain that waits for its delete from producing.
GracefulEnds ==
  <>[][~Produces]_carrierVars => (graceful ~> fate # "alive")

\* When nothing is produced any more the output is sent and EPOLLOUT given up:
\* an idle connection does not keep the loop spinning.
IdleIsQuiet ==
  <>[][~Produces]_carrierVars => <>[]((output = 0 /\ ~epollout) \/ fate # "alive")
==============================================================================
