------------------------------ MODULE Progress ------------------------------
(***************************************************************************)
(* The progress tracker of azure/progress/status.go: reporters send byte   *)
(* counts to a buffered channel, a receiver goroutine adds them up, and a  *)
(* sender goroutine computes a record at every tick and sends a POINTER to *)
(* it, always the same one, to the consumer (readAndPrintProgress), which  *)
(* calls the caller's callback.  Percentages are kept as the byte counts   *)
(* that they are computed from.                                            *)
(***************************************************************************)
EXTENDS Lists

CONSTANTS
  ReportersCount,   \* the capacity of bytesProcessedCountChan
  Block,            \* the blocks whose bytes can be reported, by their numbers
  Length            \* the number of bytes of each block

ASSUME ProgressAssumption ==
  /\ ReportersCount \in Nat
  /\ IsFiniteSet(Block) /\ Block = 1 .. Cardinality(Block)
  /\ Length \in [Block -> Nat]

Bytes(blocks) == SumOf([b \in Block |-> IF b \in blocks THEN Length[b] ELSE 0])

VARIABLES
  bytesChan,        \* bytesProcessedCountChan: the counts in the buffer
  bytesClosed,      \* bytesProcessedCountChan: has it been closed
  bytesProcessed,   \* Status.bytesProcessed
  rPc,              \* the receiver: where it is
  sPc,              \* the sender: where it is
  percent,          \* progressRecord.PercentComplete
  recordBytes,      \* progressRecord.BytesProcessed
  cPc,              \* the consumer: where it is
  called            \* the last value given to the callback

progressVars == <<bytesChan, bytesClosed, bytesProcessed, rPc, sPc, percent,
                  recordBytes, cPc, called>>
recordVars   == <<percent, recordBytes>>

ProgressTypeOK ==
  /\ bytesChan \in Seq(Nat)
  /\ bytesClosed \in BOOLEAN
  /\ bytesProcessed \in Nat
  /\ rPc \in {"range", "signal", "done"}
  /\ sPc \in {"select", "record", "send", "close", "done"}
  /\ percent \in Nat
  /\ recordBytes \in Nat
  /\ cPc \in {"range", "print", "done"}
  /\ called \in Nat

\* NewStatus and Run, and the start of the consumer.
ProgressInit ==
  /\ bytesChan = << >>
  /\ bytesClosed = FALSE
  /\ bytesProcessed = 0
  /\ rPc = "range"
  /\ sPc = "select"
  /\ percent = 0
  /\ recordBytes = 0
  /\ cPc = "range"
  /\ called = 0

\* ReportBytesProcessedCount: a send on the buffered channel.
Report(count) ==
  /\ ~bytesClosed
  /\ Len(bytesChan) < ReportersCount
  /\ bytesChan' = Append(bytesChan, count)
  /\ UNCHANGED <<bytesClosed, bytesProcessed, rPc, sPc, recordVars, cPc, called>>

\* Close: close(bytesProcessedCountChan).
Close ==
  /\ ~bytesClosed
  /\ bytesClosed' = TRUE
  /\ UNCHANGED <<bytesChan, bytesProcessed, rPc, sPc, recordVars, cPc, called>>

-----------------------------------------------------------------------------
\* Mutant: the receiver overwrites the sum.
ReceiveOverwrites ==
  /\ rPc = "range"
  /\ bytesChan # << >>
  /\ bytesProcessed' = Head(bytesChan)
  /\ bytesChan' = Tail(bytesChan)
  /\ UNCHANGED <<bytesClosed, rPc, sPc, recordVars, cPc, called>>

\* bytesProcessedCountReceiver.
Receive ==
  /\ rPc = "range"
  /\ bytesChan # << >>
  /\ bytesProcessed' = bytesProcessed + Head(bytesChan)
  /\ bytesChan' = Tail(bytesChan)
  /\ UNCHANGED <<bytesClosed, rPc, sPc, recordVars, cPc, called>>

\* Mutant: the receiver ends without a word to the sender.
ReceiveClosedSilently ==
  /\ rPc = "range"
  /\ bytesChan = << >>
  /\ bytesClosed
  /\ rPc' = "done"
  /\ UNCHANGED <<bytesChan, bytesClosed, bytesProcessed, sPc, recordVars, cPc, called>>

ReceiveClosed ==
  /\ rPc = "range"
  /\ bytesChan = << >>
  /\ bytesClosed
  /\ rPc' = "signal"
  /\ UNCHANGED <<bytesChan, bytesClosed, bytesProcessed, sPc, recordVars, cPc, called>>

Receiver == Receive \/ ReceiveClosed

\* Mutant: the percentage of what came since the last record.
TickDelta ==
  /\ sPc = "select"
  /\ percent' = bytesProcessed - recordBytes
  /\ sPc' = "record"
  /\ UNCHANGED <<bytesChan, bytesClosed, bytesProcessed, rPc, recordBytes, cPc, called>>

\* progressRecordSender: at a tick it computes the percentage, later reads
\* bytesProcessed again, and sends the record.
Tick ==
  /\ sPc = "select"
  /\ percent' = bytesProcessed
  /\ sPc' = "record"
  /\ UNCHANGED <<bytesChan, bytesClosed, bytesProcessed, rPc, recordBytes, cPc, called>>

Record ==
  /\ sPc = "record"
  /\ recordBytes' = bytesProcessed
  /\ sPc' = "send"
  /\ UNCHANGED <<bytesChan, bytesClosed, bytesProcessed, rPc, percent, cPc, called>>

\* outChan <- progressRecord, received by the consumer.
SendRecord ==
  /\ sPc = "send"
  /\ cPc = "range"
  /\ sPc' = "select"
  /\ cPc' = "print"
  /\ UNCHANGED <<bytesChan, bytesClosed, bytesProcessed, rPc, recordVars, called>>

\* doneChan, from the receiver to the sender, which then leaves its loop.
Done ==
  /\ rPc = "signal"
  /\ sPc = "select"
  /\ rPc' = "done"
  /\ sPc' = "close"
  /\ UNCHANGED <<bytesChan, bytesClosed, bytesProcessed, recordVars, cPc, called>>

\* close(outChan).
CloseOut ==
  /\ sPc = "close"
  /\ sPc' = "done"
  /\ UNCHANGED <<bytesChan, bytesClosed, bytesProcessed, rPc, recordVars, cPc, called>>

Sender == Tick \/ Record \/ SendRecord \/ CloseOut

\* readAndPrintProgress: it reads the record through the pointer, which the
\* sender may be overwriting, and calls the callback.
Callback ==
  /\ cPc = "print"
  /\ called' = percent
  /\ cPc' = "range"
  /\ UNCHANGED <<bytesChan, bytesClosed, bytesProcessed, rPc, sPc, recordVars>>

ConsumeClosed ==
  /\ cPc = "range"
  /\ sPc = "done"
  /\ cPc' = "done"
  /\ UNCHANGED <<bytesChan, bytesClosed, bytesProcessed, rPc, sPc, recordVars, called>>

Consumer == Callback \/ ConsumeClosed

ProgressNext == Receiver \/ Sender \/ Done \/ Consumer

\* The goroutines run; a select that finds doneChan ready again and again
\* takes it in the end, for select chooses at random and ticks are half a
\* second apart.
ProgressFairness ==
  /\ WF_progressVars(Receiver)
  /\ WF_progressVars(Record \/ SendRecord \/ CloseOut)
  /\ WF_progressVars(Consumer)
  /\ SF_progressVars(Done)

-----------------------------------------------------------------------------
(* What makes the tracker correct, whoever reports.                        *)

\* The percentages that the callback sees never go down and never run ahead
\* of what was counted, although the record that they are read from may be
\* overwritten while it is read.
CallbackMonotone ==
  [][called' >= called /\ called' <= bytesProcessed']_progressVars

\* status.go:85: a tracker that was closed stops: its goroutines, and the
\* consumer that waits for its records, end (no goroutine leak).
TrackerStops == bytesClosed ~> rPc = "done" /\ sPc = "done" /\ cPc = "done"

=============================================================================
