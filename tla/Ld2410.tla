------------------------------ MODULE Ld2410 ------------------------------
(***************************************************************************)
(* The radar's frame parser (components/ld2410c/ld2410c.c): one task reads *)
(* what the UART has, in pieces of any size, behind what is left in a      *)
(* buffer of fixed size, and takes the frames off its front.  Here a frame *)
(* is its header, one byte of length, the data and the footer; the bytes   *)
(* for type and head and the second byte of the length are left out.       *)
(***************************************************************************)
EXTENDS Naturals, Sequences

CONSTANTS
  HEADER, FOOTER,  (* sequences of bytes                                   *)
  BufSize,         (* UART_BUF_SIZE                                        *)
  Lines            (* bound: what may come over the wire, byte sequences   *)

\* F4 F3 F2 F1 and F8 F7 F6 F5: the footer's last byte is none of the header's.
ASSUME RadarAssumption ==
  /\ HEADER \in Seq(Nat) \ {<<>>} /\ FOOTER \in Seq(Nat) \ {<<>>}
  /\ \A k \in 1..Len(HEADER) : HEADER[k] # FOOTER[Len(FOOTER)]
  /\ BufSize \in Nat /\ BufSize > Len(HEADER)
  /\ Lines \subseteq Seq(Nat)

VARIABLES
  line,     (* all that comes over the wire                                *)
  read,     (* how much of it uart_read_bytes has returned                 *)
  buf,      (* buf, up to head                                             *)
  states,   (* history: what s_target_state was set to                     *)
  uart      (* s_target_state and s_uart_valid                             *)

radarVars == <<line, read, buf, states, uart>>

RadarInit ==
  /\ line \in Lines /\ read = 0 /\ buf = <<>> /\ states = <<>>
  /\ uart = [target |-> 0, valid |-> FALSE]

-----------------------------------------------------------------------------
(* The scan of the buffer.                                                  *)
From(b, p) == SubSeq(b, p, Len(b))
StartsWith(b, marker) == Len(marker) <= Len(b) /\ \A k \in 1..Len(marker) : b[k] = marker[k]

\* Header, length and footer are counted, whatever the length says.
FrameLen(b) == Len(HEADER) + 1 + b[Len(HEADER) + 1] + Len(FOOTER)

FrameEnds(b) == \A k \in 1..Len(FOOTER) : b[FrameLen(b) - Len(FOOTER) + k] = FOOTER[k]

\* Without data this is the first byte of the footer.
TargetOf(b) == b[Len(HEADER) + 2]

\* Too little for a header, or a frame that is not complete: the loop ends.
Stuck(b) ==
  \/ Len(b) < Len(HEADER)
  \/ StartsWith(b, HEADER) /\ (Len(b) = Len(HEADER) \/ Len(b) < FrameLen(b))

\* How far it goes otherwise: past a byte, or past a whole frame, with the right footer or not.
Passes(b) == IF StartsWith(b, HEADER) THEN FrameLen(b) ELSE 1

\* The state it finds there, if any.
Finds(b) == IF StartsWith(b, HEADER) /\ FrameEnds(b) THEN <<TargetOf(b)>> ELSE <<>>

\* What the loop leaves of b, and the states it finds on its way.
Rest[b \in Seq(Nat)]  == IF Stuck(b) THEN b ELSE Rest[From(b, Passes(b) + 1)]
Found[b \in Seq(Nat)] == IF Stuck(b) THEN <<>> ELSE Finds(b) \o Found[From(b, Passes(b) + 1)]

-----------------------------------------------------------------------------
(* ld2410c_parse_task.                                                      *)

Room == BufSize - Len(buf)

\* Mutant: what is left is not moved to the front of the buffer.
LeftInPlace(all, rest) == SubSeq(all, 1, Len(rest))

ShiftedDown(all, rest) == rest

ReadAndScan(n) ==
  /\ Room > 0 /\ read' = read + n /\ read' <= Len(line)
  /\ LET all   == buf \o SubSeq(line, read + 1, read + n)
         found == Found[all]
     IN  /\ buf' = ShiftedDown(all, Rest[all])
         /\ states' = states \o found
         /\ uart' = IF found = <<>> THEN uart ELSE [target |-> found[Len(found)], valid |-> TRUE]
  /\ UNCHANGED line

\* Mutant: a full buffer stays.
StaysFull == buf

\* Mutant: the header of a full buffer is kept.
KeepsHeader == HEADER

Emptied == <<>>

\* "Buffer full with no valid frame": it is dropped, header and all.
Discards ==
  /\ Room = 0 /\ buf' = Emptied
  /\ UNCHANGED <<line, read, states, uart>>

RadarNext == (\E n \in 1..Room : ReadAndScan(n)) \/ Discards

\* The UART delivers, and the task runs.
RadarFair == WF_radarVars(RadarNext)

RadarSpec     == RadarInit /\ [][RadarNext]_radarVars
RadarFairSpec == RadarSpec /\ RadarFair

-----------------------------------------------------------------------------
(* Properties.                                                              *)

\* The states in s, read at once and with room for all of it: what would not fit in
\* the buffer is passed over by the size of the buffer.
Fitting(n) == IF n <= BufSize THEN n ELSE BufSize
Unfinished(s) ==
  \/ Len(s) < Len(HEADER)
  \/ StartsWith(s, HEADER) /\ (Len(s) = Len(HEADER) \/ Len(s) < Fitting(FrameLen(s)))
StatesIn[s \in Seq(Nat)] ==
  IF Unfinished(s) THEN <<>>
  ELSE (IF Passes(s) <= BufSize THEN Finds(s) ELSE <<>>) \o StatesIn[From(s, Fitting(Passes(s)) + 1)]

\* What the unit knows of the room depends on what the radar sent, and not on how the
\* UART cut it up, what was left in the buffer, or when the buffer ran full.
SplittingUnseen ==
  /\ states = StatesIn[SubSeq(line, 1, read)]
  /\ uart.valid <=> states # <<>>
  /\ uart.valid => uart.target = states[Len(states)]

\* A frame without a header in its data.
CleanFrame(b) ==
  /\ Len(b) > Len(HEADER) + 1 /\ StartsWith(b, HEADER)
  /\ Len(b) = FrameLen(b) /\ Len(b) <= BufSize /\ FrameEnds(b)
  /\ \A i \in 2..Len(b) : ~StartsWith(From(b, i), HEADER)

\* Clean frames, one behind the other.
BeginsClean(s) == Len(s) > Len(HEADER) /\ FrameLen(s) <= Len(s) /\ CleanFrame(SubSeq(s, 1, FrameLen(s)))
CleanRun[s \in Seq(Nat)] ==
  IF s = <<>> THEN TRUE ELSE IF ~BeginsClean(s) THEN FALSE ELSE CleanRun[From(s, FrameLen(s) + 1)]

\* Noise on the line, a length that is a lie, a frame cut short: once more than a
\* buffer of clean frames has come after it, the unit knows the state in the last one.
Resynchronises ==
  LET seen == SubSeq(line, 1, read)
  IN  \A i, j \in 1..Len(seen) :
        i + BufSize <= j /\ CleanRun[From(seen, i)] /\ CleanFrame(From(seen, j))
          => uart.valid /\ uart.target = TargetOf(From(seen, j))

\* The parser never stops: what comes is read.
AllIsRead == <>(read = Len(line))
=============================================================================
