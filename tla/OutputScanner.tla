--------------------------- MODULE OutputScanner ---------------------------
(***************************************************************************)
(* The response writers a backend response passes on its way to the client *)
(* (gateway/middleware/output_scanner.go, audit_emitter.go, metrics.go):   *)
(* captureWriter holds a scannable response back until it is complete or   *)
(* too large; statusCapture and statusWriter remember the first status.    *)
(*                                                                         *)
(* A body is a sequence of pieces, numbered as the backend sent them; a    *)
(* piece that was sanitized is the negative of its number.                 *)
(***************************************************************************)
EXTENDS Integers, Sequences

CONSTANT MaxScan   \* pieces that fit into captureWriter's buffer

ASSUME OutputScannerAssumption == MaxScan \in Nat

\* An informational status, which the client gets besides the final one.
Interim == 103

(***************************************************************************)
(* seen is what statusCapture and statusWriter recorded (0: nothing yet),  *)
(* code what the client got as its final status (0: nothing yet).  The     *)
(* other fields are those of captureWriter, status 0 before WriteHeader.   *)
(***************************************************************************)
NewWriter == [seen |-> 0, code |-> 0, body |-> <<>>,
              status |-> 0, passthrough |-> FALSE, buf |-> <<>>]

SendHeader(w, code) ==
    [w EXCEPT !.seen = IF @ = 0 THEN code ELSE @,
              !.code = IF @ = 0 /\ code # Interim THEN code ELSE @]

\* Bytes without a header before them: net/http sends 200.
SendBytes(w, pieces) ==
    [w EXCEPT !.seen = IF @ = 0 THEN 200 ELSE @,
              !.code = IF @ = 0 THEN 200 ELSE @,
              !.body = @ \o pieces]

(***************************************************************************)
(* captureWriter.WriteHeader.  A scannable response waits, another one is  *)
(* passed on.  Passthrough, once set, stays set.                           *)
(***************************************************************************)
WriteHeader(w, code, scannable) ==
    LET noted == [w EXCEPT !.status = code] IN
    IF scannable THEN noted ELSE [SendHeader(noted, code) EXCEPT !.passthrough = TRUE]

\* Mutant of Write: what was held back is forgotten when the limit is passed.
WriteWithoutFlush(w, piece) ==
    IF ~w.passthrough /\ Len(w.buf) < MaxScan
    THEN [w EXCEPT !.buf = Append(@, piece)]
    ELSE [SendBytes(SendHeader(w, w.status), <<piece>>) EXCEPT !.passthrough = TRUE, !.buf = <<>>]

\* captureWriter.Write: keep, or give up scanning and flush what was kept.
Write(w, piece) ==
    CASE w.passthrough         -> SendBytes(w, <<piece>>)
      [] ~w.passthrough /\ Len(w.buf) < MaxScan -> [w EXCEPT !.buf = Append(@, piece)]
      [] OTHER -> [SendBytes(SendHeader(w, w.status), Append(w.buf, piece))
                     EXCEPT !.passthrough = TRUE, !.buf = <<>>]

Risks == {"none", "medium", "high"}

SanitizeOutput(pieces) == [i \in DOMAIN pieces |-> -pieces[i]]

(***************************************************************************)
(* What OutputScanner does once the handler inside has returned: nothing   *)
(* after a passthrough or an empty body (whose status is then never sent), *)
(* else the scanned body under the held-back status.                       *)
(***************************************************************************)
ScanAndSend(w, risk) ==
    IF w.passthrough \/ w.buf = <<>> THEN w
    ELSE [SendBytes(SendHeader(w, w.status),
                    IF risk = "high" THEN SanitizeOutput(w.buf) ELSE w.buf) EXCEPT !.buf = <<>>]
=============================================================================
