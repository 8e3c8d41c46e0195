------------------------------- MODULE TronScan -------------------------------
(***************************************************************************)
(* How the watcher reads the blockchain: pages of transfers in the order of *)
(* their block time from a stored cursor on, a journal that drops what was  *)
(* seen, and a cursor that follows the newest transfer at a distance.  What *)
(* becomes of a journaled transfer is the matter of Donations; the names    *)
(* here differ from the names there, so that one module can extend both.    *)
(***************************************************************************)
EXTENDS Integers, FiniteSets

CONSTANTS
  ChainTransfers,  \* a set of numbers; the number breaks ties of block times
  PageSize,        \* rows of one answer of the API
  MaxPages,        \* MAX_PAGES_PER_TICK
  CursorLag,       \* CURSOR_LAG_MS
  Lookback,        \* FIRST_RUN_LOOKBACK_MS
  MaxBackoff,      \* MAX_BACKOFF_MS, in poll intervals
  IndexDelay,      \* the API shows a transfer at most this after its block time
  ClockSkew,       \* block times are off our clock by at most this
  ScanTime,        \* a pass takes at most this
  LastTime,        \* bound: last value of the clock
  MaxScanFailures  \* bound: failures of the watcher

ASSUME TronScanAssumption ==
  /\ ChainTransfers \subseteq Nat \ {0} /\ IsFiniteSet(ChainTransfers)
  /\ PageSize \in Nat \ {0} /\ MaxPages \in Nat \ {0}
  /\ CursorLag \in Nat /\ Lookback \in Nat /\ MaxBackoff \in Nat
  /\ IndexDelay \in Nat /\ ClockSkew \in Nat /\ ScanTime \in Nat
  /\ LastTime \in Nat /\ MaxScanFailures \in Nat

VARIABLES
  clock,
  sent,       \* external: transfers on the chain
  time,       \* external: the block time of each
  visible,    \* external: transfers the API returns
  journaled,  \* rows of tron_incoming_transfers
  cursor,     \* tron_scan_cursor: [set, at]
  scan,       \* locals of the pass
  backoffUntil,
  failuresInRow,   \* failures: since the last whole pass
  failed      \* failures ever, for the bound

chainVars == <<sent, time, visible>>
scanVars == <<clock, chainVars, journaled, cursor, scan, backoffUntil, failuresInRow, failed>>

Resting == [pc |-> "idle", start |-> 0, from |-> 0, after |-> 0, more |-> FALSE,
            page |-> {}, maxSeen |-> 0, pages |-> 0]

Least(a, b) == IF a < b THEN a ELSE b
Greatest(a, b) == IF a < b THEN b ELSE a

ScanInit ==
  /\ clock = 0
  /\ sent = {} /\ visible = {}
  /\ time = [t \in ChainTransfers |-> 0]
  /\ journaled = {}
  /\ cursor = [set |-> FALSE, at |-> 0]
  /\ scan = Resting
  /\ backoffUntil = 0 /\ failuresInRow = 0 /\ failed = 0

-----------------------------------------------------------------------------
(* The chain, its indexer and the clock.  The clock waits for the delays    *)
(* assumed of the world: of the indexer, of a pass, and of the first pass.  *)

ClockTick ==
  /\ clock < LastTime
  /\ \A t \in sent \ visible : clock < time[t] + IndexDelay
  /\ scan.pc # "idle" => clock < scan.start + ScanTime
  /\ ~ cursor.set => \A t \in sent : clock < time[t] + Lookback
  /\ clock' = clock + 1
  /\ UNCHANGED <<chainVars, journaled, cursor, scan, backoffUntil, failuresInRow, failed>>

Confirm(t, skew) ==
  /\ t \notin sent
  /\ sent' = sent \cup {t}
  /\ time' = [time EXCEPT ![t] = clock + skew]
  /\ UNCHANGED <<clock, visible, journaled, cursor, scan, backoffUntil, failuresInRow, failed>>

Appear(t) ==
  /\ t \in sent \ visible
  /\ visible' = visible \cup {t}
  /\ UNCHANGED <<clock, sent, time, journaled, cursor, scan, backoffUntil, failuresInRow, failed>>

-----------------------------------------------------------------------------
(* A tick of the watcher.                                                  *)

(* tick() and readCursor(): the first pass ever starts Lookback ago.       *)
Start ==
  /\ scan.pc = "idle" /\ clock >= backoffUntil
  /\ LET from == IF cursor.set THEN cursor.at ELSE clock - Lookback
     IN  /\ cursor' = [set |-> TRUE, at |-> from]
         /\ scan' = [Resting EXCEPT !.pc = "fetch", !.start = clock, !.from = from,
                                    !.maxSeen = from]
  /\ UNCHANGED <<clock, chainVars, journaled, backoffUntil, failuresInRow, failed>>

Before(s, t) == time[s] < time[t] \/ (time[s] = time[t] /\ s < t)

(* The rows from the cursor on that follow the fingerprint, 0 for none.    *)
Following ==
  {t \in visible : time[t] >= scan.from /\ (scan.after # 0 => Before(scan.after, t))}
Page == {t \in Following : Cardinality({s \in Following : Before(s, t)}) < PageSize}

(* The API may hand out a fingerprint although nothing follows.            *)
Fetch ==
  /\ scan.pc = "fetch"
  /\ \E more \in BOOLEAN :
       /\ Following \ Page # {} => more
       /\ \E last \in IF Page = {} THEN {scan.after} ELSE Page :
            /\ \A s \in Page : s = last \/ Before(s, last)
            /\ scan' = [scan EXCEPT !.pc = "page", !.page = Page, !.after = last,
                                    !.more = more /\ Page # {}]
  /\ UNCHANGED <<clock, chainVars, journaled, cursor, backoffUntil, failuresInRow, failed>>

IngestRow(t) ==
  /\ scan.pc = "page" /\ t \in scan.page
  /\ \A s \in scan.page : s = t \/ Before(t, s)
  /\ journaled' = journaled \cup {t}
  /\ scan' = [scan EXCEPT !.page = @ \ {t}, !.maxSeen = Greatest(@, time[t])]
  /\ UNCHANGED <<clock, chainVars, cursor, backoffUntil, failuresInRow, failed>>

(* A mutant: only the first page is read.                                  *)
NoMore == FALSE
More == scan.more /\ scan.pages + 1 < MaxPages

PageDone ==
  /\ scan.pc = "page" /\ scan.page = {}
  /\ scan' = [scan EXCEPT !.pages = @ + 1,
                !.pc = IF More THEN "fetch" ELSE "write"]
  /\ UNCHANGED <<clock, chainVars, journaled, cursor, backoffUntil, failuresInRow, failed>>

(* The mutant follows a block time ahead of our clock.                     *)
CursorAhead == Greatest(scan.from, scan.maxSeen - CursorLag)
NextCursor == Greatest(scan.from, Least(clock, scan.maxSeen) - CursorLag)

(* The end of scan(): at the limit of pages the cursor stays where it is.  *)
WriteCursor ==
  /\ scan.pc = "write"
  /\ cursor' = IF scan.pages < MaxPages THEN [cursor EXCEPT !.at = NextCursor] ELSE cursor
  /\ scan' = Resting
  /\ failuresInRow' = 0
  /\ UNCHANGED <<clock, chainVars, journaled, backoffUntil, failed>>

(* A statement or a request fails: onFailure() doubles the pause.          *)
Wait == Least(2 ^ (failuresInRow + 1), MaxBackoff)
Fail ==
  /\ scan.pc # "idle" /\ failed < MaxScanFailures
  /\ clock + Wait <= LastTime
  /\ scan' = Resting
  /\ failuresInRow' = failuresInRow + 1
  /\ failed' = failed + 1
  /\ backoffUntil' = clock + Wait
  /\ UNCHANGED <<clock, chainVars, journaled, cursor>>

(* The process dies and starts again: memory is lost, the pause too.       *)
Crash ==
  /\ failed < MaxScanFailures
  /\ scan' = Resting /\ failuresInRow' = 0 /\ backoffUntil' = 0
  /\ failed' = failed + 1
  /\ UNCHANGED <<clock, chainVars, journaled, cursor>>

Watcher ==
  \/ Start \/ Fetch \/ PageDone \/ WriteCursor
  \/ \E t \in ChainTransfers : IngestRow(t)

ScanNext ==
  \/ ClockTick
  \/ \E t \in ChainTransfers : Appear(t) \/ \E k \in (- ClockSkew) .. ClockSkew : Confirm(t, k)
  \/ Watcher \/ Fail \/ Crash

ScanSpec == ScanInit /\ [][ScanNext]_scanVars

(* The interval fires, statements complete, time passes, and the indexer    *)
(* shows what is confirmed.                                                *)
ScanFairSpec ==
  /\ ScanSpec /\ WF_scanVars(Watcher) /\ WF_scanVars(ClockTick)
  /\ \A t \in ChainTransfers : WF_scanVars(Appear(t))

-----------------------------------------------------------------------------
(* Locals of a pass.                                                       *)
Passes ==
  [pc : {"idle", "fetch", "page", "write"}, start : Nat, from : Int,
   after : ChainTransfers \cup {0}, more : BOOLEAN, page : SUBSET ChainTransfers,
   maxSeen : Int, pages : 0 .. MaxPages]

(* Every variable stays in its type, and only what the API returned is      *)
(* journaled.                                                               *)
ScanTypeOK ==
  /\ clock \in 0 .. LastTime
  /\ sent \subseteq ChainTransfers /\ visible \subseteq sent
  /\ time \in [ChainTransfers -> Int]
  /\ journaled \subseteq visible
  /\ cursor \in [set : BOOLEAN, at : Int]
  /\ scan \in Passes
  /\ backoffUntil \in Int /\ failuresInRow \in Nat /\ failed \in 0 .. MaxScanFailures

(* The cursor never passes a transfer that is not in the journal, whatever  *)
(* fails in a pass and however late the indexer shows it: an outage delays  *)
(* the detection of a payment and never skips one.                          *)
NothingSkipped ==
  cursor.set => \A t \in sent \ journaled : time[t] >= cursor.at

(* The cursor only moves forward.                                           *)
CursorForward == [][cursor.set => cursor'.at >= cursor.at]_scanVars

(* Every transfer gets into the journal.                                    *)
EveryTransferJournaled == \A t \in ChainTransfers : t \in sent ~> t \in journaled
==============================================================================
