------------------------------ MODULE Reports ------------------------------
(***************************************************************************)
(* The audit file as its readers see it: how records reach it (audit.py),  *)
(* what the start-up reconciliation makes of it (startup_check.py), the    *)
(* paged reader GET /audit (routes.py) and the reports (reporting.py).     *)
(*                                                                         *)
(* The file is the sequence of the lines that parse; the others are        *)
(* skipped by every reader.  torn says that it ends in part of a line: the *)
(* writer's own, or one a lost handle left, behind which the next line is  *)
(* appended without a newline.  A part that ends inside a character is     *)
(* worse: every reader decodes the file as strict utf-8, and fails.        *)
(***************************************************************************)
EXTENDS Integers, SequencesExt

CONSTANTS
  Entry,       \* what is recorded, with the fate its transfer will have on chain, in
               \* behaviours about days, faults or paging
  Process,     \* the order of _process_id prefixes: random, not that of the starts
  Base,        \* of the numerals in record ids (10)
  DayLen,      \* units of time in a day
  Msk,         \* the offset of MSK, in units
  MaxDays,     \* MAX_REPORT_DAYS
  Limit,       \* records on a page, and the most the CLI is asked for
  MaxRecords,  \* bound: lines of the file, in each of these
  MaxWriters,  \* bound: threads in record(), in each of these
  MaxFaults,   \* bound: writes that fail
  MaxTime      \* bound: the clock

ASSUME ReportsAssumption ==
  /\ DOMAIN Entry \subseteq {"days", "faults", "paging"}
  /\ \A f \in DOMAIN Entry : \A e \in Entry[f] : e.amount \in Nat /\ e.wide \in BOOLEAN
  /\ Process \subseteq Nat \ {0} /\ Base \in Nat \ {0, 1}
  /\ DayLen \in Nat \ {0} /\ Msk \in 0..(DayLen - 1)
  /\ MaxDays \in Nat /\ Limit \in Nat \ {0}
  /\ MaxRecords \in [DOMAIN Entry -> Nat] /\ MaxWriters \in [DOMAIN Entry -> Nat]
  /\ MaxFaults \in Nat /\ MaxTime \in Nat

VARIABLES
  file,      \* the records of AUDIT_LOG_FILE that parse, in the order of the lines
  torn,      \* "no", "own" or "left"
  cut,       \* the file ends inside a character
  garbled,   \* a lost handle left it that way: it decodes no more
  fp,        \* the process's handle: "closed" (opened by the first record), "open", "failed"
  backlog,   \* records in the handle's buffer, kept there by failed writes
  process,   \* _process_id, 0 when none runs
  used,      \* the processes so far
  seq,       \* _seq_counter
  pending,   \* records that have an id and a time and are not written
  clock,
  check,     \* the start-up check: "due", "ok", "anomaly", or "none" to report; "closed"
             \* once the file was closed
  page,      \* a client of GET /audit
  acked,     \* history: the records whose record() returned
  tears,     \* history: how often a handle was lost with part of a line written
  faults,    \* bound: the writes that failed
  focus      \* bound: what varies in this behaviour: days, faults or paging

disk == <<file, torn, cut, garbled>>
history == <<acked, tears, faults, focus>>
vars == <<disk, fp, backlog, process, used, seq, pending, clock, check, page, history>>

NoPage == [event |-> "", cursor |-> <<>>, start |-> {}, seen |-> {}, count |-> 0,
           done |-> TRUE, failed |-> FALSE]

Init ==
  /\ file = <<>> /\ torn = "no" /\ cut = FALSE /\ garbled = FALSE
  /\ fp = "closed" /\ backlog = <<>>
  /\ process = 0 /\ used = {} /\ seq = 0 /\ pending = {}
  /\ clock = 0
  /\ check = "none"
  /\ page = NoPage
  /\ acked = {} /\ tears = 0 /\ faults = 0
  /\ focus \in DOMAIN Entry

----------------------------------------------------------------------------
(* record() and the handle under it.                                       *)

\* Mutant of Opened: the file is opened for writing.
OpenedAnew == IF fp = "closed" THEN <<>> ELSE file

\* Append mode.
Opened == file

Decodes == ~ cut /\ ~ garbled

\* What a run of lines adds for readers: the first is lost behind another's torn tail.
Legible(lines) == IF torn = "left" /\ lines # <<>> THEN Tail(lines) ELSE lines

\* How the file may end, with torn and cut, once n of these lines are in it: with part of
\* the next one or not.
Ends(lines, n) ==
  IF n = Len(lines) THEN {<<IF n = 0 THEN torn ELSE "no", FALSE>>}
  ELSE {end \in (IF n = 0 /\ torn # "no" THEN {torn} ELSE {"no", "own"}) \X BOOLEAN :
          end[2] => lines[n + 1].entry.wide /\ end[1] # "no"}

\* write, flush: n lines of the buffer reach the file, the others stay in the buffer.
Flush(lines, n) ==
  /\ fp # "failed" /\ fp' = "open"
  /\ file' = Opened \o Legible(SubSeq(lines, 1, n))
  /\ \E end \in Ends(lines, n) : torn' = end[1] /\ cut' = end[2]
  /\ backlog' = SubSeq(lines, n + 1, Len(lines))
  /\ UNCHANGED garbled

Fault == focus = "faults" /\ faults < MaxFaults /\ faults' = faults + 1

\* record() takes id and time before any lock of the file: other threads may write in
\* between.
Stamped(e) == [id |-> <<process, seq + 1>>, ts |-> clock, entry |-> e]

Stamp(e) ==
  /\ seq' = seq + 1
  /\ pending' = pending \cup {Stamped(e)}
  /\ UNCHANGED <<disk, fp, backlog, process, used, clock, page, history>>

Serving == check # "due" /\ \A r \in pending : r.entry.event # "STARTUP_CHECK"

\* Payouts come after the start-up check, and may come after the inactivity timer has closed
\* the file; the poller is at work before, and its thread may outlive the shutdown.
Record(e) ==
  /\ process # 0
  /\ Serving \/ e.event = "RECEIPT_RESOLVED"
  /\ Len(file) + Len(backlog) + Cardinality(pending) < MaxRecords[focus]
  /\ Cardinality(pending) < MaxWriters[focus]
  /\ Stamp(e)
  /\ UNCHANGED check

\* _write_durable, under _file_lock.  Every outcome but the first raises AuditWriteError:
\* the flush may end anywhere, fsync may fail, and so may the open, for good; and the
\* handle that was got before the lock may have been closed.
Write(r) ==
  /\ r \in pending
  /\ pending' = pending \ {r}
  /\ LET lines == Append(backlog, r)
     IN \/ Flush(lines, Len(lines)) /\ acked' = acked \cup {r} /\ UNCHANGED faults
        \/ /\ Fault
           /\ \/ \E n \in 0..Len(lines) : Flush(lines, n)
              \/ fp # "open" /\ fp' = "failed" /\ UNCHANGED <<disk, backlog>>
              \/ check = "closed" /\ UNCHANGED <<disk, fp, backlog>>
           /\ UNCHANGED acked
  /\ UNCHANGED <<process, used, seq, clock, check, page, tears, focus>>

----------------------------------------------------------------------------
(* The process.                                                            *)

Start(p) ==
  /\ process = 0
  /\ p \notin used
  /\ process' = p /\ used' = used \cup {p}
  /\ seq' = 0 /\ check' = "due"
  /\ UNCHANGED <<disk, fp, backlog, pending, clock, page, history>>

\* The handle is gone with its buffer, and the file ends as it does.
Lost(t, c) ==
  /\ backlog' = <<>>
  /\ torn' = IF t = "no" THEN "no" ELSE "left"
  /\ tears' = IF t = "own" THEN tears + 1 ELSE tears
  /\ cut' = FALSE /\ garbled' = (garbled \/ c)

Die ==
  /\ process # 0
  /\ process' = 0 /\ fp' = "closed" /\ pending' = {} /\ check' = "none"
  /\ Lost(torn, cut)
  /\ UNCHANGED <<file, used, seq, clock, page, acked, faults, focus>>

\* close_audit_file, by the inactivity timer under running handlers or by the shutdown: what
\* its flush raises is ignored, and a record() that comes later opens the file anew.
Close ==
  /\ process # 0
  /\ Serving
  /\ fp = "open" /\ fp' = "closed"
  /\ check' = "closed"
  /\ \E n \in 0..Len(backlog) :
       /\ \/ n = Len(backlog) /\ UNCHANGED faults
          \/ Fault
       /\ file' = file \o Legible(SubSeq(backlog, 1, n))
       /\ \E end \in Ends(backlog, n) : Lost(end[1], end[2])
  /\ UNCHANGED <<process, used, seq, pending, clock, page, acked, focus>>

\* The wall clock, which may be set back.
TimePasses ==
  /\ focus = "days"
  /\ \/ clock < MaxTime /\ clock' = clock + 1
     \/ clock > 0 /\ clock' = clock - 1
  /\ UNCHANGED <<disk, fp, backlog, process, used, seq, pending, check, page, history>>

----------------------------------------------------------------------------
(* run_startup_check.                                                      *)

MskDay(t) == (t + Msk) \div DayLen

\* Mutant of WindowStart: midnight UTC.
WindowStartUtc == (clock \div DayLen) * DayLen

\* Midnight MSK today, in UTC.
WindowStart == MskDay(clock) * DayLen - Msk

\* None when the file does not decode.
Successes == {r \in Range(file) : /\ Decodes
                                  /\ r.entry.event = "SEND_SUCCESS" /\ r.ts >= WindowStart}

\* The receipt code of a transfer; every lookup fails when the node is down.
Verify(r, down) == IF down THEN "RPC_ERROR" ELSE r.entry.fate

Duplicates == {a \in {r.entry.to : r \in Successes} :
                 Cardinality({r \in Successes : r.entry.to = a}) > 1}

\* Its summary is a record itself; a failure to write it is logged.
StartupCheck(down) ==
  /\ check = "due"
  /\ IF Successes = {}
     THEN check' = "none"
          /\ UNCHANGED <<disk, fp, backlog, process, used, seq, pending, clock, page, history>>
     ELSE LET fine == Duplicates = {} /\ \A r \in Successes : Verify(r, down) = "SUCCESS"
          IN /\ check' = IF fine THEN "ok" ELSE "anomaly"
             /\ Stamp([event |-> "STARTUP_CHECK", to |-> "", amount |-> 0,
                       sanctions |-> FALSE, fate |-> "", wide |-> FALSE])

----------------------------------------------------------------------------
(* GET /audit.  Ids are compared as strings: prefix, then numeral.         *)

\* Base ^ k
Power[k \in Nat] == IF k = 0 THEN 1 ELSE Base * Power[k - 1]

Digits(n) == CHOOSE k \in 1..n : Power[k - 1] <= n /\ n < Power[k]

\* n < m as numerals without leading zeros.
NumeralBelow(n, m) ==
  LET a == n * Power[Digits(m)]
      b == m * Power[Digits(n)]
  IN a < b \/ (a = b /\ n < m)

IdBelow(x, y) == x[1] < y[1] \/ (x[1] = y[1] /\ NumeralBelow(x[2], y[2]))

\* The items of a list that are in S, in their order.
Where(s, S) == FoldLeft(LAMBDA kept, x : IF x \in S THEN Append(kept, x) ELSE kept, <<>>, s)

\* list.sort(): x may stand before y when <<x, y>> is in R; items that tie stay in their order.
Inserted(s, x, R) == Where(s, {y \in Range(s) : <<y, x>> \in R}) \o <<x>>
                     \o Where(s, {y \in Range(s) : <<y, x>> \notin R})

Sorted(s, R) == FoldLeft(LAMBDA sorted, x : Inserted(sorted, x, R), <<>>, s)

Matching(event) == Where(file, {r \in Range(file) : event = "" \/ r.entry.event = event})

Newest(records) ==
  Sorted(records, {p \in Range(records) \X Range(records) : ~ IdBelow(p[1].id, p[2].id)})

Before(records, cursor) ==
  Where(records, {r \in Range(records) : cursor = <<>> \/ IdBelow(r.id, cursor)})

Take(s, n) == SubSeq(s, 1, IF Len(s) < n THEN Len(s) ELSE n)

\* Mutant of Page: the page is cut before the cursor is applied.
PageCutFirst(event, cursor) ==
  Before(Take(Newest(Matching(event)), Limit), cursor)

Page(event, cursor) == Take(Before(Newest(Matching(event)), cursor), Limit)

\* A client pages once, back from the newest record until a page is short, passing the last
\* id of each page as before_id.
FirstPage(event) ==
  /\ focus = "paging"
  /\ page = NoPage
  /\ page' = [event |-> event, cursor |-> <<>>, start |-> Range(Matching(event)),
              seen |-> {}, count |-> 0, done |-> FALSE, failed |-> FALSE]
  /\ UNCHANGED <<disk, fp, backlog, process, used, seq, pending, clock, check, history>>

\* A read that raises is answered with an error and no records, one that meets a file that
\* does not decode with a 500: the client gives up.
NextPage(raises) ==
  /\ process # 0
  /\ ~ page.done
  /\ IF raises \/ ~ Decodes
     THEN page' = [page EXCEPT !.done = TRUE, !.failed = TRUE]
     ELSE LET records == Page(page.event, page.cursor)
          IN page' = [page EXCEPT !.seen = @ \cup Range(records), !.count = @ + Len(records),
                                  !.cursor = IF records = <<>> THEN @ ELSE Last(records).id,
                                  !.done = Len(records) < Limit]
  /\ UNCHANGED <<disk, fp, backlog, process, used, seq, pending, clock, check, history>>

Next ==
  \/ \E e \in Entry[focus] : Record(e)
  \/ \E p \in Process : Start(p)
  \/ \E r \in pending : Write(r)
  \/ Die \/ Close \/ TimePasses
  \/ \E down \in BOOLEAN : StartupCheck(down)
  \/ \E event \in {""} \cup {e.event : e \in Entry[focus]} : FirstPage(event)
  \/ \E raises \in BOOLEAN : NextPage(raises)

Spec == Init /\ [][Next]_vars

----------------------------------------------------------------------------
(* reporting.py                                                            *)

Column == {"SEND_SUCCESS", "SEND_REJECTED", "SEND_FAILED", "SEND_DUPLICATE",
           "RESOLVED_SUCCESS", "RESOLVED_FAILURE"}

Day(r) == r.ts \div DayLen

Row == [count |-> [c \in Column |-> 0], volume |-> 0, recipients |-> {}]

ColumnOf(e) ==
  IF e.event # "RECEIPT_RESOLVED" THEN e.event
  ELSE IF e.fate = "SUCCESS" THEN "RESOLVED_SUCCESS" ELSE "RESOLVED_FAILURE"

Counted(row, e) ==
  IF ColumnOf(e) \notin Column THEN row
  ELSE [count |-> [row.count EXCEPT ![ColumnOf(e)] = @ + 1],
        volume |-> row.volume + (IF e.event = "SEND_SUCCESS" THEN e.amount ELSE 0),
        recipients |-> row.recipients \cup (IF e.event = "SEND_SUCCESS" THEN {e.to} ELSE {})]

ValidRange(from, to) == from <= to /\ to - from + 1 <= MaxDays

\* _iter_audit_records: the lines before the read raised an OSError, if it did; no one is
\* told.
Read(n) == SubSeq(file, 1, n)

\* One pass over the lines, into a row per day.
Buckets(from, to, lines) ==
  FoldLeft(LAMBDA rows, r : IF Day(r) \in from..to THEN [rows EXCEPT ![Day(r)] = Counted(@, r.entry)]
                            ELSE rows,
           [d \in from..to |-> Row], lines)

\* Mutant of Total: the recipients of the days are added up.
TotalOfDays(rows) ==
  [count |-> [c \in Column |-> SumFunction([d \in DOMAIN rows |-> rows[d].count[c]])],
   volume |-> SumFunction([d \in DOMAIN rows |-> rows[d].volume]),
   recipients |-> SumFunction([d \in DOMAIN rows |-> Cardinality(rows[d].recipients)])]

Total(rows) ==
  [count |-> [c \in Column |-> SumFunction([d \in DOMAIN rows |-> rows[d].count[c]])],
   volume |-> SumFunction([d \in DOMAIN rows |-> rows[d].volume]),
   recipients |-> Cardinality(UNION {rows[d].recipients : d \in DOMAIN rows})]

SanctionsHits(from, to, lines) ==
  Sorted(Where(lines, {r \in Range(lines) : /\ r.entry.event = "SEND_REJECTED"
                                            /\ r.entry.sanctions /\ Day(r) \in from..to}),
         {p \in Range(lines) \X Range(lines) : p[1].ts <= p[2].ts})

BadRange == [error |-> "REPORT_BAD_RANGE"]
Unreadable == [error |-> "INTERNAL_ERROR"]

\* GET /reports/period and /reports/sanctions-hits, of the first n lines.
PeriodReport(from, to, n) ==
  CASE ~ ValidRange(from, to) -> BadRange
    [] ValidRange(from, to) /\ ~ Decodes -> Unreadable
    [] OTHER -> LET rows == Buckets(from, to, Read(n)) IN [days |-> rows, total |-> Total(rows)]

SanctionsReport(from, to, n) ==
  CASE ~ ValidRange(from, to) -> BadRange
    [] ValidRange(from, to) /\ ~ Decodes -> Unreadable
    [] OTHER -> [hits |-> SanctionsHits(from, to, Read(n))]

\* `skr-crypto audit --today --limit': the file's lines of the MSK day, last one first.
AuditToday(event, limit) ==
  Take(Reverse(Where(Matching(event), {r \in Range(file) : r.ts >= WindowStart})), limit)

----------------------------------------------------------------------------
(* Properties.                                                             *)

\* What is in the file for a reader.
Readable == IF Decodes THEN Range(file) ELSE {}

\* A record whose record() returned can be read back for ever, as long as the file decodes:
\* each handle that is lost with part of a line written costs the readers at most one such
\* record, the one appended behind the part (_write_durable, close_audit_file of audit.py).
\* A part that ends inside a character costs every reader the whole file.
TearLosesOneRecord == Decodes => Cardinality(acked \ Readable) <= tears

\* A client that pages GET /audit to its end, and gets no error, is given every record that
\* was there when it began, and none twice, although ids sort as strings (pid-10 before
\* pid-9), later processes may sort below earlier ones, lines are not in the order of ids
\* and records keep arriving between pages.
PagingIsComplete ==
  /\ page.count = Cardinality(page.seen)
  /\ page.done /\ ~ page.failed => page.start \subseteq page.seen

\* The lines of the payouts of this MSK day, or later by a clock that was set back.
Today == {i \in DOMAIN file : /\ file[i].entry.event = "SEND_SUCCESS"
                              /\ MskDay(file[i].ts) >= MskDay(clock)}

OkIsTrue ==
  /\ \A i \in Today : file[i].entry.fate = "SUCCESS"
  /\ \A i, j \in Today : file[i].entry.to = file[j].entry.to => i = j

\* What is shown of them: the last lines, each before the ones above it in the file.
ShowsLast(shown, limit) ==
  /\ Range(shown) \subseteq {file[i] : i \in Today}
  /\ Len(shown) < limit => {file[i] : i \in Today} \subseteq Range(shown)
  /\ \A i, j \in Today : \A k \in DOMAIN shown :
       i < j /\ shown[k] = file[i] => \E l \in 1..(k - 1) : shown[l] = file[j]

\* When the start-up check reports ok, every readable payout of this MSK day is on chain
\* with SUCCESS and no recipient was paid twice in it (run_startup_check), and `skr-crypto
\* audit --today' shows the last lines of these payouts, latest line first.
StartupOkIsTrue ==
  [][check = "due" /\ check' = "ok" =>
       OkIsTrue /\ \A n \in 1..Limit : ShowsLast(AuditToday("SEND_SUCCESS", n), n)]_vars

\* For every range a report may cover, the TOTAL row says what a count over the records of
\* those days says, recipients once each, and the sanctions report lists each hit of those
\* days in order of time (aggregate_period, list_sanctions_hits): the records of the whole
\* file, or of the lines before the read raised.  A range it may not cover is refused, and
\* no report is made of a file that does not decode.
ReportsAddUp ==
  \A from \in 0..(MaxTime \div DayLen), to \in 0..((MaxTime \div DayLen) + 1), n \in 0..Len(file) :
    LET report == PeriodReport(from, to, n)
        sanctions == SanctionsReport(from, to, n)
    IN IF ~ ValidRange(from, to) \/ ~ Decodes THEN report = sanctions /\ "error" \in DOMAIN report
       ELSE LET within == {r \in Range(Read(n)) : Day(r) \in from..to}
                paid == {r \in within : r.entry.event = "SEND_SUCCESS"}
                hits == sanctions.hits
            IN /\ \A c \in Column :
                    report.total.count[c] = Cardinality({r \in within : ColumnOf(r.entry) = c})
               /\ report.total.volume = SumFunction([r \in paid |-> r.entry.amount])
               /\ report.total.recipients = Cardinality({r.entry.to : r \in paid})
               /\ Range(hits) = {r \in within : r.entry.event = "SEND_REJECTED" /\ r.entry.sanctions}
               /\ \A i \in 1..(Len(hits) - 1) : hits[i].ts <= hits[i + 1].ts
============================================================================
