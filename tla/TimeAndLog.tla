----------------------------- MODULE TimeAndLog -----------------------------
(***************************************************************************)
(* The NTP client (tiku_kits_time_ntp.c) with the calendar it answers in   *)
(* (tiku_kits_time.c), and the syslog client (tiku_kits_net_syslog.c).     *)
(* A time is a day and a second of that day: 86400 divides every constant  *)
(* the code uses.                                                          *)
(***************************************************************************)
EXTENDS Integers, Sequences, FiniteSets

CONSTANTS
  NULL,
  MAX_RETRIES,
  WireDays, WireSeconds,     \* the days since 1900, and seconds of a day, servers send
  MaxPayload,                \* the sizes of UDP_MAX_PAYLOAD that are tried
  Texts,                     \* lengths of host names, tags and messages
  MaxCalls                   \* bound on the calls

VARIABLES
  t,        \* ntp_state, ntp_unix_time, ntp_rx_seconds, ntp_reply_ready, ntp_retries, the port
  log,      \* the syslog settings and the last datagram
  calls

vars == <<t, log, calls>>

(***************************************************************************)
(* The calendar.                                                           *)
(***************************************************************************)
is_leap_year_2000(y) == y % 4 = 0 /\ y % 100 # 0
is_leap_year(y) == (y % 4 = 0 /\ y % 100 # 0) \/ y % 400 = 0
days_in_year(y) == IF is_leap_year(y) THEN 366 ELSE 365
days_in_month(y, m) ==
  IF m = 2 /\ is_leap_year(y) THEN 29
  ELSE <<31, 28, 31, 30, 31, 30, 31, 31, 30, 31, 30, 31>>[m]

LastYear == 2107
time_to_tm(ts) ==
  LET left[y \in 1970..LastYear] == IF y = 1970 THEN ts.day ELSE left[y - 1] - days_in_year(y - 1)
      year == CHOOSE y \in 1970..LastYear : left[y] \in 0..(days_in_year(y) - 1)
      rest[m \in 1..12] == IF m = 1 THEN left[year] ELSE rest[m - 1] - days_in_month(year, m - 1)
      month == CHOOSE m \in 1..12 : rest[m] \in 0..(days_in_month(year, m) - 1)
  IN [year |-> year, month |-> month, day |-> rest[month] + 1, weekday |-> (ts.day + 4) % 7,
      hour |-> ts.sec \div 3600, minute |-> (ts.sec \div 60) % 60, second |-> ts.sec % 60]

(***************************************************************************)
(* The NTP client.  No field of the request comes back in the answer the   *)
(* code looks at: any server packet is taken.                              *)
(***************************************************************************)
UNIX_OFFSET == 25567
Zero == [day |-> 0, sec |-> 0]
NtpIdle == [st |-> "IDLE", time |-> Zero, rx |-> Zero, ready |-> FALSE, retries |-> 0, bound |-> FALSE]
Call == calls < MaxCalls /\ calls' = calls + 1

NtpReset == Call /\ t' = NtpIdle /\ UNCHANGED log

Request(bind, send) ==
  /\ Call
  /\ t.st # "SENT"
  /\ LET r == [t EXCEPT !.ready = FALSE, !.retries = 0, !.time = Zero]
     IN t' = IF bind /\ send THEN [r EXCEPT !.st = "SENT", !.bound = TRUE] ELSE [r EXCEPT !.st = "ERROR"]
  /\ UNCHANGED log

NtpReceive(day, sec) ==
  /\ t.bound
  /\ t' = [t EXCEPT !.rx = [day |-> day, sec |-> sec], !.ready = TRUE]
  /\ UNCHANGED <<log, calls>>

\* A time before 1970, as one past 2036 looks, is given as 0.
ToUnix(rx) == IF rx.day >= UNIX_OFFSET THEN [day |-> rx.day - UNIX_OFFSET, sec |-> rx.sec] ELSE Zero

NtpPoll ==
  /\ t.st = "SENT"
  /\ t' = IF t.ready
          THEN [t EXCEPT !.time = ToUnix(t.rx), !.bound = FALSE, !.st = "DONE", !.ready = FALSE]
          ELSE IF t.retries + 1 >= MAX_RETRIES
          THEN [t EXCEPT !.retries = @ + 1, !.bound = FALSE, !.st = "ERROR"]
          ELSE [t EXCEPT !.retries = @ + 1]
  /\ UNCHANGED <<log, calls>>

NtpAbort ==
  /\ Call
  /\ t' = [t EXCEPT !.bound = FALSE, !.st = "IDLE", !.ready = FALSE, !.retries = 0]
  /\ UNCHANGED log

(***************************************************************************)
(* Syslog: the texts are their lengths.                                    *)
(***************************************************************************)
MAX_HOSTNAME == 8
MAX_TAG == 8
Least(a, b) == IF a <= b THEN a ELSE b
LogIdle(max) == [server |-> FALSE, facility |-> 1, host |-> 6, tag |-> 2, max |-> max, sent |-> NULL]

SetServer == log' = [log EXCEPT !.server = TRUE] /\ UNCHANGED <<t, calls>>
SetFacility(f) == Call /\ log' = [log EXCEPT !.facility = IF f <= 23 THEN f ELSE @] /\ UNCHANGED t
SetHostname(n) == Call /\ log' = [log EXCEPT !.host = Least(n, MAX_HOSTNAME)] /\ UNCHANGED t
SetTag(n) == Call /\ log' = [log EXCEPT !.tag = Least(n, MAX_TAG)] /\ UNCHANGED t

\* u8_to_dec writes one to three digits.
Digits(n) == IF n >= 100 THEN 3 ELSE IF n >= 10 THEN 2 ELSE 1

\* "<PRI>HOST TAG: text", each part cut to the room that is left.
Send(severity, n) ==
  /\ Call
  /\ log.server
  /\ LET max == log.max
         pri == log.facility * 8 + Least(severity, 7)
         opened == 2 + Digits(pri)
         host == opened + Least(log.host, max - opened)
         spaced == IF host < max THEN host + 1 ELSE host
         tag == spaced + Least(log.tag, max - spaced)
         headed == IF tag + 1 < max THEN tag + 2 ELSE tag
         text == Least(n, IF headed < max THEN max - headed ELSE 0)
     IN log' = [log EXCEPT !.sent = [pri |-> pri, header |-> headed, text |-> text, of |-> n, len |-> headed + text]]
  /\ UNCHANGED t

Init == t = NtpIdle /\ (\E max \in MaxPayload : log = LogIdle(max)) /\ calls = 0
NtpNext ==
  \/ NtpReset \/ NtpPoll \/ NtpAbort
  \/ \E bind, send \in BOOLEAN : Request(bind, send)
  \/ \E day \in WireDays, sec \in WireSeconds : NtpReceive(day, sec)
LogNext ==
  \/ SetServer
  \/ \E f \in {0, 1, 23, 24} : SetFacility(f)
  \/ \E n \in Texts : SetHostname(n) \/ SetTag(n) \/ \E severity \in {0, 7, 255} : Send(severity, n)
Next == NtpNext \/ LogNext

(***************************************************************************)
(* Properties.                                                             *)
(***************************************************************************)
\* The client listens exactly while a request is out.
PortHeld == t.bound <=> t.st = "SENT"

\* get_tm: the calendar date of every day the 32-bit clock can name, against the
\* closed form of the Gregorian calendar: the days of the years before, with
\* their leap days, and of the months before make up the day again, and the
\* weekday is the one of Zeller's congruence.
Calendar ==
  t.st = "DONE" =>
    LET tm == time_to_tm(t.time)
        y == tm.year - 1
        years == 365 * y + y \div 4 - y \div 100 + y \div 400
        leap == IF \E n \in 1..30 : 4 * n + 1968 = tm.year /\ tm.year # 2100 THEN 1 ELSE 0
        before == <<0, 31, 59, 90, 120, 151, 181, 212, 243, 273, 304, 334>>[tm.month]
                  + (IF tm.month > 2 THEN leap ELSE 0)
        zm == IF tm.month < 3 THEN tm.month + 12 ELSE tm.month
        zy == IF tm.month < 3 THEN tm.year - 1 ELSE tm.year
        zeller == (tm.day + (13 * (zm + 1)) \div 5 + zy + zy \div 4 - zy \div 100 + zy \div 400) % 7
    IN /\ t.time = ToUnix(t.rx)
       /\ years - 719162 + before + tm.day - 1 = t.time.day
       /\ tm.day <= <<31, 28 + leap, 31, 30, 31, 30, 31, 31, 30, 31, 30, 31>>[tm.month]
       /\ (tm.weekday + 1) % 7 = zeller
       /\ tm.hour * 3600 + tm.minute * 60 + tm.second = t.time.sec

\* A datagram never outgrows its buffer, and text is only lost when it is full.
LogFits ==
  log.sent # NULL =>
    /\ log.sent.len <= log.max /\ log.sent.pri \in 0..191
    /\ log.sent.text < log.sent.of => log.sent.len >= log.max - 1
=============================================================================
