----------------------------- MODULE RateLimit -----------------------------
(***************************************************************************)
(* The connection rate limiter: connection counts per address and in       *)
(* total, failed authentications within a window, and bans.  Each          *)
(* operation runs under the limiter's mutex and is one action; a module    *)
(* that composes it says when they happen.                                 *)
(***************************************************************************)
EXTENDS Integers, Sequences, SequencesExt

VARIABLES config,    \* RateLimitConfig: [fails, window, ban, perIP, total]
          records,   \* [ip -> [failed, until, active]], addresses with a record
          total,     \* totalActiveConns
          gauge,     \* the metric that counts banned addresses
          now

limiter == <<config, records, total, gauge, now>>

Fresh == [failed |-> <<>>, until |-> 0, active |-> 0]

getOrCreateRecord(ip) == IF ip \in DOMAIN records THEN records[ip] ELSE Fresh

Put(ip, r) == records' = [i \in DOMAIN records \cup {ip} |-> IF i = ip THEN r ELSE records[i]]

\* After(now, until) and Before(now, until) are both false at the same instant.
IsBanned(r) == r.until # 0 /\ now < r.until

Full == config.total > 0 /\ total >= config.total

Admissible(ip) ==
  LET r == getOrCreateRecord(ip)
  IN  ~IsBanned(r) /\ (config.perIP > 0 => r.active < config.perIP)

\* CheckConnection leaves a record behind unless the server is full.
CheckConnection(ip) ==
  /\ IF Full THEN UNCHANGED records ELSE Put(ip, getOrCreateRecord(ip))
  /\ UNCHANGED <<config, total, gauge, now>>

CheckAllows(ip) == ~Full /\ Admissible(ip)

Count(ip) ==
  /\ Put(ip, [getOrCreateRecord(ip) EXCEPT !.active = @ + 1])
  /\ total' = total + 1

RegisterConnection(ip) ==
  /\ CASE Full -> UNCHANGED <<records, total>>
       [] ~Full /\ ~Admissible(ip) -> Put(ip, getOrCreateRecord(ip)) /\ UNCHANGED total
       [] ~Full /\ Admissible(ip) -> Count(ip)
  /\ UNCHANGED <<config, gauge, now>>

Floor(n) == IF n < 0 THEN 0 ELSE n

UnregisterConnection(ip) ==
  /\ total' = Floor(total - 1)
  /\ records' = IF ip \in DOMAIN records
                THEN [records EXCEPT ![ip].active = Floor(@ - 1)] ELSE records
  /\ UNCHANGED <<config, gauge, now>>

Recent(failed) == SelectSeq(failed, LAMBDA t : t > now - config.window)

\* A ban that is renewed, or that has expired and was not cleared yet, is
\* already in the gauge.
Counts(r) == IF r.until = 0 THEN 1 ELSE 0

RecordFailedAuth(ip) ==
  LET r == getOrCreateRecord(ip)
      failed == Append(r.failed, now)
  IN  /\ IF Len(Recent(failed)) >= config.fails
         THEN /\ Put(ip, [r EXCEPT !.failed = failed, !.until = now + config.ban])
              /\ gauge' = gauge + Counts(r)
         ELSE Put(ip, [r EXCEPT !.failed = failed]) /\ UNCHANGED gauge
      /\ UNCHANGED <<config, total, now>>

RecordSuccessfulAuth(ip) ==
  /\ IF ip \in DOMAIN records
     THEN /\ Put(ip, [records[ip] EXCEPT !.failed = <<>>, !.until = 0])
          /\ gauge' = IF records[ip].until # 0 THEN gauge - 1 ELSE gauge
     ELSE UNCHANGED <<records, gauge>>
  /\ UNCHANGED <<config, total, now>>

Expired(r) == r.until # 0 /\ now > r.until

\* Mutant: the clean-up does not look at the active connections.
DropsBusy(r) == r.failed = <<>> /\ r.until = 0

Unused(r) == r.failed = <<>> /\ r.until = 0 /\ r.active = 0

cleanup ==
  LET clean == [i \in DOMAIN records |->
                  [records[i] EXCEPT !.failed = Recent(@),
                                     !.until = IF Expired(records[i]) THEN 0 ELSE @]]
      kept == {i \in DOMAIN records : ~Unused(clean[i])}
  IN  /\ records' = [i \in kept |-> clean[i]]
      /\ gauge' = gauge - Cardinality({i \in DOMAIN records : Expired(records[i])})
      /\ UNCHANGED <<config, total, now>>

Tick(last) ==
  /\ now < last /\ now' = now + 1
  /\ UNCHANGED <<config, records, total, gauge>>

LimiterInit(c) ==
  /\ config = c /\ records = <<>> /\ total = 0 /\ gauge = 0 /\ now = 1
=============================================================================
