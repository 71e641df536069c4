------------------------------ MODULE RateWindows ------------------------------
(***************************************************************************)
(* The two fixed-window request limiters.  The durable one is a row of     *)
(* rate_limit_windows, advanced by one upsert of check_rate_limit (0016);  *)
(* the in-memory one belongs to a server instance and answers when the     *)
(* store cannot.  A window is the time it began and the requests counted.  *)
(***************************************************************************)
EXTENDS Naturals, FiniteSetsExt

CONSTANTS
    GlobalDaily,      \* EMAIL_DAILY_LIMIT as configured; 0: unset or not a number
    DefaultDaily,     \* 90
    DailyFloor, DailyCeiling,     \* 10, 400
    HourlyFloor, HourlyCeiling,   \* 5, 100
    TargetLimit,      \* 10 code checks per workspace and address
    Hour, Day         \* the two window lengths, in clock ticks

ASSUME RateAssumption ==
    /\ {GlobalDaily, DailyFloor, DailyCeiling, HourlyFloor, HourlyCeiling} \subseteq Nat
    /\ {DefaultDaily, TargetLimit, Hour, Day} \subseteq Nat \ {0}

Unopened == [start |-> 0, count |-> 0]    \* no row, no entry
Lower(a, b) == Min({a, b})
Upper(a, b) == Max({a, b})

(* Parsing is abstracted to its outcome: a positive whole number or not. *)
ResolvedDaily == IF GlobalDaily > 0 THEN GlobalDaily ELSE DefaultDaily

(* A third of the global day and half of that per hour, between a floor and
   a ceiling: small budgets give a tenant more than its share. *)
TenantDaily  == Lower(DailyCeiling, Upper(DailyFloor, ResolvedDaily \div 3))
TenantHourly == Lower(HourlyCeiling, Upper(HourlyFloor, TenantDaily \div 2))

(* The named budgets of the keys the gate charges. *)
Keys == {"target", "tenantHour", "tenantDay", "global"}
Budget(key) ==
    CASE key = "target"     -> [limit |-> TargetLimit,   length |-> Hour]
      [] key = "tenantHour" -> [limit |-> TenantHourly,  length |-> Hour]
      [] key = "tenantDay"  -> [limit |-> TenantDaily,   length |-> Day]
      [] key = "global"     -> [limit |-> ResolvedDaily, length |-> Day]

(* Mutant: every request opens a window of its own. *)
BugReopened(row, key, t) == [start |-> t, count |-> 1]

(* check_rate_limit: one upsert under the row lock.  t is v_now, read when
   the call began and not when it got through the lock.  The count stops one
   past the limit; allowed is read off the row it returns. *)
Upserted(row, key, t) ==
    IF row.count = 0 \/ row.start + Budget(key).length <= t
    THEN [start |-> t, count |-> 1]
    ELSE [row EXCEPT !.count = Lower(@ + 1, Budget(key).limit + 1)]
DurableAllows(row, key, t) == Upserted(row, key, t).count <= Budget(key).limit

(* checkRateLimit: a refusal leaves the entry as it was. *)
MemoryAllows(entry, key, t) ==
    \/ entry.count = 0 \/ t - entry.start >= Budget(key).length
    \/ entry.count < Budget(key).limit
Counted(entry, key, t) ==
    IF entry.count = 0 \/ t - entry.start >= Budget(key).length
    THEN [start |-> t, count |-> 1]
    ELSE IF entry.count < Budget(key).limit THEN [entry EXCEPT !.count = @ + 1] ELSE entry
===============================================================================
