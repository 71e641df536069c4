------------------------------ MODULE DealImports ------------------------------
(***************************************************************************)
(* The ways deals come in other than by hand, for one tenant: the CRM      *)
(* picker and its import, the CSV import, and the deal-stage webhook.  An  *)
(* import works its deals off one at a time, a workspace and then a plan;  *)
(* its page may have given up on it, and tried again, before it is done.   *)
(*                                                                         *)
(* The connection to the CRM is CrmTokens's, the limit on active deals     *)
(* does not apply to the drafts that are made here (DealLifecycle).        *)
(***************************************************************************)
EXTENDS Integers, Sequences, FiniteSets, SequencesExt

CONSTANTS CrmDeals, MaxImports, MaxPicked

ASSUME ImportsAssumption == MaxImports \in Nat /\ MaxPicked \in Nat

VARIABLES
    made,         \* workspaces brought in: deal, run, anchored, whole
    imports,      \* the runs of an import, numbered; see NewRun
    importRuns,
    picker,       \* deals the panel lists
    unlisted,     \* ... or it shows that they could not be listed
    busy,         \* ... or shows as loading
    listing,      \* refreshDeals under way
    refreshing,   \* one of them ends the import in flight
    following,    \* the run whose reply the panel awaits, or 0
    lastPicked, summary,
    lostInDb      \* runs that died, or lost an answer of the database

pickerVars == <<picker, unlisted>>
panelVars == <<pickerVars, busy, listing, refreshing, following, lastPicked, summary>>
importVars == <<made, imports, importRuns, panelVars, lostInDb>>

NoSummary == [status |-> "none", imported |-> 0, run |-> 0, retryable |-> FALSE, reconnect |-> FALSE]
NewRun(kind, todo) == [kind |-> kind, pc |-> "new", todo |-> todo, done |-> 0, refused |-> {}]

(* A run whose reply has been read, or will never be: what it held is gone. *)
Read(run, pc) == [NewRun(run.kind, <<>>) EXCEPT !.pc = pc]

ImportsInit ==
    /\ made = {} /\ imports = <<>> /\ importRuns = 0
    /\ picker = {} /\ unlisted = FALSE /\ busy = TRUE /\ listing = 1
    /\ refreshing = FALSE /\ following = 0
    /\ lastPicked = <<>> /\ summary = NoSummary /\ lostInDb = {}

Anchored == {w.deal : w \in {v \in made : v.anchored}}

-------------------------------------------------------------------------------
(* What comes from outside, and how it is judged. *)

(* classifyHttpFailure of the two adapters, after get-client's own retry. *)
Classify(crmProvider, status, code) ==
    CASE status = 401 -> "token_expired"
      [] status = 429 /\ crmProvider = "hubspot" -> "rate_limited"
      [] status = 403 /\ crmProvider = "salesforce" /\ code = "REQUEST_LIMIT_EXCEEDED" -> "rate_limited"
      [] status = 403 /\ crmProvider = "salesforce" /\ code = "API_DISABLED_FOR_ORG" -> "unknown"
      [] status >= 500 -> "unknown"
      [] OTHER -> "invalid_data"
ToListFailureReason(reason) == IF reason = "invalid_data" THEN "unknown" ELSE reason
HttpFailures == {Classify(p, s, c) : p \in {"hubspot", "salesforce"}, s \in {401, 403, 404, 429, 500},
                                     c \in {"REQUEST_LIMIT_EXCEEDED", "API_DISABLED_FOR_ORG", ""}}

(* mapDealToWorkspace: the first field that cannot be taken refuses the deal;
   close date and amount never do. *)
Fields == {"deal name", "company", "domain", "contact", "stage"}
Verdicts == {"good", "blank", "bad"}
Details == {[f \in Fields |-> IF f = field THEN verdict ELSE "good"] : field \in Fields, verdict \in Verdicts}
MapDealToWorkspace(detail) ==
    IF /\ \A f \in Fields \ {"contact"} : detail[f] = "good"
       /\ detail["contact"] # "bad" THEN "ok" ELSE "invalid_data"

(* parseCsv: the whole file is refused, or all its rows are there.
   validateImportRow refuses a row of its own: a date in the past does, too. *)
CsvFiles == {f \in [bytes : {"none", "fits", "too many"}, utf8 : BOOLEAN, wellFormed : BOOLEAN,
                    header : {"exact", "duplicate", "missing", "unknown"}, rows : 1..(MaxPicked + 1)] :
                 f.bytes = "fits" \/ (f.utf8 /\ f.wellFormed /\ f.header = "exact")}
ParseCsv(file) ==
    /\ file.bytes = "fits" /\ file.utf8 /\ file.wellFormed
    /\ file.header = "exact" /\ file.rows <= MaxPicked
(* The rows that a submitted file gets to: none of a refused one. *)
CsvRuns == {[i \in 1..(IF ParseCsv(f) THEN f.rows ELSE 0) |-> i] : f \in CsvFiles}
Columns == {"company_name", "company_domain", "contact_email", "plan_title", "target_date"}
CsvRows == {[c \in Columns |-> IF c = column THEN verdict ELSE "good"] : column \in Columns,
                                                                        verdict \in Verdicts}
ValidateImportRow(row) ==
    IF \A c \in Columns : row[c] = "good" \/ (row[c] = "blank" /\ c \in {"contact_email", "target_date"})
    THEN "ok" ELSE "invalid_data"
RowVerdicts == {ValidateImportRow(r) : r \in CsvRows}
DealVerdicts == {MapDealToWorkspace(d) : d \in Details} \cup HttpFailures

(* deriveStatus, summarizeCrmImport and summarizeImport, of the deals done and
   the reasons the others were refused for. *)
Summarize(run, done, refused) ==
    [status    |-> IF refused = {} THEN "complete" ELSE IF done = 0 THEN "failed" ELSE "partial",
     imported  |-> done, run |-> run,
     retryable |-> refused \cap {"rate_limited", "unknown"} # {},
     reconnect |-> "token_expired" \in refused]

-------------------------------------------------------------------------------
(* The panel of the CRM import. *)

(* refreshDeals: on mount, on the picker's own Retry, after an import. *)
RefreshDeals ==
    /\ unlisted /\ ~busy /\ listing < 2
    /\ listing' = listing + 1 /\ busy' = TRUE
    /\ UNCHANGED <<made, imports, importRuns, pickerVars, refreshing, following,
                   lastPicked, summary, lostInDb>>

(* listHubSpotDeals, listSalesforceDeals: every page, at most twenty, without
   the deals there are already; or a typed failure, or a throw. *)
ListFailures == {ToListFailureReason(r) : r \in HttpFailures}
DealsListed ==
    /\ listing > 0 /\ listing' = listing - 1 /\ busy' = FALSE
    /\ refreshing' \in {FALSE, refreshing /\ listing > 1}
    /\ \/ picker' = CrmDeals \ Anchored /\ unlisted' = FALSE
       \/ ListFailures # {} /\ unlisted' = TRUE /\ UNCHANGED picker
    /\ UNCHANGED <<made, imports, importRuns, following, lastPicked, summary, lostInDb>>

(* runImport, from the picker or from the summary's Retry: one at a time, and
   one is over when the list it refreshed is there. *)
Begins(kind, todo) ==
    /\ importRuns < MaxImports /\ importRuns' = importRuns + 1
    /\ imports' = Append(imports, NewRun(kind, todo))
    /\ UNCHANGED <<made, lostInDb>>
RunImport(picked) ==
    /\ picked # <<>> /\ following = 0 /\ ~refreshing
    /\ Begins("crm", picked) /\ following' = importRuns + 1
    /\ lastPicked' = picked /\ busy' = TRUE
    /\ UNCHANGED <<pickerVars, listing, refreshing, summary>>
(* Deals are sent in the order they were ticked. *)
PickDeals ==
    /\ ~busy /\ ~unlisted
    /\ \E picked \in BoundedSeq(picker, MaxPicked) : IsInjective(picked) /\ RunImport(picked)
RetryImport == summary.retryable /\ RunImport(lastPicked)

(* The reply: a run that brought something in refreshes the list first. *)
ImportAnswered ==
    LET run == following IN
    /\ run # 0 /\ imports[run].pc = "over" /\ following' = 0
    /\ summary' = Summarize(run, imports[run].done, imports[run].refused)
    /\ refreshing' = (summary'.imported > 0) /\ busy' = refreshing'
    /\ listing' = IF refreshing' THEN listing + 1 ELSE listing
    /\ imports' = [imports EXCEPT ![run] = Read(imports[run], "over")]
    /\ UNCHANGED <<made, importRuns, pickerVars, lastPicked, lostInDb>>

(* importThrownResult: the answer is lost, or the run died; it may go on. *)
ImportThrown ==
    /\ following # 0 /\ following' = 0 /\ busy' = FALSE
    /\ summary' = [NoSummary EXCEPT !.status = "failed", !.retryable = TRUE]
    /\ UNCHANGED <<made, imports, importRuns, pickerVars, listing, refreshing,
                   lastPicked, lostInDb>>

(* The CSV panel: importDealsFromCsv of a file. *)
SubmitCsv == \E rows \in CsvRuns :
    /\ Begins("csv", rows)
    /\ UNCHANGED panelVars

-------------------------------------------------------------------------------
(* The server, run by run. *)
Runs == DOMAIN imports
At(run, pc) == imports[run].pc = pc
Item(run) == imports[run].todo[1]
Sets(run, value) == imports' = [imports EXCEPT ![run] = value]
Goes(run, pc) == Sets(run, [imports[run] EXCEPT !.pc = pc])
(* Those of a run's deals that may go on, and why the others may not. *)
Passing(todo, verdict) ==
    FoldLeft(LAMBDA kept, d : IF verdict[d] = "ok" THEN Append(kept, d) ELSE kept, <<>>, todo)
Keeps(run, pc, verdict) ==
    Sets(run, [imports[run] EXCEPT
        !.pc = pc, !.todo = Passing(@, verdict),
        !.refused = @ \cup ({verdict[d] : d \in ToSet(imports[run].todo)} \ {"ok"})])
(* guardFailureResult: every deal of the run, for the one reason. *)
RefusesAll(run) ==
    Sets(run, [imports[run] EXCEPT !.pc = "over", !.todo = <<>>, !.refused = {"unknown"}])
(* The head of the list is dealt with. *)
Next1(run, reason) ==
    Sets(run, [imports[run] EXCEPT !.pc = "pick", !.todo = Tail(@),
                                   !.done = IF reason = "ok" THEN @ + 1 ELSE @,
                                   !.refused = @ \cup ({reason} \ {"ok"})])

(* importHubSpotDeals, importSalesforceDeals up to the writes: connection,
   rate limit and the cap refuse every deal; then every deal is fetched and
   mapped, or has a reason; then those there already are left out, unless
   they cannot be looked up. *)
FetchAndMapDeals(run) ==
    /\ At(run, "new") /\ imports[run].kind = "crm"
    /\ \/ \E reason \in {"token_expired", "rate_limited", "invalid_data", "unknown"} :
             Keeps(run, "over", [d \in ToSet(imports[run].todo) |-> reason])
       \/ \E verdict \in [ToSet(imports[run].todo) -> DealVerdicts] :
             Keeps(run, "dedupe", verdict)
    /\ UNCHANGED <<made, importRuns, panelVars, lostInDb>>
DedupeAlreadyImported(run) ==
    /\ At(run, "dedupe")
    /\ \/ Keeps(run, "pick", [d \in CrmDeals |-> IF d \in Anchored THEN "invalid_data" ELSE "ok"])
       \/ RefusesAll(run)
    /\ UNCHANGED <<made, importRuns, panelVars, lostInDb>>
ValidateImportRows(run) ==
    /\ At(run, "new") /\ imports[run].kind = "csv"
    /\ \E verdict \in [ToSet(imports[run].todo) -> RowVerdicts] :
          Keeps(run, "pick", verdict)
    /\ UNCHANGED <<made, importRuns, panelVars, lostInDb>>

Mine(run, item) == {w \in made : w.run = run /\ w.deal = item}

(* createWorkspaceForDeal, createWorkspaceForRow: a deal of the CRM that is
   there already is refused by its index, a row of a file never. *)
CreateWorkspace(run) ==
    /\ At(run, "pick") /\ imports[run].todo # <<>>
    /\ LET anchored == imports[run].kind = "crm"
           bare     == [deal |-> Item(run), run |-> run, anchored |-> anchored, whole |-> FALSE]
       IN  \/ /\ anchored /\ Item(run) \in Anchored
              /\ Next1(run, "invalid_data") /\ UNCHANGED <<made, lostInDb>>
           \/ /\ ~(anchored /\ Item(run) \in Anchored)
              /\ made' = made \cup {bare}
              /\ \/ Goes(run, "plan") /\ UNCHANGED lostInDb
                 \/ Next1(run, "unknown") /\ lostInDb' = lostInDb \cup {run}
           \/ Next1(run, "unknown") /\ UNCHANGED <<made, lostInDb>>
    /\ UNCHANGED <<importRuns, panelVars>>

(* Mutant: the result of createPlan is not looked at. *)
BugPlanUnchecked(run) ==
    /\ At(run, "plan") /\ Next1(run, "ok")
    /\ \/ made' = (made \ Mine(run, Item(run)))
                  \cup {[w EXCEPT !.whole = TRUE] : w \in Mine(run, Item(run))}
       \/ UNCHANGED made
    /\ UNCHANGED <<importRuns, panelVars, lostInDb>>

(* createPlan. *)
WriteDeal(run) ==
    /\ At(run, "plan")
    /\ \/ /\ made' = (made \ Mine(run, Item(run)))
                     \cup {[w EXCEPT !.whole = TRUE] : w \in Mine(run, Item(run))}
          /\ (Next1(run, "ok") \/ Goes(run, "rollback"))
       \/ Goes(run, "rollback") /\ UNCHANGED made
    /\ UNCHANGED <<importRuns, panelVars, lostInDb>>

(* Mutant: what a failed plan leaves behind stays. *)
BugNoRollback(run) ==
    /\ At(run, "rollback") /\ Next1(run, "unknown")
    /\ UNCHANGED <<made, importRuns, panelVars, lostInDb>>

(* rollbackWorkspace, and the plan with it; failing is not looked at. *)
RollbackWorkspace(run) ==
    /\ At(run, "rollback") /\ Next1(run, "unknown")
    /\ \/ made' = made \ Mine(run, Item(run)) /\ UNCHANGED lostInDb
       \/ UNCHANGED made /\ lostInDb' = lostInDb \cup {run}
    /\ UNCHANGED <<importRuns, panelVars>>

(* Done.  The reply waits for the panel that follows the run; any other is
   read at once by the CSV panel, or thrown away with the call. *)
WriteCrmImport(run) ==
    /\ At(run, "pick") /\ imports[run].todo = <<>>
    /\ Sets(run, IF following = run THEN [imports[run] EXCEPT !.pc = "over"] ELSE Read(imports[run], "over"))
    /\ UNCHANGED <<made, importRuns, panelVars, lostInDb>>

(* The instance goes: the run ends where it is, and its page is told so. *)
RunDies(run) ==
    /\ imports[run].pc \notin {"over", "dead"} /\ lostInDb' = lostInDb \cup {run}
    /\ Sets(run, Read(imports[run], "dead"))
    /\ UNCHANGED <<made, importRuns, panelVars>>

-------------------------------------------------------------------------------
(* The deal-stage webhook. *)

(* ingestCrmWebhook: refused without secret, deal, domain, stage or a known
   owner, passed over unless the stage is the one a workspace of the tenant
   carries (any one of them: saveTriggerStage writes those there are);
   provisionWorkspaceFromCrm inserts a workspace that has no plan, or finds
   the deal there. *)
Stages == {"default", "chosen"}
IngestCrmWebhook == \E d \in CrmDeals, stage \in Stages, trigger \in Stages :
    /\ stage = trigger /\ d \notin Anchored
    /\ made' = made \cup {[deal |-> d, run |-> 0, anchored |-> TRUE, whole |-> FALSE]}
    /\ UNCHANGED <<imports, importRuns, panelVars, lostInDb>>

ServeRun(run) ==
    \/ FetchAndMapDeals(run) \/ DedupeAlreadyImported(run) \/ ValidateImportRows(run)
    \/ CreateWorkspace(run) \/ WriteDeal(run) \/ RollbackWorkspace(run)
    \/ WriteCrmImport(run) \/ RunDies(run)
ImportsNext ==
    \/ RefreshDeals \/ DealsListed \/ PickDeals \/ RetryImport \/ ImportAnswered \/ ImportThrown
    \/ SubmitCsv \/ IngestCrmWebhook
    \/ \E run \in Runs : ServeRun(run)
ImportsSpec == ImportsInit /\ [][ImportsNext]_importVars

-------------------------------------------------------------------------------
(* What was made has its type, and so have the panel's list, flags and
   counters (what a run and a summary hold is the business of SummaryIsTrue). *)
ImportsTypeOK ==
    /\ picker \subseteq CrmDeals /\ \A w \in made : w.run \in 0..importRuns /\ {w.anchored, w.whole} \subseteq BOOLEAN
    /\ importRuns = Len(imports)
    /\ importRuns <= MaxImports /\ following \in 0..importRuns
    /\ {busy, unlisted, refreshing} \subseteq BOOLEAN /\ listing \in 0..3 /\ lostInDb \subseteq Runs

(* An import leaves no workspace without its plan behind, however its runs,
   the retries of its page and the webhook interleave: unless the run died
   or the database's answer to it was lost. *)
NothingHalfImported ==
    \A w \in made : \/ w.run \in lostInDb \cup {0} \/ w.whole
                    \/ At(w.run, "plan") /\ Item(w.run) = w.deal
                    \/ At(w.run, "rollback") /\ Item(w.run) = w.deal

(* What a summary says was imported is what its run left whole, and a
   complete one has nothing to retry or to reconnect for: unless the
   database's answer to the run was lost. *)
SummaryIsTrue ==
    summary.run \notin lostInDb \cup {0} =>
        /\ summary.imported = Cardinality({w \in made : w.run = summary.run /\ w.whole})
        /\ summary.status = "complete" => ~summary.retryable /\ ~summary.reconnect
===============================================================================
