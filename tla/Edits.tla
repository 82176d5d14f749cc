--------------------------------- MODULE Edits ---------------------------------
(***************************************************************************)
(* The configuration of one deployment and the forms that change it: the       *)
(* wizard (DeploymentsService.create), the Settings, Resources, Health and          *)
(* Webhook tabs (update, rename), the per-service tabs of a compose deployment       *)
(* (updateServiceResources), and remove.  A form is filled from the row when it        *)
(* opens and submitted as a whole.  Columns that are always written together are         *)
(* one column here: "ref" is the source, "limits" what one of the tabs with a PATCH of       *)
(* its own columns writes (Resources, Health or Webhook: they differ in nothing else),        *)
(* "file" and "web" the two halves of strategyConfig, "svcLimits" and "svcHealth" the          *)
(* two halves of a service's entry in serviceResources.                                          *)
(***************************************************************************)
EXTENDS Naturals, FiniteSets

CONSTANTS
  Users,  \* pages that can be open at the same time
  MaxOps  \* bound: requests

VARIABLES
  row,     \* the deployments row, or Gone
  tokens,  \* git_credentials rows of the deployment
  routed,  \* it has a domain
  page,    \* each user's form and the request it sent
  want,    \* what the users meant the configuration to be
  muddled, \* requests overlapped, a form was out of date, or a step failed
  ops      \* requests so far

vars == <<row, tokens, routed, page, want, muddled, ops>>

None == "none"
(* Two values a column can have; the name and the source are never empty. *)
Values == {"x", "y"}
Domain(col) == IF col \in {"name", "ref"} THEN Values ELSE {None, "x"}
SettingsColumns == {"name", "ref", "file", "run"}
Columns == SettingsColumns \cup {"web", "limits", "svcLimits", "svcHealth"}
(* The columns a form shows and submits. *)
OwnedBy == [settings |-> SettingsColumns \cup {"token"}, resources |-> {"limits"},
            svcResources |-> {"svcLimits"}, svcHealth |-> {"svcHealth"}]
Kinds == DOMAIN OwnedBy
Compose == {"svcResources", "svcHealth"}
Slots == {1, 2}

Gone == [c \in Columns |-> None]
Exists == row # Gone
HasToken == \E s \in Slots : tokens[s] # None
Token == IF HasToken THEN tokens[CHOOSE s \in Slots : tokens[s] # None] ELSE None
(* The view a form opens with: the row, and of the token only that there is one. *)
Shown == [c \in Columns \cup {"token"} |-> IF c = "token" THEN None ELSE row[c]]
Closed == [at |-> "closed", kind |-> None, shown |-> Gone, col |-> None, val |-> None, read |-> Gone]

TypeOK ==
  /\ row \in [Columns -> Values \cup {None}]
  /\ tokens \in [Slots -> Values \cup {None}] /\ routed \in BOOLEAN
  /\ \A u \in Users : /\ page[u].at \in {"closed", "open", "domain", "rename", "token", "insert", "replace", "update", "merge"}
                      /\ page[u].kind \in Kinds \cup {None, "wizard"}
                      /\ page[u].col \in Columns \cup {None, "token"} /\ page[u].val \in Values \cup {None}
  /\ want \in [Columns \cup {"token"} -> Values \cup {None}]
  /\ muddled \in BOOLEAN /\ ops \in 0..MaxOps

Init ==
  /\ row = Gone /\ tokens = [s \in Slots |-> None] /\ routed = FALSE
  /\ page = [u \in Users |-> Closed]
  /\ want = [c \in Columns \cup {"token"} |-> None] /\ muddled = FALSE /\ ops = 0

InFlight == {u \in Users : page[u].at \notin {"closed", "open"}}
Request(u) == ops < MaxOps /\ ops' = ops + 1
Goes(u, at) == page' = [page EXCEPT ![u].at = at]
Ends(u) == page' = [page EXCEPT ![u] = Closed]
Fails(u) == Ends(u) /\ muddled' = TRUE
Meant(u) == want' = [want EXCEPT ![page[u].col] = page[u].val]

-----------------------------------------------------------------------------
(* create: the row, then the domain, then the token, each in a statement of its own. *)
Create(u, web, token) ==
  /\ page[u] = Closed /\ ~Exists /\ Request(u)
  /\ LET new == [Gone EXCEPT !["name"] = "x", !["ref"] = "x", !["web"] = web] IN
       /\ row' = new
       /\ want' = [c \in Columns \cup {"token"} |-> IF c = "token" THEN token ELSE new[c]]
  /\ page' = [page EXCEPT ![u] = [Closed EXCEPT !.at = "domain", !.kind = "wizard", !.col = "token", !.val = token]]
  /\ muddled' = (muddled \/ InFlight # {})
  /\ UNCHANGED <<tokens, routed>>

(* addDomain may find the name taken: the request fails and the row stays. *)
CreateDomain(u) ==
  /\ page[u].at = "domain"
  /\ \/ /\ routed' = Exists
        /\ IF ~Exists THEN Fails(u)
           ELSE IF page[u].val = None THEN Ends(u) /\ UNCHANGED muddled
           ELSE Goes(u, "token") /\ UNCHANGED muddled
     \/ Fails(u) /\ UNCHANGED routed
  /\ UNCHANGED <<row, tokens, want, ops>>

Remove(u) ==
  /\ page[u].at \in {"closed", "open"} /\ Exists /\ Request(u) /\ Ends(u)
  /\ row' = Gone /\ tokens' = [s \in Slots |-> None] /\ routed' = FALSE
  /\ want' = [c \in Columns \cup {"token"} |-> None]
  /\ muddled' = (muddled \/ InFlight # {})

-----------------------------------------------------------------------------
OpenForm(u, kind) ==
  /\ page[u] = Closed /\ Exists
  /\ page' = [page EXCEPT ![u] = [Closed EXCEPT !.at = "open", !.kind = kind, !.shown = Shown]]
  /\ UNCHANGED <<row, tokens, routed, want, muddled, ops>>

(* The user changes one field and saves: the settings rename first, then the token, then the rest. *)
Submit(u, col, val) ==
  LET p == page[u] IN
  /\ p.at = "open" /\ col \in OwnedBy[p.kind] /\ Request(u)
  /\ col = "token" \/ val # p.shown[col]
  /\ page' = [page EXCEPT ![u].col = col, ![u].val = val, ![u].shown[col] = val,
                          ![u].at = IF col = "name" THEN "rename" ELSE IF col = "token" THEN "token"
                                    ELSE IF p.kind \in Compose THEN "merge" ELSE "update"]
  /\ muddled' = (muddled \/ InFlight # {} \/ \E c \in OwnedBy[p.kind] \ {"token"} : p.shown[c] # row[c])
  /\ UNCHANGED <<row, tokens, routed, want>>

(* rename: refused when another deployment has the name (the unique index sees to what the check       *)
(* misses), and when the row is gone. *)
Rename(u) ==
  /\ page[u].at = "rename"
  /\ \/ /\ Exists /\ row' = [row EXCEPT !["name"] = page[u].val] /\ Goes(u, "update")
        /\ UNCHANGED muddled
     \/ UNCHANGED row /\ IF Exists THEN Ends(u) /\ UNCHANGED muddled ELSE Fails(u)
  /\ UNCHANGED <<tokens, routed, want, ops>>

(* setGitToken looks for a row; clearGitToken deletes. *)
FindToken(u) ==
  /\ page[u].at = "token"
  /\ IF page[u].val = None
     THEN tokens' = [s \in Slots |-> None] /\ Goes(u, "update")
     ELSE UNCHANGED tokens /\ Goes(u, IF HasToken THEN "replace" ELSE "insert")
  /\ UNCHANGED <<row, routed, want, muddled, ops>>

(* The update goes to every row of the deployment; the insert is refused once it is gone. *)
WriteToken(u) ==
  LET p == page[u] IN
  /\ p.at \in {"replace", "insert"}
  /\ IF p.at = "insert"
     THEN IF Exists THEN \E s \in Slots : tokens[s] = None /\ tokens' = [tokens EXCEPT ![s] = p.val]
                    ELSE UNCHANGED tokens
     ELSE tokens' = [s \in Slots |-> IF tokens[s] = None THEN None ELSE p.val]
  /\ IF p.kind = "wizard" THEN Ends(u) /\ UNCHANGED muddled
     ELSE IF Exists THEN Goes(u, "update") /\ UNCHANGED muddled ELSE Fails(u)
  /\ UNCHANGED <<row, routed, want, ops>>

(* What the Settings tab submits: an empty field is not sent, and strategyConfig is built anew from     *)
(* what is, so that an empty file is cleared, an empty command is kept, and the web service, which the   *)
(* tab does not have, is dropped. *)
Settings(p) ==
  [row EXCEPT !["ref"] = p.shown["ref"], !["file"] = p.shown["file"], !["web"] = None,
              !["run"] = IF p.shown["run"] = None THEN @ ELSE p.shown["run"]]

Update(u) ==
  LET p == page[u] IN
  /\ p.at = "update"
  /\ IF ~Exists THEN Fails(u) /\ UNCHANGED <<row, want>>
     ELSE /\ row' = IF p.kind = "settings" THEN Settings(p) ELSE [row EXCEPT ![p.col] = p.val]
          /\ Meant(u) /\ Ends(u) /\ UNCHANGED muddled
  /\ UNCHANGED <<tokens, routed, ops>>

-----------------------------------------------------------------------------
(* updateServiceResources reads the row ... *)
ReadServices(u) ==
  /\ page[u].at = "merge" /\ page[u].read = Gone
  /\ IF Exists THEN page' = [page EXCEPT ![u].read = row] /\ UNCHANGED muddled ELSE Fails(u)
  /\ UNCHANGED <<row, tokens, routed, want, ops>>

(* Mutant: the entry of the service is replaced by what the tab sent. *)
Replaced(p) == [c \in {"svcLimits", "svcHealth"} |-> IF c = p.col THEN p.val ELSE None]

(* ... merges what the tab sent into the service's entry ... *)
Merged(p) == [c \in {"svcLimits", "svcHealth"} |-> IF c = p.col THEN p.val ELSE p.read[c]]

(* ... and writes all of it. *)
WriteServices(u) ==
  LET p == page[u] IN
  /\ p.at = "merge" /\ p.read # Gone
  /\ IF ~Exists THEN Fails(u) /\ UNCHANGED <<row, want>>
     ELSE /\ row' = [c \in Columns |-> IF c \in {"svcLimits", "svcHealth"} THEN Merged(p)[c] ELSE row[c]]
          /\ Meant(u) /\ Ends(u) /\ UNCHANGED muddled
  /\ UNCHANGED <<tokens, routed, ops>>

Next ==
  \E u \in Users :
    \/ \E web, token \in {None, "x"} : Create(u, web, token)
    \/ \E kind \in Kinds : OpenForm(u, kind)
    \/ \E col \in Columns \cup {"token"} : \E val \in Domain(col) : Submit(u, col, val)
    \/ CreateDomain(u) \/ Remove(u) \/ Rename(u) \/ FindToken(u) \/ WriteToken(u) \/ Update(u)
    \/ ReadServices(u) \/ WriteServices(u)

Spec == Init /\ [][Next]_vars

-----------------------------------------------------------------------------
Quiet == InFlight = {}

(* As long as requests come one after another, no form is out of date and no step fails, the            *)
(* configuration is what the users asked for: a save changes what it shows and nothing that another tab *)
(* owns.  The exceptions are the web service and a command that was cleared (DeploymentsService.update,  *)
(* updateServiceResources, SettingsTab.save).                                                              *)
SavesAreExact ==
  Quiet /\ ~muddled =>
    /\ \A c \in Columns \ {"web"} : row[c] = want[c] \/ (c = "run" /\ want[c] = None)
    /\ Token = want["token"] /\ Cardinality({s \in Slots : tokens[s] # None}) <= 1

(* Whatever overlaps, nothing of a deployment outlives it. *)
NothingOutlives == ~Exists => ~HasToken /\ ~routed

(* The three, as one. *)
EditsInv == TypeOK /\ SavesAreExact /\ NothingOutlives

(* "The settings form always submits the full set for the active strategy, so a full rebuild is safe"   *)
(* (deployments.service.ts:281).                                                                           *)
WebServiceKept == Quiet /\ ~muddled => row["web"] = want["web"]

(* "At most one credential row exists per deployment" (deployments.service.ts:205-206). *)
OneToken == Cardinality({s \in Slots : tokens[s] # None}) <= 1

(* "saving one tab would wipe the other's fields" is what the merge is there to prevent                  *)
(* (deployments.service.ts:345-348).                                                                        *)
TabsDoNotWipe ==
  [][\A u \in Users : page[u].at = "merge" /\ page'[u].at = "closed" /\ Exists /\ row' # Gone =>
       \A c \in {"svcLimits", "svcHealth"} \ {page[u].col} : row'[c] = row[c]]_vars

=============================================================================
