-------------------------------- MODULE Secrets --------------------------------
(***************************************************************************)
(* The values Willy keeps encrypted with its master key, the requests that    *)
(* write them (EnvVarsService, DestinationsService, WebhooksService,             *)
(* DeploymentsService, TwoFactorService), and the script rotate-key, which          *)
(* re-encrypts them under a new key while the server may be at work.  AES-GCM         *)
(* is modelled by what it does: a text opens under the key it was sealed with          *)
(* and under no other.                                                                  *)
(***************************************************************************)
EXTENDS Naturals, Sequences

CONSTANTS
  EnvVars,  \* rows of env_vars
  Texts,    \* values a user can store
  Requests, \* updateMeta requests that may be under way at the same time
  MaxOps    \* bound: requests

VARIABLES
  row,     \* the rows with a sealed value
  server,  \* the key of the running server
  script,  \* the rotation: the tables still to do, the rows of the present one as selected
  meta,    \* updateMeta requests under way
  stored,  \* what the user last stored in each row
  secret,  \* rows whose value the user stored as a secret
  busy,    \* the server wrote a row between the start of a rotation and its own restart
  crossed, \* variables another request changed during an updateMeta
  ops      \* requests so far

vars == <<row, server, script, meta, stored, secret, busy, crossed, ops>>

None == "none"
Others == {"destination", "hook", "token", "totp"}
Rows == EnvVars \cup Others
Absent == [text |-> None, key |-> None, secret |-> FALSE]
There == {r \in Rows : row[r] # Absent}
Idle == [id |-> None, to |-> FALSE]

(* The rows of each table. *)
RowsOf == [env_vars |-> EnvVars, backup_destinations |-> {"destination"},
           webhook_secrets |-> {"hook"}, git_credentials |-> {"token"}, users |-> {"totp"}]

(* Mutant: a table is forgotten. *)
TablesButTokens == <<"env_vars", "backup_destinations", "webhook_secrets">>

(* The tables main() goes through. *)
RotatedTables == <<"env_vars", "backup_destinations", "webhook_secrets", "git_credentials">>

TypeOK ==
  /\ row \in [Rows -> [text : Texts \cup {None}, key : {"old", "new", None}, secret : BOOLEAN]]
  /\ server \in {"old", "new"}
  /\ script.at \in {"off", "running", "failed", "done"}
  /\ script.left \in 0..Len(RotatedTables) /\ script.todo \subseteq Rows
  /\ script.read \in [Rows -> [text : Texts \cup {None}, key : {"old", "new", None}, secret : BOOLEAN]]
  /\ meta \in [Requests -> [id : EnvVars \cup {None}, to : BOOLEAN]]
  /\ stored \in [Rows -> Texts \cup {None}] /\ secret \subseteq EnvVars
  /\ busy \in BOOLEAN /\ crossed \subseteq EnvVars /\ ops \in 0..MaxOps

NoRead == [r \in Rows |-> Absent]

Init ==
  /\ row = [r \in Rows |-> Absent] /\ server = "old"
  /\ script = [at |-> "off", left |-> 0, todo |-> {}, read |-> NoRead]
  /\ meta = [q \in Requests |-> Idle] /\ stored = [r \in Rows |-> None]
  /\ secret = {} /\ busy = FALSE /\ crossed = {} /\ ops = 0

Request == ops < MaxOps /\ ops' = ops + 1
Wrote == busy' = (busy \/ (script.at # "off" /\ server = "old"))
Pending(v) == \E q \in Requests : meta[q].id = v
Crosses(v) == crossed' = IF Pending(v) THEN crossed \cup {v} ELSE crossed \ {v}

-----------------------------------------------------------------------------
(* EnvVarsService.set writes the whole row in one statement. *)
SetVar(v, text, asSecret) ==
  /\ Request /\ Wrote /\ Crosses(v)
  /\ row' = [row EXCEPT ![v] = [text |-> text, key |-> server, secret |-> asSecret]]
  /\ stored' = [stored EXCEPT ![v] = text]
  /\ secret' = IF asSecret THEN secret \cup {v} ELSE secret \ {v}
  /\ UNCHANGED <<server, script, meta>>

(* create of a destination, rotateSecret, setGitToken, the start of a 2FA setup. *)
Store(r, text) ==
  /\ Request /\ Wrote
  /\ row' = [row EXCEPT ![r] = [text |-> text, key |-> server, secret |-> TRUE]]
  /\ stored' = [stored EXCEPT ![r] = text]
  /\ UNCHANGED <<server, script, meta, secret, crossed>>

Delete(r) ==
  /\ r \in There /\ Request /\ Wrote /\ Crosses(r)
  /\ row' = [row EXCEPT ![r] = Absent] /\ stored' = [stored EXCEPT ![r] = None]
  /\ secret' = secret \ {r}
  /\ UNCHANGED <<server, script, meta>>

(* updateMeta reads the type and refuses to turn a secret into a regular variable ... *)
MayBecome(v, to) == v \in There /\ (row[v].secret => to)
ReadMeta(q, v, to) ==
  /\ meta[q] = Idle /\ Request /\ MayBecome(v, to)
  /\ meta' = [meta EXCEPT ![q] = [id |-> v, to |-> to]]
  /\ UNCHANGED <<row, server, script, stored, secret, busy, crossed>>

(* ... and writes it: no row, no effect. *)
WriteMeta(q) ==
  LET v == meta[q].id IN
  /\ v # None
  /\ row' = IF v \in There THEN [row EXCEPT ![v].secret = meta[q].to] ELSE row
  /\ secret' = IF v \in There /\ meta[q].to THEN secret \cup {v} ELSE secret
  /\ meta' = [meta EXCEPT ![q] = Idle]
  /\ crossed' = IF \E p \in Requests \ {q} : meta[p].id = v THEN crossed \cup {v} ELSE crossed
  /\ UNCHANGED <<server, script, stored, busy, ops>>

-----------------------------------------------------------------------------
(* rotate-key: each table is selected as a whole ... *)
Select(left) ==
  LET todo == There \cap RowsOf[RotatedTables[Len(RotatedTables) + 1 - left]]
  IN [at |-> "running", left |-> left, todo |-> todo,
      read |-> [r \in Rows |-> IF r \in todo THEN row[r] ELSE Absent]]

StartRotation ==
  /\ script.at \in {"off", "failed"} /\ server = "old"
  /\ script' = Select(Len(RotatedTables))
  /\ UNCHANGED <<row, server, meta, stored, secret, busy, crossed, ops>>

NextTable ==
  /\ script.at = "running" /\ script.todo = {}
  /\ script' = IF script.left > 1 THEN Select(script.left - 1)
               ELSE [at |-> "done", left |-> 0, todo |-> {}, read |-> NoRead]
  /\ UNCHANGED <<row, server, meta, stored, secret, busy, crossed, ops>>

(* ... and its rows, as they were read, are sealed anew one by one.  A value the old key does not      *)
(* open ends the script; a row that is gone is not brought back. *)
Stop == [at |-> "failed", left |-> 0, todo |-> {}, read |-> NoRead]
Reseal(r) ==
  /\ script.at = "running" /\ r \in script.todo
  /\ IF script.read[r].key = "old"
     THEN /\ row' = IF r \in There THEN [row EXCEPT ![r].text = script.read[r].text, ![r].key = "new"] ELSE row
          /\ script' = [script EXCEPT !.todo = @ \ {r}, !.read[r] = Absent]
     ELSE script' = Stop /\ UNCHANGED row
  /\ UNCHANGED <<server, meta, stored, secret, busy, crossed, ops>>

ScriptDies ==
  /\ script.at = "running" /\ script' = Stop
  /\ UNCHANGED <<row, server, meta, stored, secret, busy, crossed, ops>>

(* "After it succeeds, set WILLY_MASTER_KEY to the new key and restart the server." *)
RestartWithNewKey ==
  /\ script.at = "done" /\ server = "old" /\ server' = "new"
  /\ meta' = [q \in Requests |-> Idle]
  /\ UNCHANGED <<row, script, stored, secret, busy, crossed, ops>>

Next ==
  \/ \E v \in EnvVars, t \in Texts, s \in BOOLEAN : SetVar(v, t, s)
  \/ \E r \in Others, t \in Texts : Store(r, t)
  \/ \E r \in Rows : Delete(r) \/ Reseal(r)
  \/ \E q \in Requests : WriteMeta(q) \/ \E v \in EnvVars, to \in BOOLEAN : ReadMeta(q, v, to)
  \/ StartRotation \/ NextTable \/ ScriptDies \/ RestartWithNewKey

Spec == Init /\ [][Next]_vars

-----------------------------------------------------------------------------
Readable(r) == row[r].key = server

(* A rotation during which the server wrote nothing, however often it was broken off and begun again, *)
(* never loses a value; when the server runs with the new key it reads every row of the four tables    *)
(* (rotate-key.ts main; the secrets of the second factor are another matter, see below).                *)
RotationKeeps ==
  ~busy =>
    /\ \A r \in Rows : row[r].text = stored[r]
    /\ server = "new" => \A r \in There \ {"totp"} : Readable(r)
    /\ script.at = "off" => \A r \in There : Readable(r)

(* A value stored as a secret is listed in plain text only when another request changed the variable   *)
(* during an updateMeta (EnvVarsService.set, updateMeta, listMasked).                                     *)
SecretsStayHidden == \A v \in secret \ crossed : row[v].secret

(* The three, as one. *)
SecretsInv == TypeOK /\ RotationKeeps /\ SecretsStayHidden

(* "Re-encrypts every stored secret" (rotate-key.ts:8). *)
EverySecretRotated == server = "new" /\ ~busy => \A r \in There : Readable(r)

(* "a stored secret is never auto-revealed" (env-vars.service.ts:110-111). *)
NeverRevealed == \A v \in secret : row[v].secret

(* "the current key": a rotation that was broken off can be run again to its end. *)
RotationRepeatable == script.at = "failed" /\ ~busy => \A r \in There : Readable(r)

=============================================================================
