---------------------------- MODULE AssetCatalog ----------------------------
(***************************************************************************)
(* The SQL repositories of the assets a run is built from: enum parameters *)
(* (parameter_sql_repository.py), connectors (connector_sql_repository.py),*)
(* test cases, scripts and their links (quality_sql_repository.py,         *)
(* automation_sql_repository.py).  Rows are locked by SELECT ... FOR       *)
(* UPDATE and, in shared mode, by the foreign key check of an insert; a    *)
(* plain read sees what is committed and locks nothing.                    *)
(*                                                                         *)
(* One enum set, one script with at most one enum parameter, one case, one *)
(* requirement and one connector.  A deleted enum or connector may be made *)
(* again under a new id.                                                   *)
(***************************************************************************)
EXTENDS RequestThreads

CONSTANTS Values      \* option and default values

VARIABLES enum,       \* the enum set's row
          parameter,  \* the script's enum parameter: its default, the enum's id and whether
                      \* the enum was updated after the default had been validated
          connector,  \* the connector's row; config and tested name configurations
          asset,      \* the rows of the test case and the script
          links,      \* the link rows
          created,    \* how many requests were told they created each link
          locks       \* the thread whose transaction holds each row

assets == <<enum, parameter, connector, asset, links, created, locks>>

Rows == {"enum", "case", "script"}
Links == {"scriptLink", "traceLink"}
NoParameter == [enum |-> 0]

AssetInit ==
    /\ enum = [id |-> 1, present |-> TRUE, options |-> Values, version |-> 0]
    /\ parameter = NoParameter
    /\ connector = [id |-> 1, present |-> TRUE, version |-> 0, config |-> 1,
                    sealed |-> 1, revision |-> 1, tested |-> 0]
    /\ asset = [a \in {"case", "script"} |-> [status |-> "READY", version |-> 0]]
    /\ links = {} /\ created = [l \in Links |-> 0]
    /\ locks = [r \in Rows |-> Nobody]

Free(r) == locks[r] = Nobody
Lock(t, r) == locks' = [locks EXCEPT ![r] = t]
Unlock(t) == locks' = [r \in Rows |-> IF locks[r] = t THEN Nobody ELSE locks[r]]

\* the transaction is rolled back and the error answered
Refuse(t) == Unlock(t) /\ Return(t) /\ UNCHANGED <<enum, parameter, connector, asset, links, created>>

-----------------------------------------------------------------------------
(* Enum sets and the parameters that refer to them *)

Referenced == parameter.enum = enum.id
EnumExists(t) == enum.present /\ enum.id = req[t].id

\* create_enum_set: the unique name is taken while the set exists
CreateEnumSet(t) ==
    /\ At(t, "createEnum", "serve") /\ ~enum.present
    /\ \E options \in SUBSET Values :
          enum' = [id |-> enum.id + 1, present |-> TRUE, options |-> options, version |-> 0]
    /\ Return(t) /\ UNCHANGED <<parameter, connector, asset, links, created, locks, world>>

\* _validate_existing_defaults reads the parameters without a lock
DefaultsStay(t) ==
    Referenced => parameter.default \in req[t].options

\* update_enum_set and delete_enum_set up to their flush: the row is locked
\* and the version, the defaults or the references are read
LockEnumSet(t) ==
    /\ req[t].op \in {"updateEnum", "deleteEnum"} /\ pc[t] = "serve" /\ Free("enum")
    /\ EnumExists(t)
    /\ req[t].op = "updateEnum" => enum.version = req[t].expected /\ DefaultsStay(t)
    /\ req[t].op = "deleteEnum" => ~Referenced
    /\ Lock(t, "enum") /\ Goto(t, "commit")
    /\ UNCHANGED <<req, enum, parameter, connector, asset, links, created, world>>

CommitEnumSet(t) ==
    /\ At(t, "updateEnum", "commit")
    /\ enum' = [enum EXCEPT !.options = req[t].options, !.version = @ + 1]
    /\ Unlock(t) /\ Return(t)
    /\ UNCHANGED <<parameter, connector, asset, links, created, world>>

CommitDeleteEnumSet(t) ==
    /\ At(t, "deleteEnum", "commit")
    /\ enum' = [enum EXCEPT !.present = FALSE]
    /\ Unlock(t) /\ Return(t)
    /\ UNCHANGED <<parameter, connector, asset, links, created, world>>

\* replace_script_parameters: the script's row is locked, then
\* _validate_parameter_enums reads the enum without a lock
LockScriptParameters(t) ==
    /\ At(t, "parameters", "serve") /\ Free("script")
    /\ req[t].new # NoParameter =>
          enum.present /\ enum.id = req[t].new.enum /\ req[t].new.default \in enum.options
    /\ req' = [req EXCEPT ![t] = With(@, [seen |-> enum.version])]
    /\ Lock(t, "script") /\ Goto(t, "insert")
    /\ UNCHANGED <<enum, parameter, connector, asset, links, created, world>>

\* the old rows are deleted and the new ones inserted: the foreign key check
\* waits for the enum's row, holds it until the commit, and fails once it is gone
InsertParameters(t) ==
    /\ At(t, "parameters", "insert")
    /\ \/ req[t].new = NoParameter /\ Goto(t, "commit") /\ UNCHANGED <<req, assets>>
       \/ /\ req[t].new # NoParameter /\ Free("enum")
          /\ \/ /\ enum.present /\ enum.id = req[t].new.enum
                /\ Lock(t, "enum") /\ Goto(t, "commit")
                /\ UNCHANGED <<req, enum, parameter, connector, asset, links, created>>
             \/ /\ ~enum.present \/ enum.id # req[t].new.enum
                /\ Refuse(t)
    /\ UNCHANGED world

CommitParameters(t) ==
    /\ At(t, "parameters", "commit")
    /\ parameter' = IF req[t].new = NoParameter THEN NoParameter
                    ELSE With(req[t].new, [overtaken |-> enum.version # req[t].seen])
    /\ Unlock(t) /\ Return(t)
    /\ UNCHANGED <<enum, connector, asset, links, created, world>>

-----------------------------------------------------------------------------
(* Connectors *)

Named(t) == connector.present /\ connector.id = req[t].id
VersionMatches(t) == connector.version = req[t].expected

\* create_connector: refused while another has the name
CreateConnector(t) ==
    /\ At(t, "createConnector", "serve") /\ ~connector.present
    /\ \E sealed \in {0, 1} :
          connector' = [id |-> connector.id + 1, present |-> TRUE, version |-> 0, config |-> connector.config + 1,
                        sealed |-> sealed, revision |-> sealed, tested |-> 0]
    /\ Return(t) /\ UNCHANGED <<enum, parameter, asset, links, created, locks, world>>

\* the credential after an update: kept, sealed anew or dropped with the auth type
NewCredential(credential) ==
    CASE credential = "none" ->
            [sealed |-> 0, revision |-> connector.revision + IF connector.sealed # 0 THEN 1 ELSE 0]
      [] credential = "given" ->
            [sealed |-> connector.revision + 1, revision |-> connector.revision + 1]
      [] credential = "kept" -> [sealed |-> connector.sealed, revision |-> connector.revision]

\* update_connector, one transaction over the locked row
UpdateConnector(t) ==
    /\ At(t, "updateConnector", "serve") /\ Named(t) /\ VersionMatches(t)
    /\ \E credential \in {"none", "given", "kept"} :
          LET new == NewCredential(credential)
          IN  /\ credential = "kept" => connector.sealed # 0
              /\ connector' = [connector EXCEPT !.version = @ + 1, !.config = @ + 1,
                                  !.sealed = new.sealed, !.revision = new.revision]
    /\ Return(t) /\ UNCHANGED <<enum, parameter, asset, links, created, locks, world>>

SetEnabled(t) ==
    /\ At(t, "setEnabled", "serve") /\ Named(t) /\ VersionMatches(t)
    /\ connector' = [connector EXCEPT !.version = @ + 1]
    /\ Return(t) /\ UNCHANGED <<enum, parameter, asset, links, created, locks, world>>

DeleteConnector(t) ==
    /\ At(t, "deleteConnector", "serve") /\ Named(t)
    /\ connector' = [connector EXCEPT !.present = FALSE]
    /\ Return(t) /\ UNCHANGED <<enum, parameter, asset, links, created, locks, world>>

\* test_connector reads the record and its credential, and then calls the client
ReadConnector(t) ==
    /\ At(t, "testConnector", "serve") /\ Named(t)
    /\ req' = [req EXCEPT ![t] = With(@, [expected |-> connector.version, config |-> connector.config])]
    /\ Goto(t, "test") /\ UNCHANGED <<assets, world>>

\* the client has answered or failed: record_test keeps the outcome unless the
\* connector changed meanwhile, which the answer then says
RecordTest(t) ==
    /\ At(t, "testConnector", "test") /\ Named(t) /\ VersionMatches(t)
    /\ connector' = [connector EXCEPT !.version = @ + 1, !.tested = req[t].config]
    /\ Return(t) /\ UNCHANGED <<enum, parameter, asset, links, created, locks, world>>

-----------------------------------------------------------------------------
(* Test cases, scripts and their links *)

\* _next_status and _next_script_status (READY is a script's ACTIVE): an archived
\* asset is not modified, but a script may be made active again
NextStatus(a) ==
    CASE asset[a].status = "DRAFT" -> {"DRAFT", "READY"}
      [] asset[a].status = "READY" -> {"READY", "ARCHIVED"}
      [] asset[a].status = "ARCHIVED" -> IF a = "script" THEN {"READY"} ELSE {}

\* update_test_case and update_script: the row, its version, its new status
LockAsset(t) ==
    LET a == req[t].row
    IN  /\ At(t, "updateAsset", "serve") /\ Free(a)
        /\ asset[a].version = req[t].expected
        /\ \E status \in NextStatus(a) :
              req' = [req EXCEPT ![t] = With(@, [status |-> status])]
        /\ Lock(t, a) /\ Goto(t, "commit")
        /\ UNCHANGED <<enum, parameter, connector, asset, links, created, world>>

CommitAsset(t) ==
    /\ At(t, "updateAsset", "commit")
    /\ asset' = [asset EXCEPT ![req[t].row] = [status |-> req[t].status, version |-> @.version + 1]]
    /\ Unlock(t) /\ Return(t)
    /\ UNCHANGED <<enum, parameter, connector, links, created, world>>

\* link_test_case locks the case, then the script
LockCase(t) ==
    /\ At(t, "scriptLink", "serve") /\ Free("case")
    /\ Lock(t, "case") /\ Goto(t, "script")
    /\ UNCHANGED <<req, enum, parameter, connector, asset, links, created, world>>

Linkable == \A a \in {"case", "script"} : asset[a].status # "ARCHIVED"

\* Mutant: the script is not locked, and may be archived before the link is stored.
LinkWithoutScriptLock(t) ==
    /\ At(t, "scriptLink", "script")
    /\ \/ "scriptLink" \notin links /\ Linkable /\ Goto(t, "commit") /\ UNCHANGED <<req, assets>>
       \/ ("scriptLink" \in links \/ ~Linkable) /\ Refuse(t)
    /\ UNCHANGED world

\* an existing link is answered again, even when a side has been archived since
LockScript(t) ==
    /\ At(t, "scriptLink", "script") /\ Free("script")
    /\ \/ /\ "scriptLink" \notin links /\ Linkable
          /\ Lock(t, "script") /\ Goto(t, "commit")
          /\ UNCHANGED <<req, enum, parameter, connector, asset, links, created>>
       \/ ("scriptLink" \in links \/ ~Linkable) /\ Refuse(t)
    /\ UNCHANGED world

\* link_requirement_test_case reads without a lock and then inserts
ReadTraceLink(t) ==
    /\ At(t, "traceLink", "serve")
    /\ \/ "traceLink" \in links /\ Return(t)
       \/ "traceLink" \notin links /\ Goto(t, "insert") /\ UNCHANGED req
    /\ UNCHANGED <<assets, world>>

\* the insert waits for an uncommitted row with its key, and its foreign key
\* check for the case's row; a duplicate is answered with the row that won
InsertTraceLink(t) ==
    /\ At(t, "traceLink", "insert") /\ Free("case")
    /\ \/ "traceLink" \in links /\ Return(t) /\ UNCHANGED assets
       \/ /\ "traceLink" \notin links
          /\ Lock(t, "case") /\ Goto(t, "commit")
          /\ UNCHANGED <<req, enum, parameter, connector, asset, links, created>>
    /\ UNCHANGED world

CommitLink(t) ==
    /\ req[t].op \in Links /\ pc[t] = "commit"
    /\ links' = links \union {req[t].op}
    /\ created' = [created EXCEPT ![req[t].op] = @ + 1]
    /\ Unlock(t) /\ Return(t)
    /\ UNCHANGED <<enum, parameter, connector, asset, world>>

-----------------------------------------------------------------------------
\* a request whose row is gone, whose version is stale, or that validation, a
\* constraint or the database refuses
RefuseRequest(t) ==
    /\ pc[t] = "serve" \/ At(t, "testConnector", "test")
    /\ Refuse(t) /\ UNCHANGED world

\* what a client may ask for, with the ids and versions it has read
AssetRequests ==
    [op : {"createEnum", "createConnector"} \union Links]
    \union [op : {"updateEnum"}, id : {enum.id}, expected : {enum.version}, options : SUBSET Values]
    \union [op : {"deleteEnum"}, id : {enum.id}]
    \union [op : {"parameters"},
            new : {NoParameter} \union [enum : {enum.id}, default : Values]]
    \union [op : {"updateConnector", "setEnabled"}, id : {connector.id}, expected : {connector.version}]
    \union [op : {"deleteConnector", "testConnector"}, id : {connector.id}]
    \union {[op |-> "updateAsset", row |-> a, expected |-> asset[a].version] : a \in {"case", "script"}}

ServeAsset(t) ==
    \/ CreateEnumSet(t) \/ LockEnumSet(t) \/ CommitEnumSet(t) \/ CommitDeleteEnumSet(t)
    \/ LockScriptParameters(t) \/ InsertParameters(t) \/ CommitParameters(t)
    \/ CreateConnector(t) \/ UpdateConnector(t) \/ SetEnabled(t) \/ DeleteConnector(t)
    \/ ReadConnector(t) \/ RecordTest(t)
    \/ LockAsset(t) \/ CommitAsset(t)
    \/ LockCase(t) \/ LockScript(t) \/ ReadTraceLink(t) \/ InsertTraceLink(t) \/ CommitLink(t)
    \/ RefuseRequest(t)
-----------------------------------------------------------------------------
(* Properties *)

\* A parameter's enum is never deleted under it, whichever of delete_enum_set's
\* check and replace_script_parameters' insert comes first: the foreign key's
\* lock orders them, though both validate on plain reads.
NoDanglingParameter ==
    parameter # NoParameter => enum.present /\ parameter.enum = enum.id

\* A default is one of its enum's options, as update_enum_set and
\* replace_script_parameters both promise, except after one race: each validates
\* on a plain read, so an update that commits between the other's validation and
\* its commit is not seen, and neither sees the other's row.
DefaultsAreOptions ==
    parameter # NoParameter => parameter.default \in enum.options \/ parameter.overtaken

\* The stored credential can always be decrypted: it is sealed under the
\* secret_revision its row names, through updates that keep, replace or drop it.
CredentialReadable ==
    connector.sealed \in {0, connector.revision}

\* A test's outcome is recorded only against the configuration that was tested,
\* although the connector may be edited, deleted or made again during the call.
TestedAsConfigured ==
    [][connector'.tested # connector.tested /\ connector'.id = connector.id
         => connector'.tested = connector.config]_<<assets, threads, world>>

\* No link is created to an archived case or script, although either may be
\* archived by another request while the link is being made.
NoArchivedLink ==
    [][("scriptLink" \in links' \ links) => Linkable]_<<assets, threads, world>>

\* Of the requests that make the same link, one is told that it created it.
LinkedOnce ==
    \A l \in Links : created[l] <= 1
=============================================================================
