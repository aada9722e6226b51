------------------------------- MODULE Files -------------------------------
(***************************************************************************)
(* The files users store: the knowledge files of their workspaces          *)
(* (workspaces/service.py) and the files of a website that the model       *)
(* writes with the site.* tools (website/service.py, website/tools.py).    *)
(* Both are limited in number and in bytes by reads that come before the   *)
(* write: an upload is split at each of its statements, a site tool runs   *)
(* inside the transaction of its round of the chat.                        *)
(***************************************************************************)
EXTENDS Throttle

CONSTANTS
    Workspaces,     \* workspace ids, each used once
    WorkspaceMax,   \* [files, bytes]: workspace_file_max_count,
                    \* workspace_files_total_bytes
    Paths,          \* normalised paths of the website
    SiteMax         \* [files, bytes]: preview_max_files,
                    \* preview_max_project_bytes

ASSUME FilesAssumption ==
    /\ IsFiniteSet(Paths)          \* the length of an indexed column is bounded
    /\ WorkspaceMax \in [files: Nat, bytes: Nat]
    /\ SiteMax \in [files: Nat, bytes: Nat]

VARIABLES
    job,            \* job[h]: what handler h does
    workspaces,     \* workspaces[w]: "none", "live" or "gone"
    files,          \* the rows of workspace_files
    project,        \* the projects row: "absent", "present", or the handler
                    \* whose open transaction inserted it
    site,           \* site[p]: the committed row of a file, [row, size]: its
                    \* id and its bytes, or NoFile
    draft,          \* draft[h]: the paths the open transaction of h wrote
    contended       \* the stores whose limits were checked by a request
                    \* while another was between its check and its commit
                    \* (observation only)

fileVars == <<workspaces, files, project, site, draft>>

Idle == [pc |-> "idle"]

(* No row; an empty file is one.                                           *)
NoFile == [row |-> 0, size |-> 0]

FilesInit ==
    /\ job = [h \in Handlers |-> Idle]
    /\ workspaces = [w \in Workspaces |-> "none"]
    /\ files = {}
    /\ project = "absent"
    /\ site = [p \in Paths |-> NoFile]
    /\ draft = [h \in Handlers |-> <<>>]
    /\ contended = {}

Others(h) == Handlers \ {h}

Returns(h) == job' = [job EXCEPT ![h] = Idle]

-----------------------------------------------------------------------------
FilesOf(w) == {f \in files : f.workspace = w}

BytesOf(S) == Total([f \in S |-> f.size], S)

CreateWorkspace(w) ==
    /\ workspaces[w] = "none"
    /\ workspaces' = [workspaces EXCEPT ![w] = "live"]
    /\ UNCHANGED <<job, files, project, site, draft, contended>>

(* ON DELETE CASCADE takes the files along.                                *)
DeleteWorkspace(w) ==
    /\ workspaces[w] = "live"
    /\ workspaces' = [workspaces EXCEPT ![w] = "gone"]
    /\ files' = files \ FilesOf(w)
    /\ UNCHANGED <<job, project, site, draft, contended>>

DeleteFile(f) ==
    /\ f \in files
    /\ files' = files \ {f}
    /\ UNCHANGED <<job, workspaces, project, site, draft, contended>>

Uploading(w) == {h \in Handlers : job[h].pc \in {"total", "store"} /\ job[h].workspace = w}

(* Faulty: the limit is compared with what is stored, not with what would  *)
(* be.                                                                     *)
CountFitsStored(w) == Cardinality(FilesOf(w)) <= WorkspaceMax.files

(* file_count(workspace) >= workspace_file_max_count refuses.              *)
CountFits(w) == Cardinality(FilesOf(w)) < WorkspaceMax.files

(* upload_file, up to the count; afterwards the text is extracted.         *)
Upload(h, w, size) ==
    /\ job[h] = Idle
    /\ workspaces[w] = "live" /\ CountFits(w)
    /\ job' = [job EXCEPT ![h] = [pc |-> "total", workspace |-> w, size |-> size]]
    /\ contended' = contended \union IF Uploading(w) # {} THEN {w} ELSE {}
    /\ UNCHANGED fileVars

CheckTotal(h) ==
    LET upload == job[h]
        fits == BytesOf(FilesOf(upload.workspace)) + upload.size <= WorkspaceMax.bytes
    IN  /\ upload.pc = "total"
        /\ job' = [job EXCEPT ![h] = IF fits THEN [upload EXCEPT !.pc = "store"] ELSE Idle]
        /\ UNCHANGED <<fileVars, contended>>

(* add_file; the foreign key fails when the workspace has been deleted.    *)
StoreFile(h) ==
    LET upload == job[h]
        file == [workspace |-> upload.workspace, size |-> upload.size,
                 id |-> 1 + Max({0} \union {f.id : f \in files})]
    IN  /\ upload.pc = "store"
        /\ files' = IF workspaces[upload.workspace] = "live"
                    THEN files \union {file} ELSE files
        /\ Returns(h)
        /\ UNCHANGED <<workspaces, project, site, draft, contended>>

-----------------------------------------------------------------------------
(* The website as the transaction of h sees it.                            *)
SiteView(h) ==
    [p \in Paths |-> IF p \in DOMAIN draft[h] THEN draft[h][p] ELSE site[p]]

Stored(view) == {p \in Paths : view[p] # NoFile}

Sizes(view) == [p \in Paths |-> view[p].size]

OnSite(h) == job[h].pc = "write" \/ draft[h] # <<>>

(* resolve_project: INSERT ... ON CONFLICT DO NOTHING waits for another    *)
(* open transaction that inserts the same project.                         *)
ProjectFree(h) == project \in {"absent", "present", h}

ResolveProject(h) == project' = IF project = "absent" THEN h ELSE project

(* A row another open transaction wrote makes UPDATE, DELETE and the       *)
(* INSERT of the same path wait.                                           *)
PathFree(h, p) == \A o \in Others(h) : p \notin DOMAIN draft[o]

(* write_file: projected_bytes and projected_count against the limits,     *)
(* with the file that is replaced taken into account.                      *)
SiteFits(h, p, size) ==
    /\ Cardinality(Stored(SiteView(h)) \union {p}) <= SiteMax.files
    /\ Total([Sizes(SiteView(h)) EXCEPT ![p] = size], Paths) <= SiteMax.bytes

Draft(h, p, file) ==
    draft' = [draft EXCEPT ![h] =
        [q \in DOMAIN draft[h] \union {p} |-> IF q = p THEN file ELSE draft[h][q]]]

(* Commit and rollback of what h wrote.                                    *)
Publish(h) ==
    /\ site' = SiteView(h)
    /\ draft' = [draft EXCEPT ![h] = <<>>]
    /\ project' = IF project = h THEN "present" ELSE project

Discard(h) ==
    /\ draft' = [draft EXCEPT ![h] = <<>>]
    /\ project' = IF project = h THEN "absent" ELSE project
    /\ UNCHANGED site

-----------------------------------------------------------------------------
Slack(store) == IF store \in contended THEN Cardinality(Handlers) - 1 ELSE 0

(* The limits are checked by reads and no lock.  They hold for a store     *)
(* none of whose checks ran while another request was between its check    *)
(* and its commit; once one did, the store may be over its limit from then *)
(* on, by what the other handlers can have in flight at most: one file for *)
(* an upload, one full website for the round of a chat                     *)
(* (workspaces/service.py upload_file, website/service.py write_file).     *)
WithinQuota ==
    /\ \A w \in Workspaces :
          /\ Cardinality(FilesOf(w)) <= WorkspaceMax.files + Slack(w)
          /\ BytesOf(FilesOf(w)) <= WorkspaceMax.bytes * (1 + Slack(w))
    /\ Cardinality(Stored(site)) <= SiteMax.files * (1 + Slack("site"))
    /\ Total(Sizes(site), Paths) <= SiteMax.bytes * (1 + Slack("site"))
=============================================================================
