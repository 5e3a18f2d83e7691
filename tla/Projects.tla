------------------------------ MODULE Projects ------------------------------
(***************************************************************************)
(* The projects of one account (apps/projects): Project rows with their    *)
(* Scene and thumbnail, what hangs below them (annotations, share links)   *)
(* and UserStats.total_projects, which signals keep.  The imported models  *)
(* are in ModelStorage.                                                    *)
(*                                                                         *)
(* Every statement commits on its own, except a delete, whose cascade and  *)
(* signals are one transaction.  A save() of a row that is gone inserts it *)
(* again, and the signals take it for a new one; a save(update_fields) of  *)
(* one fails.  Of a scene only the version is kept.                        *)
(***************************************************************************)
EXTENDS Integers, FiniteSets

CONSTANTS
    Ids,         \* ids of projects
    First,       \* the project the account has at the start
    Children,    \* ids of annotations and share links
    Requests,    \* bound: requests in flight at once
    Names,       \* bound: names a thumbnail may get in the bucket
    MaxVersion,  \* bound: versions of a scene
    MaxMishaps   \* bound: increments lost and decrements repeated

ASSUME ProjectsAssumption ==
    /\ First \in Ids
    /\ {MaxVersion, MaxMishaps} \subseteq Nat /\ MaxVersion > 0

VARIABLES
    row,        \* Project rows
    scene,      \* version of the Scene of each project, 0 without one
    thumb,      \* Project.thumbnail
    objects,    \* thumbnails in the bucket
    child,      \* annotations and links, with the project of each
    total,      \* UserStats.total_projects
    pc,         \* progress of each request
    held,       \* its project, and what it read: a name, a version, a child, children
    mishaps,    \* history: how many times an increment was lost or a decrement repeated
    bare,       \* history: projects whose creation was killed before the scene
    contended,  \* history: projects whose scene two requests wrote at once
    unsure      \* history: projects whose thumbnail was left half-way, put back or erased twice

rows == <<row, scene, child>>
image == <<thumb, objects>>
history == <<mishaps, bare, contended, unsure>>
vars == <<rows, image, total, pc, held, history>>

NoName == "none"
NoChild == [kind |-> "none", of |-> First]
ChildRows == [kind : {"none", "note", "link", "expired", "gone"}, of : Ids]
Nothing == [p |-> First, name |-> NoName, version |-> 0, child |-> "none",
            children |-> {}, copies |-> FALSE]

Steps == {"idle", "scene", "count", "copy", "notes", "edit", "put", "bump", "gap", "lost",
          "erase", "store", "name", "note", "mark", "delete"}

TypeOK ==
    /\ row \in [Ids -> {"none", "live", "deleted"}]
    /\ scene \in [Ids -> 0 .. MaxVersion]
    /\ thumb \in [Ids -> Names \cup {NoName}]
    /\ objects \in SUBSET Names
    /\ child \in [Children -> ChildRows]
    /\ total \in Nat
    /\ pc \in [Requests -> Steps]
    /\ held \in [Requests -> [p : Ids, name : Names \cup {NoName}, version : 0 .. MaxVersion,
                              child : Children \cup {"none"}, children : SUBSET Children,
                              copies : BOOLEAN]]
    /\ mishaps \in 0 .. MaxMishaps
    /\ {bare, contended, unsure} \subseteq SUBSET Ids

Init ==
    /\ row = [p \in Ids |-> IF p = First THEN "live" ELSE "none"]
    /\ scene = [p \in Ids |-> IF p = First THEN 1 ELSE 0]
    /\ thumb = [p \in Ids |-> NoName]
    /\ objects = {}
    /\ child = [c \in Children |-> NoChild]
    /\ total = 1
    /\ pc = [q \in Requests |-> "idle"]
    /\ held = [q \in Requests |-> Nothing]
    /\ mishaps = 0 /\ bare = {} /\ contended = {} /\ unsure = {}

-----------------------------------------------------------------------------
Live == {p \in Ids : row[p] = "live"}

\* The rows below p a reader finds.
Below(p) == {c \in Children : child[c].of = p /\ child[c].kind \in {"note", "link", "expired"}}

Begin(q, step, h) ==
    /\ pc[q] = "idle"
    /\ pc' = [pc EXCEPT ![q] = step]
    /\ held' = [held EXCEPT ![q] = h]

Goto(q, from, to) ==
    /\ pc[q] = from
    /\ pc' = [pc EXCEPT ![q] = to]
    /\ UNCHANGED held

End(q, from) ==
    /\ pc[q] = from
    /\ pc' = [pc EXCEPT ![q] = "idle"]
    /\ held' = [held EXCEPT ![q] = Nothing]

Mishap == mishaps < MaxMishaps /\ mishaps' = mishaps + 1

-----------------------------------------------------------------------------
(* POST /projects and POST /projects/{id}/duplicate. *)

InsertProject(q, p) ==
    /\ row[p] = "none"
    /\ Begin(q, "scene", [Nothing EXCEPT !.p = p])
    /\ row' = [row EXCEPT ![p] = "live"]
    /\ UNCHANGED <<scene, child, image, total, history>>

\* A duplicate starts as an insert, once the original has been found.
InsertDuplicate(q, p) ==
    /\ row[p] = "none"
    /\ Live # {}
    /\ Begin(q, "scene", [Nothing EXCEPT !.p = p, !.copies = TRUE])
    /\ row' = [row EXCEPT ![p] = "live"]
    /\ UNCHANGED <<scene, child, image, total, history>>

\* Fault: the scene is left to the first visit.
SkipScene(q) ==
    /\ Goto(q, "scene", "count")
    /\ UNCHANGED <<rows, image, total, history>>

\* create_scene_for_new_project: an empty scene, unless the project is gone, or was brought
\* back with another one; the request then fails ...
CreateScene(q) ==
    LET p == held[q].p IN
    /\ IF row[p] = "live" /\ scene[p] = 0
       THEN Goto(q, "scene", "count") /\ scene' = [scene EXCEPT ![p] = 1] /\ UNCHANGED mishaps
       ELSE End(q, "scene") /\ UNCHANGED scene /\ Mishap
    /\ UNCHANGED <<row, child, image, total, bare, contended, unsure>>

\* ... and one more project.
CountProject(q) ==
    /\ IF held[q].copies THEN Goto(q, "count", "copy") ELSE End(q, "count")
    /\ total' = total + 1
    /\ UNCHANGED <<rows, image, history>>

\* Two requests have read the scene of p and will write it.
Writing == {"copy", "put", "bump"}
Contends(q, p) == \E r \in Requests \ {q} : pc[r] \in Writing /\ held[r].p = p

\* new_project.scene.save() writes the whole row it created: the data, and version 1.
CopyScene(q) ==
    LET p == held[q].p IN
    /\ Goto(q, "copy", "notes")
    /\ scene' = [scene EXCEPT ![p] = 1]
    /\ contended' = IF scene[p] > 1 \/ Contends(q, p) THEN contended \cup {p} ELSE contended
    /\ UNCHANGED <<row, child, image, total, mishaps, bare, unsure>>

\* Then each annotation of the original is created below the new project; how many is
\* left open.
CopyNote(q, c) ==
    /\ Goto(q, "notes", "notes")
    /\ row[held[q].p] = "live"
    /\ child[c].kind = "none"
    /\ child' = [child EXCEPT ![c] = [kind |-> "note", of |-> held[q].p]]
    /\ UNCHANGED <<row, scene, image, total, history>>

EndDuplicate(q) ==
    /\ End(q, "notes")
    /\ UNCHANGED <<rows, image, total, history>>

-----------------------------------------------------------------------------
(* PATCH of a project, PUT of its scene. *)

FetchProject(q, p) ==
    /\ p \in Live
    /\ Begin(q, "edit", [Nothing EXCEPT !.p = p, !.name = thumb[p]])
    /\ UNCHANGED <<rows, image, total, history>>

\* Fault: the signal does not test created, and gives the project an empty scene again.
SaveProjectAnew(q) ==
    LET p == held[q].p IN
    /\ row[p] = "live"
    /\ End(q, "edit")
    /\ scene' = [scene EXCEPT ![p] = 1]
    /\ thumb' = [thumb EXCEPT ![p] = held[q].name]
    /\ unsure' = IF thumb[p] # held[q].name THEN unsure \cup {p} ELSE unsure
    /\ UNCHANGED <<row, child, objects, total, mishaps, bare, contended>>

\* serializer.save() writes every column, the thumbnail it read included.
SaveProject(q) ==
    LET p == held[q].p IN
    /\ row[p] = "live"
    /\ End(q, "edit")
    /\ thumb' = [thumb EXCEPT ![p] = held[q].name]
    /\ unsure' = IF thumb[p] # held[q].name THEN unsure \cup {p} ELSE unsure
    /\ UNCHANGED <<rows, objects, total, mishaps, bare, contended>>

\* The project was deleted since: it is inserted again, and the signal gives it a scene.
SaveRevives(q) ==
    LET p == held[q].p IN
    /\ row[p] = "deleted"
    /\ Goto(q, "edit", "scene")
    /\ row' = [row EXCEPT ![p] = "live"]
    /\ thumb' = [thumb EXCEPT ![p] = held[q].name]
    /\ unsure' = unsure \cup {p}
    /\ UNCHANGED <<scene, child, objects, total, mishaps, bare, contended>>

FetchScene(q, p) ==
    /\ p \in Live
    /\ scene[p] \in 1 .. MaxVersion - 1
    /\ Begin(q, "put", [Nothing EXCEPT !.p = p, !.version = scene[p]])
    /\ contended' = IF Contends(q, p) THEN contended \cup {p} ELSE contended
    /\ UNCHANGED <<rows, image, total, mishaps, bare, unsure>>

\* SceneView.perform_update: the new data, with the version that was read ...
SaveScene(q) ==
    /\ Goto(q, "put", "bump")
    /\ scene' = [scene EXCEPT ![held[q].p] = held[q].version]
    /\ UNCHANGED <<row, child, image, total, history>>

\* The scene was deleted since: save() inserts it again if its project is back and has no
\* other yet.
SaveLostScene(q) ==
    LET p == held[q].p IN
    /\ IF row[p] = "live" /\ scene[p] = 0
       THEN /\ Goto(q, "gap", IF held[q].version = 0 THEN "notes" ELSE "bump")
            /\ scene' = [scene EXCEPT ![p] = IF held[q].version = 0 THEN 1 ELSE held[q].version]
            /\ contended' = contended \cup {p}
       ELSE End(q, "gap") /\ UNCHANGED <<scene, contended>>
    /\ UNCHANGED <<row, child, image, total, mishaps, bare, unsure>>

BumpFails(q) ==
    /\ End(q, "lost")
    /\ UNCHANGED <<rows, image, total, history>>

\* ... then the next version.
BumpVersion(q) ==
    LET p == held[q].p IN
    /\ End(q, "bump")
    /\ scene' = [scene EXCEPT ![p] = held[q].version + 1]
    /\ UNCHANGED <<row, child, image, total, history>>

-----------------------------------------------------------------------------
(* POST /projects/{id}/thumbnail. *)

\* Thumbnails of two projects never share a name: those of First stand for all.
FetchForThumbnail(q) ==
    /\ First \in Live
    /\ Begin(q, IF thumb[First] = NoName THEN "store" ELSE "erase",
             [Nothing EXCEPT !.name = thumb[First]])
    /\ UNCHANGED <<rows, image, total, history>>

\* The object the row named when it was read is deleted first ...
EraseThumbnail(q) ==
    /\ Goto(q, "erase", "store")
    /\ objects' = objects \ {held[q].name}
    /\ unsure' = IF \E r \in Requests : pc[r] = "name" /\ held[r].name = held[q].name
                 THEN unsure \cup {held[q].p} ELSE unsure
    /\ UNCHANGED <<rows, thumb, total, mishaps, bare, contended>>

\* ... the new one is stored under a free name, often the one just freed ...
StoreThumbnail(q, n) ==
    /\ pc[q] = "store"
    /\ n \notin objects
    /\ pc' = [pc EXCEPT ![q] = "name"]
    /\ held' = [held EXCEPT ![q].name = n]
    /\ objects' = objects \cup {n}
    /\ UNCHANGED <<rows, thumb, total, history>>

\* Fault: a row that names a thumbnail already is not saved.
NameFirstThumbnail(q) ==
    LET p == held[q].p IN
    /\ End(q, "name")
    /\ thumb' = IF row[p] = "live" /\ thumb[p] = NoName THEN [thumb EXCEPT ![p] = held[q].name] ELSE thumb
    /\ UNCHANGED <<rows, objects, total, history>>

\* ... and named by the row, if it is still there.
NameThumbnail(q) ==
    LET p == held[q].p IN
    /\ End(q, "name")
    /\ thumb' = IF row[p] = "live" THEN [thumb EXCEPT ![p] = held[q].name] ELSE thumb
    /\ UNCHANGED <<rows, objects, total, history>>

-----------------------------------------------------------------------------
(* Annotations and share links. *)

Insert(c, kind, p) ==
    /\ p \in Live
    /\ child[c].kind = "none"
    /\ child' = [child EXCEPT ![c] = [kind |-> kind, of |-> p]]
    /\ UNCHANGED <<row, scene, image, total, pc, held, history>>

CreateNote(c, p) == Insert(c, "note", p)

CreateLink(c, p) == Insert(c, "link", p)

\* PATCH of an annotation saves the whole row, and inserts it again if it is gone.
FetchNote(q, c) ==
    /\ child[c].kind = "note"
    /\ Begin(q, "note", [Nothing EXCEPT !.p = child[c].of, !.child = c])
    /\ UNCHANGED <<rows, image, total, history>>

SaveNote(q) ==
    LET h == held[q] IN
    /\ End(q, "note")
    /\ child' = IF row[h.p] = "live"
                THEN [child EXCEPT ![h.child] = [kind |-> "note", of |-> h.p]] ELSE child
    /\ UNCHANGED <<row, scene, image, total, history>>

\* DELETE of an annotation, revocation of a link.
DeleteChild(c) ==
    /\ child[c].kind \in {"note", "link", "expired"}
    /\ child' = [child EXCEPT ![c] = [kind |-> "gone", of |-> First]]
    /\ UNCHANGED <<row, scene, image, total, pc, held, history>>

ExpireLink(c) ==
    /\ child[c].kind = "link"
    /\ child' = [child EXCEPT ![c].kind = "expired"]
    /\ UNCHANGED <<row, scene, image, total, pc, held, history>>

\* SharedProjectView.get: a link that has not expired, with its project ...
OpenLink(q, c) ==
    /\ child[c].kind = "link"
    /\ Begin(q, "mark", [Nothing EXCEPT !.p = child[c].of, !.child = c])
    /\ UNCHANGED <<rows, image, total, history>>

\* ... is marked as used, which fails on a revoked one, and the project is shown.
ShowShared(q) ==
    /\ End(q, "mark")
    /\ UNCHANGED <<rows, image, total, history>>

-----------------------------------------------------------------------------
(* DELETE of a project. *)

\* The collector reads the rows below it.
FetchToDelete(q, p) ==
    /\ p \in Live
    /\ Begin(q, "delete", [Nothing EXCEPT !.p = p, !.children = Below(p)])
    /\ UNCHANGED <<rows, image, total, history>>

\* What becomes of requests that hold the scene of p: a save(update_fields) fails, a save()
\* finds no row.
Stranded(q, p) ==
    [r \in Requests |-> CASE r = q -> "idle"
                          [] r # q /\ held[r].p = p /\ pc[r] \in {"put", "copy"} -> "gap"
                          [] r # q /\ held[r].p = p /\ pc[r] = "bump" -> "lost"
                          [] OTHER -> pc[r]]

Gone(p) ==
    /\ row' = [row EXCEPT ![p] = "deleted"]
    /\ scene' = [scene EXCEPT ![p] = 0]
    /\ thumb' = [thumb EXCEPT ![p] = NoName]
    /\ child' = [c \in Children |-> IF c \in Below(p) THEN [kind |-> "gone", of |-> First] ELSE child[c]]

\* Fault: the decrement is left to a nightly recount.
DeleteUncounted(q) ==
    LET p == held[q].p IN
    /\ pc[q] = "delete" /\ Below(p) \subseteq held[q].children
    /\ pc' = Stranded(q, p) /\ held' = [held EXCEPT ![q] = Nothing]
    /\ Gone(p)
    /\ UNCHANGED <<objects, total, mishaps, bare, contended, unsure>>

\* Cascade and decrement_project_count commit together, even if another delete took the
\* row: then the counter goes down again.  The thumbnail stays in the bucket.
DeleteProject(q) ==
    LET p == held[q].p IN
    /\ pc[q] = "delete" /\ Below(p) \subseteq held[q].children
    /\ total > 0
    /\ pc' = Stranded(q, p) /\ held' = [held EXCEPT ![q] = Nothing]
    /\ Gone(p)
    /\ total' = total - 1
    /\ IF row[p] = "live" THEN UNCHANGED mishaps ELSE Mishap
    /\ UNCHANGED <<objects, bare, contended, unsure>>

\* A row was added below since, or the positive counter would go under zero: rolled back.
DeleteFails(q) ==
    /\ ~(Below(held[q].p) \subseteq held[q].children) \/ total = 0
    /\ End(q, "delete")
    /\ UNCHANGED <<rows, image, total, history>>

\* The web worker is killed between two statements.
KillRequest(q) ==
    LET p == held[q].p IN
    /\ pc[q] # "idle" /\ End(q, pc[q])
    /\ IF pc[q] \in {"scene", "count"} THEN Mishap ELSE UNCHANGED mishaps
    /\ bare' = IF pc[q] = "scene" THEN bare \cup {p} ELSE bare
    /\ unsure' = IF pc[q] \in {"store", "name"} THEN unsure \cup {p} ELSE unsure
    /\ UNCHANGED <<rows, image, total, contended>>

-----------------------------------------------------------------------------
Create(q) ==
    \/ \E p \in Ids : InsertProject(q, p) \/ InsertDuplicate(q, p)
    \/ CreateScene(q) \/ CountProject(q) \/ CopyScene(q)
    \/ (\E c \in Children : CopyNote(q, c)) \/ EndDuplicate(q)

Edit(q) ==
    \/ \E p \in Ids : FetchProject(q, p) \/ FetchScene(q, p)
    \/ FetchForThumbnail(q) \/ SaveProject(q) \/ SaveRevives(q) \/ SaveScene(q) \/ BumpVersion(q)
    \/ SaveLostScene(q) \/ BumpFails(q)
    \/ EraseThumbnail(q) \/ (\E n \in Names : StoreThumbnail(q, n)) \/ NameThumbnail(q)

Delete(q) == (\E p \in Ids : FetchToDelete(q, p)) \/ DeleteProject(q) \/ DeleteFails(q)

OfChild(q) == (\E c \in Children : FetchNote(q, c) \/ OpenLink(q, c)) \/ SaveNote(q) \/ ShowShared(q)

Next ==
    \/ \E q \in Requests : Create(q) \/ Edit(q) \/ Delete(q) \/ OfChild(q) \/ KillRequest(q)
    \/ \E c \in Children :
         \/ \E p \in Ids : CreateNote(c, p) \/ CreateLink(c, p)
         \/ DeleteChild(c) \/ ExpireLink(c)

Spec == Init /\ [][Next]_vars

-----------------------------------------------------------------------------
(* Properties. *)

Adding == {q \in Requests : pc[q] \in {"scene", "count"}}

\* create_scene_for_new_project and decrement_project_count: the counter is the number of
\* projects, less those still being created, through duplications, deletes and projects a
\* late PATCH brings back, unless a kill lost an increment or two deletes took one project.
TotalCounted ==
    /\ TypeOK
    /\ mishaps = 0 => total + Cardinality(Adding) = Cardinality(Live)

\* Every reader takes project.scene for granted: a project has one, unless it is being
\* created or its creation was killed before.
ProjectHasScene ==
    \A p \in Live \ bare : scene[p] = 0 => \E q \in Requests : pc[q] = "scene" /\ held[q].p = p

\* The thumbnail a project names can be shown, unless an upload for it is under way or was
\* killed, a PATCH put back an older name, or one upload erased what another had stored.
ThumbnailShown ==
    \A p \in Live \ unsure :
        thumb[p] \in objects \cup {NoName}
          \/ \E q \in Requests : pc[q] \in {"erase", "store", "name"} /\ held[q].p = p

\* SceneView, "incremente la version": the version of a scene never goes back, unless two
\* requests wrote it at once.
VersionNeverBack ==
    [][\A p \in Ids \ contended' : 0 \in {scene[p], scene'[p]} \/ scene'[p] >= scene[p]]_vars
=============================================================================
