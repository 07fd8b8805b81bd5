----------------------------- MODULE RepoPaths -----------------------------
(***************************************************************************)
(* Request paths, repository names and directories of the cache root       *)
(* (src/repo.rs), and the choice of the handler by method and path         *)
(* (handle_git of src/server.rs).                                          *)
(*                                                                         *)
(* A path is the sequence of its components, what is between slashes; a    *)
(* leading slash is a leading empty component.  A component is its text    *)
(* and the reserved marker it contains, if any.  An operator that returns  *)
(* an Option in the code returns a set of at most one element here.        *)
(***************************************************************************)
EXTENDS Naturals, Sequences

Incoming == ".__incoming__"    \* INCOMING_SUFFIX
Evicting == ".__evicting__"    \* EVICTING_SUFFIX
LfsDir   == ".__lfs__"         \* LFS_OBJECTS_DIR
Markers  == {Incoming, Evicting, LfsDir}

Plain(text) == [text |-> text, mark |-> "none"]
Empty       == Plain("")

Components == [text : STRING, mark : Markers \cup {"none"}]
Path(texts) == [i \in 1..Len(texts) |-> Plain(texts[i])]

-----------------------------------------------------------------------------
HasSuffix(p, s) ==
    Len(s) <= Len(p) /\ SubSeq(p, Len(p) - Len(s) + 1, Len(p)) = s

(* trim_start_matches('/') and trim_end_matches('/').                      *)
Filled(p) == {i \in 1..Len(p) : p[i] # Empty}
First(S)  == CHOOSE i \in S : \A j \in S : i <= j
Last(S)   == CHOOSE i \in S : \A j \in S : j <= i
TrimStart(p) == IF Filled(p) = {} THEN <<>> ELSE SubSeq(p, First(Filled(p)), Len(p))
TrimEnd(p)   == IF Filled(p) = {} THEN <<>> ELSE SubSeq(p, 1, Last(Filled(p)))

repo_name_from_path(path, suffix) ==
    LET p == TrimStart(path) IN
      IF HasSuffix(p, suffix)
        THEN {TrimEnd(SubSeq(p, 1, Len(p) - Len(suffix)))}
        ELSE {}

InfoRefs     == Path(<<"info", "refs">>)
GitUpload    == Path(<<"git-upload-pack">>)
GitReceive   == Path(<<"git-receive-pack">>)
LfsMarker    == Path(<<"info", "lfs", "objects">>)
LfsBatch     == Append(LfsMarker, Plain("batch"))

lfs_batch_repo(path) == repo_name_from_path(path, LfsBatch)

(* The first LFS_MARKER splits the path; what follows must be one          *)
(* component that is a valid id.                                           *)
MarkersIn(p) == {i \in 2..Len(p) - Len(LfsMarker) :
                   SubSeq(p, i, i + Len(LfsMarker) - 1) = LfsMarker}

lfs_object_from_path(path, valid) ==
    LET p  == TrimStart(path)
        at == {i \in MarkersIn(p) : \A j \in MarkersIn(p) : i <= j}
    IN {[repo |-> SubSeq(p, 1, i - 1), oid |-> p[Len(p)].text] :
          i \in {j \in at : /\ Len(p) = j + Len(LfsMarker)
                            /\ p[Len(p)] \in {Plain(o) : o \in valid}}}

(* handle_git, once check_auth has let the request pass: service is what   *)
(* the query names.                                                        *)
Route(method, path, service, valid) ==
    IF HasSuffix(path, GitReceive) \/ service = "git-receive-pack"
      THEN "forbidden"
      ELSE CASE method = "GET" /\ HasSuffix(path, InfoRefs) ->
                  IF service = "git-upload-pack" THEN "info_refs" ELSE "bad_request"
             [] method = "POST" /\ HasSuffix(path, GitUpload) -> "upload_pack"
             [] method = "POST" /\ HasSuffix(path, LfsBatch)  -> "lfs_batch"
             [] method = "GET" /\ lfs_object_from_path(path, valid) # {} ->
                  "lfs_object"
             [] OTHER -> "not_found"

-----------------------------------------------------------------------------
(* resolve: which names are accepted, and the directories they stand for.  *)
Resolves(name) ==
    /\ name # <<>>
    /\ \A i \in 1..Len(name) :
         /\ name[i] \notin {Empty, Plain("."), Plain("..")}
         /\ name[i].mark = "none"

cache_dir(name) == name

(* The siblings that append a reserved suffix to the last component.       *)
Sibling(name, suffix) ==
    [name EXCEPT ![Len(name)] = [text |-> @.text, mark |-> suffix]]
staging_dir(name) == Sibling(name, Incoming)
trash_dir(name)   == Sibling(name, Evicting)

(* lfs_object_key, sharded by the start of the id.                         *)
LfsTop == [text |-> "", mark |-> LfsDir]
lfs_object_path(shard, oid) == <<LfsTop, Plain(shard), Plain(oid)>>

(* A path that is the directory dir, or inside it.                         *)
Within(path, dir) == Len(dir) <= Len(path) /\ SubSeq(path, 1, Len(dir)) = dir

=============================================================================
