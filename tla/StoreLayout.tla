---------------------------- MODULE StoreLayout ----------------------------
(***************************************************************************)
(* From a request to a file, and to a resource of the upstream: the hub's  *)
(* module normalises the path, resolveUpstreamURL makes a URL of it,       *)
(* buildLocator a locator, entryPath a file below the directory of the     *)
(* hub, and Get, Put and Remove meet whatever is there by then: nothing,   *)
(* an entry, or a directory that other entries made.  Here are the         *)
(* functions that say so; Service has the requests.                        *)
(*                                                                         *)
(* A path is the sequence of its segments.  All bodies come without an     *)
(* effective upstream path, as everywhere but at registry.k8s.io           *)
(* (ManifestFallback), and no composer archive is asked for by its mirror  *)
(* URL (ComposerHub).  No segment is "." or "..": names and paths that     *)
(* filepath.Join would clean are not considered.                           *)
(***************************************************************************)
EXTENDS HubRegistry, Functions

NoQuery == ""
Raw == <<>>

(* A request; its headers are those by which the upstream may choose among *)
(* answers, like Accept and Authorization, which CopyHeaders passes on.    *)
Request == [method : STRING, host : Names, path : Names, query : Tokens,
            headers : STRING]

-----------------------------------------------------------------------------
(* docker normalizePath: at Docker Hub a repository of one segment is one  *)
(* of "library".                                                           *)
DockerHub == {"registry-1.docker.io", "docker.io", "index.docker.io"}
Operations == {"manifests", "blobs", "tags", "referrers"}
InLibrary(hub, path) == /\ hub.upstream[2] \in DockerHub
                        /\ Len(path) > 2 /\ path[1] = "v2"
                        /\ path[2] \notin Operations \cup {"_catalog", "library"}
                        /\ path[3] \in Operations

(* pypi normalizePath: the short name of a project is one of its index.    *)
ShortName(path) == /\ path # <<>>
                   /\ ~StartsWith(path, {"files", "simple"})
                   /\ ~Asset(path) /\ ~Like(path[1], "_")

(* The NormalizePath hooks.                                                *)
Normal(hub, path) ==
  CASE hub.type = "docker" /\ InLibrary(hub, path) -> <<"v2", "library">> \o Tail(path)
    [] hub.type = "pypi" /\ ShortName(path) -> <<"simple">> \o path
    [] OTHER -> path

(* parseComposerDistURL, resolveFilesUpstream: a path that names a scheme, *)
(* a host and a path there.                                                *)
NamesOrigin(hub, path) == /\ Len(path) > 3
                          /\ \/ hub.type = "pypi" /\ path[1] = "files"
                             \/ hub.type = "composer" /\ path[1] = "dist"

(* resolveUpstreamURL: else the path replaces that of the upstream.        *)
Url(hub, req) ==
  LET path == Normal(hub, req.path)
  IN  IF NamesOrigin(hub, path)
      THEN [origin |-> SubSeq(path, 2, 3), path |-> SubSeq(path, 4, Len(path)),
            query |-> req.query]
      ELSE [origin |-> SubSeq(hub.upstream, 1, 2), path |-> path, query |-> req.query]

(* The RewriteResponse hooks write the domain of the hub into the links of *)
(* an index; the one of pypi looks at the path as the client wrote it.     *)
Links(hub, req) ==
  IF \/ hub.type = "pypi" /\ (req.path = <<>> \/ Like(req.path[1], "simple"))
     \/ hub.type = "composer" /\ Composer(req.path) = "check"
  THEN hub.domain ELSE Raw

(* What the client of the hub gets from the upstream.                      *)
Answer(hub, req) == [url |-> Url(hub, req), links |-> Links(hub, req),
                     method |-> req.method, headers |-> req.headers]

-----------------------------------------------------------------------------
(* buildLocator: a query, which is hashed, becomes two segments at the end.*)
Suffix(query) == IF query = NoQuery THEN <<>> ELSE <<"__qs", query>>

(* composer normalizePath drops the query of an archive.                   *)
KeyQuery(hub, req) == IF hub.type = "composer" /\ StartsWith(req.path, {"dist", "dists"})
                      THEN NoQuery ELSE req.query

(* Where a locator is taken to end and its query to begin: at the first    *)
(* "__qs", even if it was part of the path.                                *)
QueryPlaces(loc) == {i \in 1..(Len(loc) - 1) : loc[i] = "__qs"}
Core(loc) == IF QueryPlaces(loc) = {} THEN loc
             ELSE SubSeq(loc, 1, Min(QueryPlaces(loc)) - 1)

(* Mutant: package documents are stored under the name of the package.     *)
NpmRaw(loc) == loc

(* rewriteNPMLocator: what is not below a "-" segment is a package         *)
(* document and moves into the directory of the package.                   *)
Npm(loc) ==
  LET core == Core(loc)
  IN  IF Below(core, "-") THEN loc
      ELSE Append(core, "package.json") \o SubSeq(loc, Len(core) + 1, Len(loc))

(* The locator, rewritten by the module.                                   *)
Rewritten(hub, loc) == IF hub.type = "npm" THEN Npm(loc) ELSE loc

(* Mutant: the query is not part of the locator.                           *)
LocatorWithoutQuery(hub, req) == Rewritten(hub, Normal(hub, req.path))

Locator(hub, req) ==
  Rewritten(hub, Normal(hub, req.path) \o Suffix(KeyQuery(hub, req)))

(* Mutant: the hub is not part of the name.                                *)
EntryPathOfAll(hub, req) == IF Locator(hub, req) = <<>> THEN <<"root">>
                                                        ELSE Locator(hub, req)

(* entryPath: the file of an entry, below the storage directory <<>>.      *)
EntryPath(hub, req) ==
  hub.name \o IF Locator(hub, req) = <<>> THEN <<"root">> ELSE Locator(hub, req)

(* metadataPath: the file of the metadata of the entry at f.               *)
MetaPath(f) == Append(Front(f), Last(f) \o ".meta")
Parents(f) == {SubSeq(f, 1, n) : n \in 0..(Len(f) - 1)}

(* The segments that the code adds to a path.                              *)
Added == {"v2", "library", "simple", "package.json", "__qs", NoQuery, "root"}

-----------------------------------------------------------------------------
(* A disk has entries, disk.files, and directories, disk.dirs.             *)
Entry(disk, f) == f \in DOMAIN disk.files

(* fileStore.Get finds an entry.  Where the name of its metadata belongs   *)
(* to another entry, Get reads that one's body: if it is JSON, Get         *)
(* succeeds, else it fails.  A directory makes it fail.                    *)
Finds(disk, f) == Entry(disk, f) /\ MetaPath(f) \notin disk.dirs
Misses(disk, f) == ~Finds(disk, f) \/ Entry(disk, MetaPath(f))

(* Mutant: the directory of the entry is cleared with it.                  *)
OthersElsewhere(disk, f) == {g \in DOMAIN disk.files : Front(g) # Front(f)}

(* The entries that a Put or Remove of f leaves alone: both remove the     *)
(* file that has the name of the metadata.                                 *)
Others(disk, f) == DOMAIN disk.files \ {f, MetaPath(f)}

(* fileStore.Remove.  The directories stay.                                *)
RemoveEntry(disk, f) == [disk EXCEPT !.files = Restrict(@, Others(disk, f))]

(* Mutant: a rename onto a directory succeeds.                             *)
BlockedByFiles(disk, f) == \E p \in Parents(f) : Entry(disk, p)

(* MkdirAll fails below a file, and rename fails onto a directory.         *)
Blocked(disk, f) == f \in disk.dirs \/ \E p \in Parents(f) : Entry(disk, p)

(* writeMetadata cannot remove a directory that is not empty.              *)
MetaStuck(disk, f) == /\ MetaPath(f) \in disk.dirs
                      /\ \E g \in DOMAIN disk.files \cup disk.dirs : MetaPath(f) \in Parents(g)

(* fileStore.Put of a body that breaks off: MkdirAll has been called.      *)
BrokenPut(disk, f) == [disk EXCEPT !.dirs = @ \cup Parents(f)]

(* fileStore.Put of a body.  Where it is blocked the directories above f   *)
(* exist or cannot be made.  Else it fails in writeMetadata, and the body  *)
(* stays.                                                                  *)
PutFails(disk, f) == Blocked(disk, f) \/ MetaStuck(disk, f)
PutEntry(disk, f, file) ==
  IF Blocked(disk, f) THEN disk
  ELSE [files |-> [g \in Others(disk, f) \cup {f} |-> IF g = f THEN file ELSE disk.files[g]],
        dirs |-> IF MetaStuck(disk, f) THEN disk.dirs
                                       ELSE (disk.dirs \ {MetaPath(f)}) \cup Parents(f)]
=============================================================================
