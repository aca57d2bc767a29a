---------------------------- MODULE CachePolicy ----------------------------
(***************************************************************************)
(* What the modules say about an entry, given its locator: "pass" (neither *)
(* cached nor stored), "check" (stored, and revalidated before it is       *)
(* served) or "serve" (stored, and served as it is).  The base policy of   *)
(* the handler, which excludes all methods but GET and HEAD, is given to   *)
(* the modules, and each of them overrides it in its own way.  A locator   *)
(* is the sequence of its segments, in lower case where the module folds   *)
(* it.                                                                     *)
(***************************************************************************)
EXTENDS Naturals, Sequences, SequencesExt

CONSTANT Looks  \* the <<segment, pattern>> where the pattern, which is
                \* neither the segment nor a part of others, begins or ends it

ASSUME LooksType == \A pair \in Looks : Len(pair) = 2

Like(segment, pattern) == segment = pattern \/ <<segment, pattern>> \in Looks

(* A segment with this name has something below it.                        *)
Below(loc, name) == \E i \in 1..(Len(loc) - 1) : loc[i] = name
EndsWith(loc, patterns) == loc # <<>> /\ \E p \in patterns : Like(Last(loc), p)
StartsWith(loc, names) == Len(loc) > 1 /\ loc[1] \in names

(* Mutant: whatever is below "manifests" or "blobs" is immutable.          *)
AnyManifest(loc) == Below(loc, "blobs") \/ Below(loc, "manifests")

(* isDockerImmutablePath.                                                  *)
ByDigest(loc) == \E i \in 2..Len(loc) :
                   loc[i - 1] \in {"blobs", "manifests"} /\ Like(loc[i], "sha256:")

Docker(loc) == IF loc = <<"v2">> \/ \E i \in 1..Len(loc) : Like(loc[i], "_catalog")
               THEN "pass"
               ELSE IF ByDigest(loc) THEN "serve" ELSE "check"

NpmPolicy(loc) == IF Below(loc, "-") /\ EndsWith(loc, {".tgz"}) THEN "serve"
                                                                ELSE "check"

Go(loc) == IF Below(loc, "@v") /\ EndsWith(loc, {".zip", ".mod", ".info"})
           THEN "serve" ELSE "check"

(* isDistributionAsset.                                                    *)
Asset(path) == EndsWith(path, {".whl", ".tar.gz", ".tar.bz2", ".tgz", ".zip", ".egg"})

(* determineCachePolicy: the methods the base policy caches.               *)
Reads == {"GET", "HEAD"}

(* normalizePath ends what is below "simple" with a slash, so its last     *)
(* segment is no file name.  Where no asset is named the base policy only  *)
(* gets the demand for a revalidation.                                     *)
Pypi(loc, method) == IF Asset(loc) /\ ~StartsWith(loc, {"simple"}) THEN "serve"
                     ELSE IF method \in Reads THEN "check" ELSE "pass"

DebianIndexes == {"release", "inrelease", "release.gpg", "packages", "packages.gz",
                  "packages.xz", "sources", "sources.gz", "sources.xz"}
Debian(loc) ==
  IF Below(loc, "by-hash") \/ Below(loc, "pool") THEN "serve"
  ELSE IF /\ Below(loc, "dists")
          /\ \/ loc # <<>> /\ Last(loc) \in DebianIndexes
             \/ \E i \in 1..Len(loc) : Like(loc[i], "contents-")
       THEN "check" ELSE "pass"

ApkIndexes == {"apkindex.tar.gz", "apkindex.tar.gz.asc", "apkindex.tar.gz.sig"}
Apk(loc) == IF loc # <<>> /\ Last(loc) \in ApkIndexes THEN "check"
            ELSE IF EndsWith(loc, {".apk"}) THEN "serve" ELSE "pass"

Composer(loc) == IF StartsWith(loc, {"dist", "dists"}) THEN "serve"
                 ELSE IF \/ loc = <<"packages.json">>
                         \/ StartsWith(loc, {"p2", "p", "providers"})
                         \/ loc # <<>> /\ Like(loc[1], "provider-")
                      THEN "check" ELSE "pass"

(* determineCachePolicyWithHook.                                           *)
Types == {"docker", "npm", "go", "pypi", "debian", "apk", "composer"}
Policy(type, loc, method) ==
  CASE type = "docker" -> Docker(loc)
    [] type = "npm" -> NpmPolicy(loc)
    [] type = "go" -> Go(loc)
    [] type = "pypi" -> Pypi(loc, method)
    [] type = "debian" -> Debian(loc)
    [] type = "apk" -> Apk(loc)
    [] type = "composer" -> Composer(loc)
=============================================================================
