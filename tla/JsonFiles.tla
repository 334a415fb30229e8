----------------------------- MODULE JsonFiles -----------------------------
(***************************************************************************)
(* Where core/jsonio.cpp and getPath of core/youtube.cpp look for a file   *)
(* of the program and where they put it.  Places: "path", the directory    *)
(* given on the command line; "home", racecam/data under HOME; "etc",      *)
(* /etc/racecam/data; "usr", /usr/local/etc/racecam/data, which only       *)
(* getPath knows and nothing ever writes.                                  *)
(***************************************************************************)

(* jsonRead: has is the set of places where the file exists, path tells    *)
(* whether the caller gave a directory.  "none": the caller gets null.     *)
JsonReadPlace_EtcFirst(has, path) ==
  CASE path /\ "path" \in has -> "path"
    [] ~(path /\ "path" \in has) /\ "etc" \in has -> "etc"
    [] ~(path /\ "path" \in has) /\ "etc" \notin has /\ "home" \in has -> "home"
    [] OTHER -> "none"
JsonReadPlace(has, path) ==
  CASE path /\ "path" \in has -> "path"
    [] ~(path /\ "path" \in has) /\ "home" \in has -> "home"
    [] ~(path /\ "path" \in has) /\ "home" \notin has /\ "etc" \in has -> "etc"
    [] OTHER -> "none"

(* jsonWrite: dirs is the set of directories that exist.  "none": throws.  *)
JsonWritePlace(dirs, path) ==
  CASE path /\ "path" \in dirs -> "path"
    [] ~(path /\ "path" \in dirs) /\ "home" \in dirs -> "home"
    [] ~(path /\ "path" \in dirs) /\ "home" \notin dirs /\ "etc" \in dirs -> "etc"
    [] OTHER -> "none"

(* ... and it creates the directory under HOME when it did not choose it:  *)
(* the file goes elsewhere this time, and there the next time.             *)
DirsAfterWrite(dirs, path) ==
  IF path /\ "path" \in dirs THEN dirs ELSE dirs \cup {"home"}

(* getPath, for stat(). *)
GetPathPlace(has) ==
  CASE "home" \in has -> "home"
    [] "home" \notin has /\ "usr" \in has -> "usr"
    [] OTHER -> "none"
=============================================================================
