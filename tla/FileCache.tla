----------------------------- MODULE FileCache -----------------------------
(* Fmi::Cache::FileCache (Cache.cpp): an LRU cache of values in files, one file for
   each key, in a directory that outlives the process.  All operations run under
   the one mutex, and what they do to the directory is not undone by a crash: a
   step is an operation, or one turn of the loop of performCleanup().

   The directory is also used by others ("somebody may have cleaned the file"), and
   the file system may refuse to remove a file or to write one.  The contents of a
   file are its length, and whether it is the whole value.                         *)
EXTENDS Naturals, Sequences, FiniteSets, SequencesExt, Functions

CONSTANTS
  FileKeys,     \* the keys
  BytesOf,      \* the size of the value of each key
  itsMaxSize,   \* constructor argument maxSize
  CleanSizes,   \* what clean() may be given
  SizeModulus,  \* of std::size_t
  NoFileKey

ASSUME FileCacheAssumption ==
  /\ IsFiniteSet(FileKeys)
  /\ NoFileKey \notin FileKeys
  /\ SizeModulus \in Nat
  /\ itsMaxSize \in 1 .. SizeModulus - 1
  /\ BytesOf \in [FileKeys -> 1 .. SizeModulus - 1]
  /\ CleanSizes \subseteq 0 .. SizeModulus - 1

VARIABLES
  files,       \* the directory: a length for each key that has a file
  torn,        \* the keys whose file is not the whole value
  entries,     \* itsContentMap's right view: the keys in order of use
  fileSize,    \* FileCacheStruct::fileSize of each key, while it has an entry
  itsSize,
  filePc,      \* "down", "loading", "up", "cleaning"
  request,     \* what a cleanup makes room for: the key, and the space needed
  unread,      \* the files that update() has not visited yet
  loaded,      \* history: the entries that update() made
  undetected,  \* history: the files whose failed write was taken for a success
  orphans      \* history: the files that were left without an entry

memory == <<entries, fileSize, itsSize, request, unread, loaded>>
fileVars == <<files, torn, memory, filePc, undetected, orphans>>

NoRequest == [key |-> NoFileKey, space |-> 0]

OnDisk == DOMAIN files
Entries == ToSet(entries)

\* Subtraction in std::size_t.
Minus(a, b) == (a + SizeModulus - b) % SizeModulus

FreeSpace == Minus(itsMaxSize, itsSize)

FileCacheInit ==
  /\ files = <<>>
  /\ torn = {} /\ undetected = {} /\ orphans = {}
  /\ entries = <<>>
  /\ fileSize = [k \in FileKeys |-> 0]
  /\ itsSize = 0
  /\ filePc = "down"
  /\ request = NoRequest
  /\ unread = {} /\ loaded = {}
-----------------------------------------------------------------------------
(* The life of a process: the constructor calls update(), which visits the files in
   any order; it may crash between any two steps.                                  *)

Starts ==
  /\ filePc = "down"
  /\ filePc' = "loading"
  /\ unread' = OnDisk
  /\ UNCHANGED <<files, torn, entries, fileSize, itsSize, request, loaded, undetected, orphans>>

LoadedSize(k) == itsSize + files[k]

\* A file is entered when it leaves some room.
LoadsFile(k) ==
  /\ filePc = "loading"
  /\ k \in unread
  /\ unread' = unread \ {k}
  /\ IF itsSize + files[k] < itsMaxSize
     THEN /\ entries' = Append(entries, k)
          /\ fileSize' = [fileSize EXCEPT ![k] = files[k]]
          /\ itsSize' = LoadedSize(k)
          /\ loaded' = loaded \cup {k}
          /\ orphans' = orphans \ {k}
     ELSE /\ orphans' = orphans \cup {k}
          /\ UNCHANGED <<entries, fileSize, itsSize, loaded>>
  /\ UNCHANGED <<files, torn, filePc, request, undetected>>

IsLoaded ==
  /\ filePc = "loading"
  /\ unread = {}
  /\ filePc' = "up"
  /\ UNCHANGED <<files, torn, memory, undetected, orphans>>

Ends ==
  /\ filePc # "down"
  /\ filePc' = "down"
  /\ entries' = <<>>
  /\ fileSize' = [k \in FileKeys |-> 0]
  /\ itsSize' = 0
  /\ request' = NoRequest
  /\ unread' = {} /\ loaded' = {}
  /\ UNCHANGED <<files, torn, undetected, orphans>>

\* Somebody cleans a file, at any time.
CleanedByOthers(k) ==
  /\ k \in OnDisk
  /\ files' = [j \in OnDisk \ {k} |-> files[j]]
  /\ torn' = torn \ {k}
  /\ unread' = unread \ {k}
  /\ undetected' = undetected \ {k}
  /\ orphans' = orphans \ {k}
  /\ UNCHANGED <<entries, fileSize, itsSize, filePc, request, loaded>>
-----------------------------------------------------------------------------
(* find() *)

FindsFile(k) ==
  /\ filePc = "up"
  /\ k \in Entries \cap OnDisk
  /\ entries' = Append(RemoveFirst(entries, k), k)
  /\ UNCHANGED <<files, torn, fileSize, itsSize, filePc, request, unread, loaded,
                 undetected, orphans>>
-----------------------------------------------------------------------------
(* insert() *)

SizeWithoutLost(k) == IF k \in Entries THEN Minus(itsSize, fileSize[k]) ELSE itsSize

\* writeFile() gives up before the file is open.
NotOpened(k, size) ==
  /\ entries' = RemoveFirst(entries, k)
  /\ itsSize' = size
  /\ loaded' = loaded \ {k}
  /\ UNCHANGED <<files, torn, fileSize, undetected, orphans>>

\* mutant: the result of writeFile() is not looked at
AnyWrite == {"written", "failed", "undetected"}

TakenForWritten == {"written", "undetected"}

(* writeFile(), in place: the write succeeds, or it fails and the file is what was
   written so far; `return !!file' comes before the buffer is flushed, so that a
   failure may also pass for a success.                                            *)
Writes(k, size) ==
  \E outcome \in {"written", "failed", "undetected"}, length \in 0 .. BytesOf[k] :
    /\ outcome = "written" <=> length = BytesOf[k]
    /\ files' = [j \in OnDisk \cup {k} |-> IF j = k THEN length ELSE files[j]]
    /\ torn' = IF outcome = "written" THEN torn \ {k} ELSE torn \cup {k}
    /\ undetected' = IF outcome = "undetected" THEN undetected \cup {k}
                                               ELSE undetected \ {k}
    /\ orphans' = IF outcome = "failed" THEN orphans \cup {k} ELSE orphans \ {k}
    /\ IF outcome \in TakenForWritten
       THEN /\ entries' = Append(RemoveFirst(entries, k), k)
            /\ fileSize' = [fileSize EXCEPT ![k] = BytesOf[k]]
            /\ itsSize' = size + BytesOf[k]
       ELSE /\ entries' = RemoveFirst(entries, k)
            /\ itsSize' = size
            /\ UNCHANGED fileSize
    /\ loaded' = loaded \ {k}

(* checkForDiskSpace(): too large for the cache, or for the file system, or no room
   and no cleanup wanted.  What was found missing has no entry any more.           *)
InsertRefused(k) ==
  /\ filePc = "up"
  /\ k \notin Entries \cap OnDisk
  /\ entries' = RemoveFirst(entries, k)
  /\ itsSize' = SizeWithoutLost(k)
  /\ loaded' = loaded \ {k}
  /\ UNCHANGED <<files, torn, fileSize, filePc, request, unread, undetected, orphans>>

InsertWrites(k) ==
  /\ filePc = "up"
  /\ k \notin Entries \cap OnDisk
  /\ BytesOf[k] <= itsMaxSize
  /\ BytesOf[k] <= Minus(itsMaxSize, SizeWithoutLost(k))
  /\ Writes(k, SizeWithoutLost(k)) \/ NotOpened(k, SizeWithoutLost(k))
  /\ UNCHANGED <<filePc, request, unread>>

InsertCleansUp(k) ==
  /\ filePc = "up"
  /\ k \notin Entries \cap OnDisk
  /\ BytesOf[k] <= itsMaxSize
  /\ BytesOf[k] > Minus(itsMaxSize, SizeWithoutLost(k))
  /\ entries' = RemoveFirst(entries, k)
  /\ itsSize' = SizeWithoutLost(k)
  /\ loaded' = loaded \ {k}
  /\ filePc' = "cleaning"
  /\ request' = [key |-> k, space |-> BytesOf[k]]
  /\ UNCHANGED <<files, torn, fileSize, unread, undetected, orphans>>

CleanCalled(space) ==
  /\ filePc = "up"
  /\ filePc' = "cleaning"
  /\ request' = [key |-> NoFileKey, space |-> space]
  /\ UNCHANGED <<files, torn, entries, fileSize, itsSize, unread, loaded, undetected, orphans>>
-----------------------------------------------------------------------------
(* performCleanup() *)

DropsFirst == Tail(entries)

\* One turn: the file of the least recently used entry; an error is ignored.
EvictsFile ==
  LET k == Head(entries) IN
  /\ filePc = "cleaning"
  /\ FreeSpace < request.space
  /\ entries # <<>>
  /\ \/ /\ files' = [j \in OnDisk \ {k} |-> files[j]]
        /\ torn' = torn \ {k}
        /\ undetected' = undetected \ {k}
        /\ UNCHANGED orphans
     \/ /\ k \in OnDisk
        /\ orphans' = orphans \cup {k}
        /\ UNCHANGED <<files, torn, undetected>>
  /\ entries' = DropsFirst
  /\ itsSize' = Minus(itsSize, fileSize[k])
  /\ loaded' = loaded \ {k}
  /\ UNCHANGED <<fileSize, filePc, request, unread>>

\* The end of a clean(), or of an insertion for which there is no room.
CleanupEnds ==
  /\ filePc = "cleaning"
  /\ IF FreeSpace < request.space THEN entries = <<>> ELSE request.key = NoFileKey
  /\ filePc' = "up"
  /\ request' = NoRequest
  /\ UNCHANGED <<files, torn, entries, fileSize, itsSize, unread, loaded, undetected, orphans>>

WritesAfterCleanup ==
  /\ filePc = "cleaning"
  /\ FreeSpace >= request.space
  /\ request.key # NoFileKey
  /\ Writes(request.key, itsSize) \/ NotOpened(request.key, itsSize)
  /\ filePc' = "up"
  /\ request' = NoRequest
  /\ UNCHANGED unread
-----------------------------------------------------------------------------
FileCacheNext ==
  \/ Starts
  \/ IsLoaded
  \/ Ends
  \/ EvictsFile
  \/ CleanupEnds
  \/ WritesAfterCleanup
  \/ \E space \in CleanSizes : CleanCalled(space)
  \/ \E k \in FileKeys :
       \/ LoadsFile(k)
       \/ CleanedByOthers(k)
       \/ FindsFile(k)
       \/ InsertRefused(k)
       \/ InsertWrites(k)
       \/ InsertCleansUp(k)

FileCacheSpec == FileCacheInit /\ [][FileCacheNext]_fileVars
-----------------------------------------------------------------------------
FileCacheTypeOK ==
  /\ OnDisk \subseteq FileKeys /\ \A k \in OnDisk : files[k] \in Nat
  /\ torn \subseteq OnDisk
  /\ entries \in Seq(FileKeys)
  /\ fileSize \in [FileKeys -> Nat]
  /\ itsSize \in 0 .. SizeModulus - 1
  /\ filePc \in {"down", "loading", "up", "cleaning"}
  /\ request \in [key : FileKeys \cup {NoFileKey}, space : Nat]
  /\ unread \subseteq OnDisk
  /\ loaded \subseteq FileKeys /\ undetected \subseteq FileKeys /\ orphans \subseteq FileKeys

(* itsSize is the sum of the entries' sizes, each key has one entry, and the sum is
   within the maximum (Cache.cpp:158, 195, 280, 333-339), over insertions, lost
   files, failed writes and restarts.  Were it above, the unsigned difference of
   Cache.cpp:263 and 447 would pass for nearly endless room.                       *)
FileCacheAddsUp ==
  /\ Len(entries) = Cardinality(Entries)
  /\ itsSize = SumFunctionOnSet(fileSize, Entries)
  /\ itsSize <= itsMaxSize

(* The entries and the directory agree, but where they may not.  A file without an
   entry was left by a failed write, a failed removal, or an update() that had no
   room for it (Cache.cpp:274, 334), or belongs to a process that ended; an entry
   whose file is torn was made by update(), which takes any file for a value
   (Cache.cpp:330-339), or by a write whose failure came after the test of the
   stream (Cache.cpp:410).  In every other case find() returns a whole value.      *)
FilesMatchEntries ==
  filePc \in {"up", "cleaning"} =>
    /\ OnDisk \ Entries \subseteq orphans
    /\ Entries \cap torn \subseteq loaded \cup undetected

(* Both: the file cache adds up, and knows its files. *)
FileCacheConsistent == FileCacheAddsUp /\ FilesMatchEntries
=============================================================================
