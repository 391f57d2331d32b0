----------------------------- MODULE DirWalker -----------------------------
(***************************************************************************)
(* recursive_cp and recursive_unlink (recovery/common/path_opts.c) over    *)
(* the directory walker (dir_walker.c): what a tree and its copy look like *)
(* when any call into the file system may fail.                            *)
(*                                                                         *)
(* The walker's recursion is a stack of the directories being listed.  A   *)
(* directory is listed in any order, one entry a step; a file is copied    *)
(* one buffer a step.  Repartition takes the two functions in one step per *)
(* file; this module says what their results are worth.                    *)
(***************************************************************************)
EXTENDS Naturals, Sequences

CONSTANTS
    Root,        \* the directory walked
    Dirs, Files, \* what may lie in the tree; Root is one of Dirs
    Parent,      \* the directory each of them but Root lies in
    Below,       \* all that lies below a directory
    Trees,       \* the trees that are walked: sets of directories and files
    LongPaths,   \* what is refused: directory and entry have over 1024 characters
    Named,       \* what an entry's path names: the entry, but when it is cut
    Chunks,      \* the size of a file, in buffers
    Limit,       \* recursion_limit: 100
    Huge         \* (size_t)-1: what a failed lseek makes of the size

Nodes == Dirs \cup Files
ASSUME TreeAssumption ==
    /\ Root \in Dirs /\ Dirs \cap Files = {} /\ LongPaths \subseteq Nodes
    /\ Parent \in [Nodes \ {Root} -> Dirs] /\ Below \in [Dirs -> SUBSET Nodes]
    /\ Below[Root] = Nodes \ {Root}
    /\ Named \in [Nodes -> Nodes] /\ \A x \in Nodes \ {Root} : Named[x] # Root
    /\ \A d \in Dirs : \A x \in Nodes \ {Root} :
          Parent[x] = d \/ Parent[x] \in Below[d] => x \in Below[d]
    /\ Trees \subseteq SUBSET Nodes
    /\ \A t \in Trees : Root \in t /\ \A x \in t \ {Root} : Parent[x] \in t
    \* no directory lies below itself
    /\ \A s \in SUBSET (Nodes \ {Root}) : s # {} => \E x \in s : Parent[x] \notin s
    /\ Chunks \in [Files -> Nat] /\ Limit \in Nat \ {0} /\ Huge \notin Nat

VARIABLES
    src,     \* the tree, as it is
    dst,     \* what of it the copy has: "none", "part", "torn", "whole"
    op,      \* "idle", "cp" or "rm"
    stack,   \* the directories being listed, Root first: [dir, unread, done]
    limit,   \* *recursion_limit
    error,   \* h->error
    rooted,  \* h->root_catalog is set
    loop,    \* the file being copied: [file, pos, left], or NoLoop
    sought,  \* no lseek has failed in this call
    unseen,  \* a listing ended early, a write was short or a path cut in this call
    result   \* what the last call did and returned

tree == <<src, dst>>
walk == <<stack, limit, error, rooted>>
seen == <<sought, unseen>>
vars == <<tree, op, walk, loop, seen, result>>

NoLoop == [file |-> Root, pos |-> 0, left |-> 0]
NoResult == [op |-> "none", error |-> "ok"]
NoCopy == [x \in Nodes |-> "none"]

Init ==
    /\ src \in Trees /\ dst = NoCopy
    /\ op = "idle" /\ stack = <<>> /\ limit = Limit /\ error = "ok" /\ rooted = FALSE
    /\ loop = NoLoop /\ sought = TRUE /\ unseen = FALSE /\ result = NoResult

-----------------------------------------------------------------------------
(* recursive_dir_walker *)

Top == stack[Len(stack)]
WithTop(t) == [stack EXCEPT ![Len(stack)] = t]
Listing == stack # <<>> /\ loop = NoLoop /\ ~Top.done
Taken(x) == WithTop([Top EXCEPT !.unread = @ \ {x}])
\* The error is kept and the directory listed no further.
Break(e) == error' = e /\ stack' = WithTop([Top EXCEPT !.done = TRUE])

Children(d) == {x \in src \ {Root} : Parent[x] = d}
Opened(d, s) ==
    /\ stack' = Append(s, [dir |-> d, unread |-> Children(d), done |-> FALSE])
    /\ rooted' = TRUE /\ UNCHANGED error

\* A call for directory d, from the loops s.
WalkRefused(s) ==
    /\ stack' = s /\ UNCHANGED rooted
    /\ IF limit = 0 THEN error' = "RecursionLimit" /\ UNCHANGED limit
       ELSE /\ limit' = limit - 1
            /\ error' = IF error = "ok" THEN "FS" ELSE error   \* opendir
WalkForgiving(d, s) ==
    \/ limit = 0 /\ WalkRefused(s)
    \/ /\ limit > 0 /\ limit' = limit - 1
       /\ Opened(d, s) \/ (stack' = s /\ UNCHANGED <<error, rooted>>)
Walk(d, s) ==
    \/ WalkRefused(s)
    \/ limit > 0 /\ error = "ok" /\ limit' = limit - 1 /\ Opened(d, s)

\* recursive_cp copies to a place check_temp_dir has cleared or to a new file
\* system; recursive_unlink is called for a directory that exists.
Start(o) ==
    /\ op = "idle" /\ Root \in src
    /\ o = "cp" => dst = NoCopy
    /\ op' = o /\ Walk(Root, <<>>)
    /\ sought' = TRUE /\ unseen' = FALSE /\ result' = NoResult
    /\ UNCHANGED <<tree, loop>>

\* readdir returns NULL at the end, and when it fails.
ListingEnds ==
    /\ Listing
    /\ stack' = WithTop([Top EXCEPT !.done = TRUE])
    /\ unseen' = (unseen \/ Top.unread # {})
    /\ UNCHANGED <<tree, op, limit, error, rooted, loop, sought, result>>

PathTooLong(x) ==
    /\ Listing /\ x \in Top.unread \cap LongPaths
    /\ Break("PathTooLong")
    /\ UNCHANGED <<tree, op, limit, rooted, loop, seen, result>>

\* The next entry, of directories or of files.  Its path is cut to 1023
\* characters where directory and entry have 1023 or 1024: then it names what
\* has the shorter name, or nothing, and the entry itself is passed over.
Entry(x, kind) ==
    /\ Listing /\ x \in (Top.unread \cap kind) \ LongPaths
    /\ unseen' = (unseen \/ Named[x] # x)

\* cp_callback makes the directory; unlink_callback does nothing.
EnterDir(x) ==
    /\ Entry(x, Dirs)
    /\ \/ op = "cp" /\ Break("Callback") /\ UNCHANGED <<dst, limit, rooted>>
       \/ Named[x] \notin src \cap Dirs /\ WalkRefused(Taken(x)) /\ UNCHANGED dst
       \/ /\ Named[x] \in src \cap Dirs /\ Walk(Named[x], Taken(x))
          /\ dst' = IF op = "cp" THEN [dst EXCEPT ![Named[x]] = "whole"] ELSE dst
    /\ UNCHANGED <<src, op, loop, sought, result>>

\* rmdir of a directory that is not empty fails (FAT) or takes all (ext4).
RmDir(d) == src' = src \ ({d} \cup Below[d])
\* What it returns is lost: only h->error_callback has it.
LeaveDir ==
    /\ stack # <<>> /\ loop = NoLoop /\ Top.done
    /\ stack' = SubSeq(stack, 1, Len(stack) - 1)
    /\ UNCHANGED src \/ (op = "rm" /\ Top.dir # Root /\ RmDir(Top.dir))
    /\ UNCHANGED <<dst, op, limit, error, rooted, loop, seen, result>>

\* recursive_dir_walker_deinit, and the end of the call.
Finish(e) ==
    /\ op' = "idle" /\ limit' = Limit /\ error' = "ok" /\ rooted' = FALSE
    /\ result' = [op |-> op, error |-> e]
DeinitUnchecked ==
    /\ op # "idle" /\ stack = <<>>
    /\ Finish(error) /\ (UNCHANGED src \/ (op = "rm" /\ rooted /\ RmDir(Root)))
    /\ UNCHANGED <<dst, stack, loop, seen>>
Deinit ==
    /\ op # "idle" /\ stack = <<>>
    /\ \/ op = "cp" /\ Finish(error) /\ UNCHANGED src
       \/ op = "rm" /\ Finish("Callback") /\ UNCHANGED src
       \/ op = "rm" /\ Finish(error) /\ IF rooted THEN RmDir(Root) ELSE UNCHANGED src  \* rmdir(NULL)
    /\ UNCHANGED <<dst, stack, loop, seen>>

-----------------------------------------------------------------------------
(* The callbacks, for a file *)

UnlinkFile(x) ==
    /\ op = "rm" /\ Entry(x, Files)
    /\ \/ Break("Callback") /\ UNCHANGED src
       \/ /\ Named[x] \in src \cap Files /\ src' = src \ {Named[x]}
          /\ stack' = Taken(x) /\ UNCHANGED error
    /\ UNCHANGED <<dst, op, limit, rooted, loop, sought, result>>

\* lseek may fail both ways: the size is then unknown, or the file read from
\* its end.
Loops(x) ==
    {[file |-> x, pos |-> 0, left |-> Chunks[x]], [file |-> x, pos |-> 0, left |-> Huge],
     [file |-> x, pos |-> Chunks[x], left |-> Chunks[x]]}
\* open, open, malloc, lseek, lseek
OpenFile(x) ==
    /\ op = "cp" /\ Entry(x, Files)
    /\ LET y == Named[x] IN
       \/ Break("Callback") /\ UNCHANGED <<dst, loop, sought>>
       \/ /\ y \in src \cap Files /\ Break("Callback")
          /\ dst' = [dst EXCEPT ![y] = "part"] /\ UNCHANGED <<loop, sought>>
       \/ /\ y \in src \cap Files
          /\ stack' = Taken(x) /\ dst' = [dst EXCEPT ![y] = "part"]
          /\ loop' \in Loops(y)
          /\ sought' = (sought /\ loop' = [file |-> y, pos |-> 0, left |-> Chunks[y]])
          /\ UNCHANGED error
    /\ UNCHANGED <<src, op, limit, rooted, result>>

GotAlways(l) == 1
Got(l) == IF l.pos < Chunks[l.file] THEN 1 ELSE 0
LeftUnchanged(l) == l.left
Left(l) == IF l.left = Huge THEN Huge ELSE l.left - Got(l)

CopyFails ==
    /\ loop # NoLoop /\ Break("Callback") /\ loop' = NoLoop
    /\ UNCHANGED <<tree, op, limit, rooted, seen, result>>

\* One buffer; nothing looks at how much of it write has taken.
CopyBuffer ==
    /\ loop # NoLoop
    /\ \E short \in {FALSE, Got(loop) > 0} :
          LET is == IF short THEN "torn" ELSE dst[loop.file] IN
          /\ unseen' = (unseen \/ short)
          /\ IF Left(loop) = 0
             THEN /\ dst' = [dst EXCEPT ![loop.file] = IF is = "part" THEN "whole" ELSE is]
                  /\ loop' = NoLoop
             ELSE /\ dst' = [dst EXCEPT ![loop.file] = is]
                  /\ loop' = [file |-> loop.file, pos |-> loop.pos + Got(loop), left |-> Left(loop)]
    /\ UNCHANGED <<src, op, walk, sought, result>>

-----------------------------------------------------------------------------
\* The tree is written anew, and its copy removed.
Renew ==
    /\ op = "idle"
    /\ src' \in Trees /\ dst' = NoCopy /\ result' = NoResult
    /\ UNCHANGED <<op, walk, loop, seen>>

Step ==
    \/ ListingEnds \/ LeaveDir \/ Deinit \/ CopyBuffer
    \/ \E x \in Nodes : PathTooLong(x) \/ EnterDir(x) \/ UnlinkFile(x) \/ OpenFile(x)
Next == Step \/ CopyFails \/ Renew \/ \E o \in {"cp", "rm"} : Start(o)

\* The program is one thread: a call that has begun goes on.  No copy can count
\* on an error to end its loop.
Spec == Init /\ [][Next]_vars /\ WF_vars(Step)

-----------------------------------------------------------------------------
(* Properties *)

Errors == {"ok", "FS", "RecursionLimit", "PathTooLong", "Callback"}
Frames == [dir: Dirs, unread: SUBSET Nodes, done: BOOLEAN]

\* Every variable has its type.
TypeOK ==
    /\ src \subseteq Nodes
    /\ dst \in [Nodes -> {"none", "part", "torn", "whole"}]
    /\ op \in {"idle", "cp", "rm"}
    /\ stack \in Seq(Frames)
    /\ limit \in 0..Limit
    /\ error \in Errors
    /\ rooted \in BOOLEAN
    /\ loop \in [file: Files, pos: Nat, left: Nat \cup {Huge}] \cup {NoLoop}
    /\ sought \in BOOLEAN /\ unseen \in BOOLEAN
    /\ result \in [op: {"cp", "rm"}, error: Errors] \cup {NoResult}

\* A copy that returns success has every directory and every file whole,
\* however deep the errors it met, but for the four failures nothing reports:
\* of readdir (dir_walker.c 62), a path cut by snprintf (67-71), a short write,
\* an lseek (path_opts.c 68-84).
CopyIsWhole ==
    result = [op |-> "cp", error |-> "ok"] /\ ~unseen /\ sought =>
        \A x \in src \ {Root} : dst[x] = "whole"

\* A removal that returns success has removed the tree, though the results of
\* all rmdir calls but the last are lost (dir_walker.c 19-22, 95), and though
\* a listing may end early.
RemovalIsWhole == result = [op |-> "rm", error |-> "ok"] => src = {}

\* Every call returns, unless an lseek failed: then it may write nothing for
\* ever (path_opts.c 68-84).
Terminates == op # "idle" ~> op = "idle" \/ ~sought
=============================================================================
