--------------------------- MODULE DirWalkerProofs ---------------------------
(***************************************************************************)
(* Theorems about recursive_cp and recursive_unlink, for every tree, every *)
(* limit and every order of listing.  The inductive invariant says that    *)
(* what lies in a directory the copy has is copied, being copied or still  *)
(* to be listed (CoverInv), and what a call knows of its listings (DoneInv).*)
(* The last part is about how far a call is from its end (Advances).       *)
(***************************************************************************)
EXTENDS DirWalker, SequenceTheorems, TLAPS

IdleInv ==
    /\ op = "idle" => stack = <<>> /\ error = "ok" /\ limit = Limit
    /\ loop # NoLoop => stack # <<>> /\ op = "cp"
    /\ op # "idle" => result = NoResult

\* A loop never counts down more than is left.
LoopInv == loop # NoLoop /\ loop.left # Huge => loop.left >= Got(loop)

\* A call that has met no error has opened the root directory.
RootedInv == op # "idle" /\ error = "ok" => rooted
\* Without errors nothing that is done has been left out.
DoneInv == error = "ok" /\ ~unseen =>
              \A i \in DOMAIN stack : stack[i].done => stack[i].unread = {}
\* What lies in the tree lies in a directory of the tree.
Closed == \A x \in src \ {Root} : Parent[x] \in src

\* What is to be copied: what lies in a directory that has been entered.
Due(x) == x \in src \ {Root} /\ (Parent[x] = Root \/ dst[Parent[x]] = "whole")
Unread(x) == \E i \in DOMAIN stack : x \in stack[i].unread
Copying(x) == loop # NoLoop /\ loop.file = x
Covered(x) == Due(x) => dst[x] = "whole" \/ Unread(x) \/ (Copying(x) /\ dst[x] = "part")
CoverInv ==
    op = "cp" /\ error = "ok" /\ ~unseen /\ sought =>
        \A x \in Nodes : Covered(x)

IInv ==
    /\ TypeOK /\ IdleInv /\ LoopInv /\ RootedInv /\ DoneInv /\ Closed
    /\ CoverInv /\ CopyIsWhole /\ RemovalIsWhole

-----------------------------------------------------------------------------
(* The stack of listings *)

\* Replacing the top frame leaves the others alone.
LEMMA TopReplaced ==
    ASSUME TypeOK, stack # <<>>, NEW t \in Frames, stack' = WithTop(t)
    PROVE  /\ stack' \in Seq(Frames) /\ stack' # <<>>
           /\ DOMAIN stack' = DOMAIN stack /\ Len(stack) \in DOMAIN stack
           /\ stack'[Len(stack)] = t
           /\ \A i \in DOMAIN stack : i # Len(stack) => stack'[i] = stack[i]
BY DEF TypeOK, WithTop

\* The top frame is a frame, and so are its variants.
LEMMA TopFrame ==
    ASSUME TypeOK, stack # <<>>
    PROVE  /\ Top \in Frames
           /\ [Top EXCEPT !.done = TRUE] \in Frames
           /\ [Top EXCEPT !.done = TRUE].unread = Top.unread
           /\ [Top EXCEPT !.done = TRUE].done
           /\ \A x : /\ [Top EXCEPT !.unread = @ \ {x}] \in Frames
                     /\ [Top EXCEPT !.unread = @ \ {x}].unread = Top.unread \ {x}
                     /\ [Top EXCEPT !.unread = @ \ {x}].done = Top.done
<1>1. Top \in Frames
  BY DEF TypeOK, Top
<1> DEFINE t == Top
<1>2. t \in [dir: Dirs, unread: SUBSET Nodes, done: BOOLEAN]
  BY <1>1 DEF Frames
<1> HIDE DEF t
<1>3. /\ [t EXCEPT !.done = TRUE] \in Frames /\ [t EXCEPT !.done = TRUE].unread = t.unread
      /\ [t EXCEPT !.done = TRUE].done
  BY <1>2 DEF Frames
<1>4. ASSUME NEW x
      PROVE  /\ [t EXCEPT !.unread = @ \ {x}] \in Frames
             /\ [t EXCEPT !.unread = @ \ {x}].unread = t.unread \ {x}
             /\ [t EXCEPT !.unread = @ \ {x}].done = t.done
  BY <1>2 DEF Frames
<1> QED BY <1>1, <1>3, <1>4 DEF t

\* The listing that is entered is new at the end of the stack.
LEMMA Pushed ==
    ASSUME TypeOK, NEW d \in Dirs, NEW s \in Seq(Frames), Opened(d, s)
    PROVE  /\ stack' \in Seq(Frames) /\ stack' # <<>>
           /\ DOMAIN stack' = DOMAIN s \cup {Len(s) + 1}
           /\ stack'[Len(s) + 1].unread = Children(d) /\ ~stack'[Len(s) + 1].done
           /\ \A i \in DOMAIN s : stack'[i] = s[i]
<1> DEFINE t == [dir |-> d, unread |-> Children(d), done |-> FALSE]
<1>1. t \in Frames /\ t.unread = Children(d) /\ ~t.done
  BY DEF Frames, Children, TypeOK
<1>2. stack' = Append(s, t)
  BY DEF Opened
<1> HIDE DEF t
<1> QED BY <1>1, <1>2

\* A call of the walker that leaves no error has opened the directory.
LEMMA WalkSucceeds ==
    ASSUME NEW d, NEW s, Walk(d, s), error' = "ok"
    PROVE  error = "ok" /\ Opened(d, s)
<1>1. ~WalkRefused(s)
  <2> SUFFICES ASSUME WalkRefused(s) PROVE FALSE
    OBVIOUS
  <2>1. error' \in {"RecursionLimit", "FS"} \/ (error # "ok" /\ error' = error)
    BY DEF WalkRefused
  <2> QED BY <2>1
<1> QED BY <1>1 DEF Walk

\* A call of the walker keeps the types.
LEMMA WalkType ==
    ASSUME TypeOK, NEW d \in Dirs, NEW s \in Seq(Frames), Walk(d, s)
    PROVE  /\ stack' \in Seq(Frames) /\ limit' \in 0..Limit
           /\ error' \in Errors /\ rooted' \in BOOLEAN
<1>1. limit \in 0..Limit /\ error \in Errors /\ rooted \in BOOLEAN /\ Limit \in Nat
  BY TreeAssumption DEF TypeOK
<1>2. limit' \in 0..Limit /\ error' \in Errors /\ rooted' \in BOOLEAN
  <2>1. limit' = limit \/ (limit > 0 /\ limit' = limit - 1)
    BY <1>1 DEF Walk, WalkRefused
  <2>2. limit' \in 0..Limit
    BY <1>1, <2>1
  <2>3. error' \in Errors
    BY <1>1 DEF Walk, WalkRefused, Opened, Errors
  <2>4. rooted' \in BOOLEAN
    BY <1>1 DEF Walk, WalkRefused, Opened
  <2> QED BY <2>2, <2>3, <2>4
<1>3. stack' = s \/ Opened(d, s)
  BY DEF Walk, WalkRefused
<1> QED BY <1>2, <1>3, Pushed

\* Breaking off keeps the types; so does taking an entry from the listing.
LEMMA BreakType ==
    ASSUME TypeOK, stack # <<>>
    PROVE  /\ \A e \in Errors : Break(e) => stack' \in Seq(Frames) /\ error' \in Errors
           /\ \A x : Taken(x) \in Seq(Frames)
<1>1. \A t \in Frames : WithTop(t) \in Seq(Frames)
  BY DEF TypeOK, WithTop
<1> QED BY <1>1, TopFrame DEF Break, Taken

-----------------------------------------------------------------------------
(* Type correctness *)

\* The walker's own steps keep the types.
LEMMA WalkerType ==
    ASSUME TypeOK,
           \/ ListingEnds \/ LeaveDir \/ Deinit \/ Renew
           \/ \E o \in {"cp", "rm"} : Start(o)
           \/ \E x \in Nodes : PathTooLong(x) \/ EnterDir(x)
    PROVE  TypeOK'
<1> USE DEF tree, walk, seen
<1>1. CASE ListingEnds
  <2>1. stack' \in Seq(Frames)
    BY <1>1, TopFrame, TopReplaced DEF ListingEnds, Listing
  <2> QED BY <1>1, <2>1 DEF ListingEnds, TypeOK
<1>2. CASE LeaveDir
  <2>1. stack' \in Seq(Frames)
    BY <1>2 DEF LeaveDir, TypeOK
  <2> QED BY <1>2, <2>1 DEF LeaveDir, RmDir, TypeOK
<1>3. CASE Deinit
  <2>1. ASSUME NEW e \in Errors, Finish(e)
        PROVE  /\ op' \in {"idle", "cp", "rm"} /\ limit' \in 0..Limit /\ error' \in Errors
               /\ rooted' \in BOOLEAN
               /\ (op # "idle" => result' \in [op: {"cp", "rm"}, error: Errors] \cup {NoResult})
    <3>1. Limit \in 0..Limit
      BY TreeAssumption
    <3>2. op # "idle" => [op |-> op, error |-> e] \in [op: {"cp", "rm"}, error: Errors]
      BY <2>1 DEF TypeOK
    <3> QED BY <2>1, <3>1, <3>2 DEF Finish, Errors
  <2>2. PICK e \in Errors : Finish(e)
    BY <1>3 DEF Deinit, TypeOK, Errors
  <2>3. UNCHANGED <<dst, stack, loop, seen>> /\ src' \subseteq src /\ op # "idle"
    BY <1>3 DEF Deinit, RmDir
  <2> QED BY <2>1, <2>2, <2>3 DEF TypeOK
<1>4. CASE Renew
  BY <1>4, TreeAssumption DEF Renew, NoCopy, TypeOK
<1>5. ASSUME NEW o \in {"cp", "rm"}, Start(o) PROVE TypeOK'
  <2>1. Root \in Dirs /\ <<>> \in Seq(Frames)
    BY TreeAssumption
  <2>2. /\ stack' \in Seq(Frames) /\ limit' \in 0..Limit
        /\ error' \in Errors /\ rooted' \in BOOLEAN
    BY <1>5, <2>1, WalkType DEF Start
  <2> QED BY <1>5, <2>2 DEF Start, TypeOK
<1>6. ASSUME NEW x \in Nodes, PathTooLong(x) PROVE TypeOK'
  <2>1. stack' \in Seq(Frames) /\ error' \in Errors
    BY <1>6, BreakType DEF PathTooLong, Listing, Errors
  <2> QED BY <1>6, <2>1 DEF PathTooLong, TypeOK
<1>7. ASSUME NEW x \in Nodes, EnterDir(x) PROVE TypeOK'
  <2>1. stack # <<>> /\ x \in Dirs /\ UNCHANGED <<src, op, loop, sought, result>> /\ unseen' \in BOOLEAN
    BY <1>7 DEF Entry, EnterDir, Listing, TypeOK
  <2>2. CASE Break("Callback") /\ UNCHANGED <<dst, limit, rooted>>
    <3>1. stack' \in Seq(Frames) /\ error' \in Errors
      BY <2>1, <2>2, BreakType DEF Errors
    <3> QED BY <2>1, <2>2, <3>1 DEF TypeOK
  <2>3. ASSUME NEW y \in Dirs, Walk(y, Taken(x)),
               dst' = dst \/ dst' = [dst EXCEPT ![y] = "whole"]
        PROVE  TypeOK'
    <3>1. /\ stack' \in Seq(Frames) /\ limit' \in 0..Limit
          /\ error' \in Errors /\ rooted' \in BOOLEAN
      BY <2>1, <2>3, BreakType, WalkType
    <3>2. dst' \in [Nodes -> {"none", "part", "torn", "whole"}]
      BY <2>3 DEF TypeOK
    <3> QED BY <2>1, <3>1, <3>2 DEF TypeOK
  <2>4. CASE WalkRefused(Taken(x)) /\ UNCHANGED dst
    BY <2>1, <2>3, <2>4 DEF Walk
  <2> QED BY <1>7, <2>2, <2>3, <2>4 DEF EnterDir
<1> QED BY <1>1, <1>2, <1>3, <1>4, <1>5, <1>6, <1>7

\* The steps on a file keep the types.
LEMMA FileType ==
    ASSUME TypeOK, IdleInv, LoopInv,
           CopyFails \/ CopyBuffer \/ \E x \in Nodes : UnlinkFile(x) \/ OpenFile(x)
    PROVE  TypeOK'
<1> USE DEF tree, walk, seen
<1>1. CASE CopyFails
  <2>1. stack' \in Seq(Frames) /\ error' \in Errors
    BY <1>1, BreakType DEF CopyFails, IdleInv, Errors
  <2> QED BY <1>1, <2>1 DEF CopyFails, TypeOK
<1>2. CASE CopyBuffer
  <2> DEFINE l == loop
  <2>1. l \in [file: Files, pos: Nat, left: Nat \cup {Huge}] /\ l.file \in Nodes /\ Chunks[l.file] \in Nat
    BY <1>2, TreeAssumption DEF CopyBuffer, TypeOK, Nodes
  <2>2. Got(l) \in {0, 1} /\ (l.left # Huge => l.left \in Nat)
    BY <2>1 DEF Got
  <2>3. loop' = NoLoop \/ (Left(l) # 0 /\ loop' = [file |-> l.file, pos |-> l.pos + Got(l), left |-> Left(l)])
    BY <1>2 DEF CopyBuffer
  <2>4. Left(l) \in Nat \cup {Huge}
    <3>1. l # NoLoop /\ (l.left # Huge => l.left >= Got(l))
      BY <1>2 DEF CopyBuffer, LoopInv
    <3> HIDE DEF l
    <3> QED BY <2>2, <3>1 DEF Left
  <2>5. loop' \in [file: Files, pos: Nat, left: Nat \cup {Huge}] \cup {NoLoop}
    <3> HIDE DEF l
    <3>1. l.pos + Got(l) \in Nat
      BY <2>1, <2>2
    <3> QED BY <2>1, <2>3, <2>4, <3>1
  <2>6. dst' \in [Nodes -> {"none", "part", "torn", "whole"}]
    BY <1>2, <2>1 DEF CopyBuffer, TypeOK
  <2>7. unseen' \in BOOLEAN
    BY <1>2 DEF CopyBuffer, TypeOK
  <2> QED BY <1>2, <2>5, <2>6, <2>7 DEF CopyBuffer, TypeOK
<1>3. ASSUME NEW x \in Nodes, UnlinkFile(x) PROVE TypeOK'
  <2>1. stack' \in Seq(Frames) /\ error' \in Errors
    BY <1>3, BreakType DEF Entry, UnlinkFile, Listing, TypeOK, Errors
  <2> QED BY <1>3, <2>1 DEF Entry, UnlinkFile, TypeOK
<1>4. ASSUME NEW x \in Nodes, OpenFile(x) PROVE TypeOK'
  <2>1. stack' \in Seq(Frames) /\ error' \in Errors
    BY <1>4, BreakType DEF Entry, OpenFile, Listing, TypeOK, Errors
  <2>2. \A y \in Files : Chunks[y] \in Nat
    BY TreeAssumption
  <2>3. \A y \in Files : Loops(y) \subseteq [file: Files, pos: Nat, left: Nat \cup {Huge}]
    BY <2>2 DEF Loops
  <2>4. dst' \in [Nodes -> {"none", "part", "torn", "whole"}]
    <3>1. dst' = dst \/ \E y \in Files : dst' = [dst EXCEPT ![y] = "part"]
      BY <1>4 DEF OpenFile
    <3> QED BY <3>1 DEF TypeOK
  <2>5. loop' \in [file: Files, pos: Nat, left: Nat \cup {Huge}] \cup {NoLoop}
    <3>1. loop' = loop \/ \E y \in Files : loop' \in Loops(y)
      BY <1>4 DEF OpenFile
    <3> QED BY <2>3, <3>1 DEF TypeOK
  <2>6. sought' \in BOOLEAN /\ unseen' \in BOOLEAN
    BY <1>4 DEF Entry, OpenFile, TypeOK
  <2> QED BY <2>6, <1>4, <2>1, <2>4, <2>5 DEF Entry, OpenFile, TypeOK
<1> QED BY <1>1, <1>2, <1>3, <1>4
\* Every step keeps the types.
LEMMA TypePreserved ==
    ASSUME TypeOK, IdleInv, LoopInv, [Next]_vars
    PROVE  TypeOK'
<1>1. CASE UNCHANGED vars
  BY <1>1 DEF vars, tree, walk, seen, TypeOK
<1>2. CASE Next
  BY <1>2, WalkerType, FileType DEF Next, Step
<1> QED BY <1>1, <1>2

-----------------------------------------------------------------------------
(* Idle calls and loops *)

\* What a step on the listing in progress may do to a call that is under way.
LEMMA CallGoesOn ==
    ASSUME TypeOK, IdleInv, stack # <<>>, stack' # <<>>, op' = op, result' = result,
           loop' = NoLoop \/ op = "cp"
    PROVE  IdleInv'
BY DEF IdleInv

\* A listing in progress is still one when its frame is replaced.
LEMMA StillListed ==
    ASSUME TypeOK, stack # <<>>
    PROVE  /\ \A e : Break(e) => stack' # <<>>
           /\ \A x : Taken(x) # <<>>
<1>1. \A t \in Frames : WithTop(t) # <<>>
  BY DEF TypeOK, WithTop
<1> QED BY <1>1, TopFrame DEF Break, Taken

\* A call of the walker made from a listing leaves that listing on the stack.
LEMMA WalkListed ==
    ASSUME TypeOK, NEW d \in Dirs, NEW s \in Seq(Frames), s # <<>>, Walk(d, s)
    PROVE  stack' # <<>>
<1>1. stack' = s \/ Opened(d, s)
  BY DEF Walk, WalkRefused
<1> QED BY <1>1, Pushed

\* Between calls the walker is idle, and only a copy copies files.
LEMMA IdlePreserved ==
    ASSUME TypeOK, IdleInv, [Next]_vars
    PROVE  IdleInv'
<1> USE DEF tree, walk, seen
<1>1. CASE UNCHANGED vars
  BY <1>1 DEF vars, IdleInv
<1>2. CASE ListingEnds
  <2>1. stack' # <<>>
    BY <1>2, TopFrame, TopReplaced DEF ListingEnds, Listing
  <2> QED BY <1>2, <2>1, CallGoesOn DEF ListingEnds, Listing
<1>3. CASE LeaveDir
  BY <1>3 DEF LeaveDir, IdleInv
<1>4. CASE Deinit
  BY <1>4 DEF Deinit, Finish, IdleInv
<1>5. CASE Renew
  BY <1>5 DEF Renew, IdleInv
<1>6. ASSUME NEW o \in {"cp", "rm"}, Start(o) PROVE IdleInv'
  BY <1>6 DEF Start, IdleInv
<1>7. ASSUME NEW x \in Nodes, PathTooLong(x) PROVE IdleInv'
  BY <1>7, StillListed, CallGoesOn DEF PathTooLong, Listing
<1>8. ASSUME NEW x \in Nodes, EnterDir(x) PROVE IdleInv'
  <2>1. stack # <<>> /\ x \in Dirs /\ UNCHANGED <<op, loop, result>> /\ loop = NoLoop
    BY <1>8 DEF Entry, EnterDir, Listing
  <2>2. Taken(x) \in Seq(Frames) /\ Taken(x) # <<>>
    BY <2>1, BreakType, StillListed
  <2>3. Break("Callback") \/ \E y \in Dirs : Walk(y, Taken(x))
    BY <1>8, <2>1 DEF EnterDir, Walk
  <2>4. stack' # <<>>
    BY <2>1, <2>2, <2>3, StillListed, WalkListed
  <2> QED BY <2>1, <2>4, CallGoesOn
<1>9. CASE CopyFails
  BY <1>9, StillListed, CallGoesOn DEF CopyFails, IdleInv
<1>10. CASE CopyBuffer
  BY <1>10 DEF CopyBuffer, IdleInv
<1>11. ASSUME NEW x \in Nodes, UnlinkFile(x) PROVE IdleInv'
  BY <1>11, StillListed, CallGoesOn DEF Entry, UnlinkFile, Listing
<1>12. ASSUME NEW x \in Nodes, OpenFile(x) PROVE IdleInv'
  BY <1>12, StillListed, CallGoesOn DEF Entry, OpenFile, Listing
<1> QED
  BY <1>1, <1>2, <1>3, <1>4, <1>5, <1>6, <1>7, <1>8, <1>9, <1>10, <1>11, <1>12 DEF Next, Step

\* A loop never counts down more than is left.
LEMMA LoopPreserved ==
    ASSUME TypeOK, LoopInv, [Next]_vars
    PROVE  LoopInv'
<1>1. CASE UNCHANGED loop
  BY <1>1 DEF LoopInv, Got
<1>2. CASE loop' = NoLoop
  BY <1>2 DEF LoopInv
<1>3. ASSUME NEW x \in Files, loop' \in Loops(x) PROVE LoopInv'
  <2>1. Chunks[x] \in Nat
    BY TreeAssumption
  <2> QED BY <1>3, <2>1 DEF Loops, LoopInv, Got
<1>4. CASE CopyBuffer /\ loop' # NoLoop
  <2> DEFINE l == loop
             n == [file |-> l.file, pos |-> l.pos + Got(l), left |-> Left(l)]
  <2>1. /\ l \in [file: Files, pos: Nat, left: Nat \cup {Huge}] /\ Chunks[l.file] \in Nat
        /\ l # NoLoop
    BY <1>4, TreeAssumption DEF CopyBuffer, TypeOK
  <2>2. Left(l) # 0 /\ loop' = n
    BY <1>4 DEF CopyBuffer
  <2>3. Got(l) \in {0, 1} /\ (l.left # Huge => l.left \in Nat /\ l.left >= Got(l))
    BY <2>1 DEF Got, LoopInv
  <2>4. n.left = Left(l) /\ Got(n) \in {0, 1}
    BY DEF Got
  <2>5. Left(l) # Huge => Left(l) \in Nat \ {0}
    <3> HIDE DEF l
    <3> QED BY <2>2, <2>3 DEF Left
  <2> HIDE DEF n
  <2> QED BY <2>2, <2>4, <2>5 DEF LoopInv
<1> QED
  BY <1>1, <1>2, <1>3, <1>4 DEF Next, Step, vars, walk, ListingEnds, LeaveDir, Deinit, Renew, Start,
     PathTooLong, Entry, EnterDir, CopyFails, CopyBuffer, UnlinkFile, OpenFile

-----------------------------------------------------------------------------
(* What the walker has seen *)

\* A call that has met no error has opened the root directory.
LEMMA RootedPreserved ==
    ASSUME TypeOK, RootedInv, [Next]_vars
    PROVE  RootedInv'
<1>1. CASE UNCHANGED <<op, error, rooted>>
  BY <1>1 DEF RootedInv
<1>2. CASE op' = "idle"
  BY <1>2 DEF RootedInv
<1>3. ASSUME NEW e \in {"PathTooLong", "Callback"}, Break(e) PROVE RootedInv'
  BY <1>3 DEF RootedInv, Break
<1>4. ASSUME NEW d, NEW s, Walk(d, s) \/ WalkRefused(s), error' = "ok" PROVE rooted'
  BY <1>4, WalkSucceeds DEF Walk, Opened
<1> QED
  BY <1>1, <1>2, <1>3, <1>4 DEF RootedInv, Next, Step, vars, walk, ListingEnds, LeaveDir, Deinit, Finish,
     Renew, Start, PathTooLong, Entry, EnterDir, CopyFails, CopyBuffer, UnlinkFile, OpenFile

\* Removing files and directories with all below them leaves no orphan.
LEMMA ClosedPreserved ==
    ASSUME TypeOK, Closed, [Next]_vars
    PROVE  Closed'
<1>1. CASE UNCHANGED src
  BY <1>1 DEF Closed
<1>2. CASE src' \in Trees
  BY <1>2, TreeAssumption DEF Closed
<1>3. ASSUME NEW d \in Dirs, RmDir(d) PROVE Closed'
  <2>1. ASSUME NEW x \in src' \ {Root} PROVE Parent[x] \in src'
    <3>1. x \in src \ {Root} /\ x \in Nodes /\ x \notin Below[d]
      BY <1>3, <2>1 DEF RmDir, TypeOK
    <3>2. Parent[x] # d /\ Parent[x] \notin Below[d]
      BY <3>1, TreeAssumption
    <3> QED BY <1>3, <3>1, <3>2 DEF RmDir, Closed
  <2> QED BY <2>1 DEF Closed
<1>4. ASSUME NEW f \in Files, src' = src \ {f} PROVE Closed'
  <2>1. ASSUME NEW x \in src' \ {Root} PROVE Parent[x] \in src'
    <3>1. x \in src \ {Root} /\ x \in Nodes \ {Root}
      BY <1>4, <2>1 DEF TypeOK
    <3>2. Parent[x] # f
      BY <3>1, TreeAssumption
    <3> QED BY <1>4, <3>1, <3>2 DEF Closed
  <2> QED BY <2>1 DEF Closed
<1>5. CASE LeaveDir
  <2>1. Top.dir \in Dirs
    BY <1>5, TopFrame DEF LeaveDir, Frames
  <2> QED BY <1>1, <1>3, <1>5, <2>1 DEF LeaveDir
<1>6. CASE Deinit
  BY <1>1, <1>3, <1>6, TreeAssumption DEF Deinit
<1> QED
  BY <1>1, <1>2, <1>4, <1>5, <1>6 DEF Next, Step, vars, tree, ListingEnds, Renew, Start,
     PathTooLong, Entry, EnterDir, CopyFails, CopyBuffer, UnlinkFile, OpenFile

\* A directory that is entered without an error is the one its path names.
LEMMA EnterSucceeds ==
    ASSUME NEW x \in Nodes, EnterDir(x), error' = "ok"
    PROVE  /\ Named[x] \in src \cap Dirs /\ error = "ok" /\ Opened(Named[x], Taken(x))
           /\ dst' = IF op = "cp" THEN [dst EXCEPT ![Named[x]] = "whole"] ELSE dst
<1>1. ~Break("Callback")
  BY DEF Break
<1>2. ASSUME WalkRefused(Taken(x)) PROVE FALSE
  <2>1. error' \in {"RecursionLimit", "FS"} \/ (error # "ok" /\ error' = error)
    BY <1>2 DEF WalkRefused
  <2> QED BY <2>1
<1> QED BY <1>1, <1>2, WalkSucceeds DEF EnterDir

\* Taking an entry leaves the other entries and the other listings.
LEMMA TakenFrames ==
    ASSUME TypeOK, Listing, NEW x
    PROVE  /\ Taken(x) \in Seq(Frames) /\ DOMAIN Taken(x) = DOMAIN stack
           /\ \A i \in DOMAIN stack : /\ Taken(x)[i].done = stack[i].done
                                      /\ stack[i].unread \subseteq Taken(x)[i].unread \cup {x}
                                      /\ Taken(x)[i].unread \subseteq stack[i].unread
           /\ Len(stack) \in DOMAIN stack /\ ~stack[Len(stack)].done
<1> DEFINE t == [Top EXCEPT !.unread = @ \ {x}]
<1>1. t \in Frames /\ t.unread = Top.unread \ {x} /\ t.done = Top.done /\ ~Top.done
  BY TopFrame DEF Listing
<1>2. Taken(x) = [stack EXCEPT ![Len(stack)] = t] /\ stack \in Seq(Frames) /\ stack # <<>>
  BY DEF Taken, WithTop, TypeOK, Listing
<1>3. Len(stack) \in DOMAIN stack /\ Top = stack[Len(stack)]
  BY <1>2 DEF Top
<1> HIDE DEF t
<1> QED BY <1>1, <1>2, <1>3

\* While nothing has gone wrong, a listing that is done has been read to its end.
LEMMA DonePreserved ==
    ASSUME TypeOK, IdleInv, DoneInv, [Next]_vars
    PROVE  DoneInv'
<1>1. CASE UNCHANGED stack /\ (error' = "ok" => error = "ok") /\ (~unseen' => ~unseen)
  BY <1>1 DEF DoneInv
<1>2. CASE error' # "ok"
  BY <1>2 DEF DoneInv
<1>3. CASE stack' = <<>>
  BY <1>3 DEF DoneInv
<1>4. ASSUME NEW x, Listing, stack' = Taken(x), UNCHANGED error, ~unseen' => ~unseen PROVE DoneInv'
  BY <1>4, TakenFrames DEF DoneInv
<1>5. CASE ListingEnds
  <2>1. /\ stack # <<>> /\ stack' = WithTop([Top EXCEPT !.done = TRUE])
        /\ UNCHANGED error /\ (~unseen' => ~unseen /\ Top.unread = {})
    BY <1>5 DEF ListingEnds, Listing
  <2> QED BY <2>1, TopFrame, TopReplaced DEF DoneInv
<1>6. CASE LeaveDir
  <2>1. stack' = SubSeq(stack, 1, Len(stack) - 1) /\ stack \in Seq(Frames) /\ stack # <<>>
    BY <1>6 DEF LeaveDir, TypeOK
  <2>2. \A i \in DOMAIN stack' : i \in DOMAIN stack /\ stack'[i] = stack[i]
    BY <2>1
  <2>3. UNCHANGED <<error, unseen>>
    BY <1>6 DEF LeaveDir, seen
  <2> QED BY <2>2, <2>3 DEF DoneInv
<1>7. ASSUME NEW o \in {"cp", "rm"}, Start(o) PROVE DoneInv'
  <2>1. Root \in Dirs /\ <<>> \in Seq(Frames)
    BY TreeAssumption
  <2>2. stack' = <<>> \/ Opened(Root, <<>>)
    BY <1>7 DEF Start, Walk, WalkRefused
  <2>3. ASSUME Opened(Root, <<>>) PROVE DoneInv'
    <3>1. DOMAIN stack' = DOMAIN <<>> \cup {Len(<<>>) + 1} /\ ~stack'[Len(<<>>) + 1].done
      BY <2>1, <2>3, Pushed
    <3>2. \A i \in DOMAIN stack' : ~stack'[i].done
      BY <3>1
    <3> QED BY <3>2 DEF DoneInv
  <2> QED BY <1>3, <2>2, <2>3
<1>8. ASSUME NEW x \in Nodes, EnterDir(x), error' = "ok" PROVE DoneInv'
  <2>1. Listing /\ x \in Dirs /\ (~unseen' => ~unseen)
    BY <1>8 DEF Entry, EnterDir
  <2>2. Taken(x) \in Seq(Frames)
    BY <2>1, TakenFrames
  <2> DEFINE y == Named[x]
  <2>3. y \in Dirs /\ error = "ok" /\ Opened(y, Taken(x))
    BY <1>8, EnterSucceeds
  <2> HIDE DEF y
  <2>4. DOMAIN Taken(x) = DOMAIN stack
    BY <2>1, TakenFrames
  <2>5. \A i \in DOMAIN stack' : i \in DOMAIN stack \/ i = Len(Taken(x)) + 1
    BY <2>2, <2>3, <2>4, Pushed
  <2>6. \A i \in DOMAIN stack : /\ stack'[i].done = stack[i].done
                                /\ stack'[i].unread \subseteq stack[i].unread
    <3>1. \A i \in DOMAIN Taken(x) : stack'[i] = Taken(x)[i]
      BY <2>2, <2>3, Pushed
    <3>2. \A i \in DOMAIN stack : /\ Taken(x)[i].done = stack[i].done
                                  /\ Taken(x)[i].unread \subseteq stack[i].unread
      BY <2>1, TakenFrames
    <3> QED BY <2>4, <3>1, <3>2
  <2>7. ~stack'[Len(Taken(x)) + 1].done
    BY <2>2, <2>3, Pushed
  <2> QED BY <2>1, <2>3, <2>5, <2>6, <2>7 DEF DoneInv
<1>9. ASSUME NEW e \in {"PathTooLong", "Callback"}, Break(e) PROVE DoneInv'
  BY <1>9 DEF DoneInv, Break
<1>10. CASE Deinit
  BY <1>3, <1>10 DEF Deinit
<1>11. ASSUME NEW x \in Nodes, UnlinkFile(x) \/ OpenFile(x) PROVE DoneInv'
  BY <1>4, <1>9, <1>11 DEF Entry, UnlinkFile, OpenFile, seen
<1>12. CASE CopyBuffer
  BY <1>1, <1>12 DEF CopyBuffer, walk
<1>13. CASE Renew \/ UNCHANGED vars
  BY <1>1, <1>13 DEF Renew, vars, walk, seen
<1>14. CASE CopyFails \/ \E x \in Nodes : PathTooLong(x)
  BY <1>9, <1>14 DEF CopyFails, PathTooLong
<1> QED
  BY <1>2, <1>5, <1>6, <1>7, <1>8, <1>10, <1>11, <1>12, <1>13, <1>14 DEF Next, Step

-----------------------------------------------------------------------------
(* What is copied *)

\* A copy starts with the whole root directory to be listed.
LEMMA StartCovers ==
    ASSUME TypeOK, Start("cp"), error' = "ok", NEW x \in Nodes
    PROVE  Covered(x)'
<1>1. Opened(Root, <<>>) /\ dst' = NoCopy /\ src' = src
  BY DEF Start, Walk, WalkRefused, tree
<1>2. Root \in Dirs /\ <<>> \in Seq(Frames)
  BY TreeAssumption
<1>3. DOMAIN stack' = DOMAIN <<>> \cup {Len(<<>>) + 1} /\ stack'[Len(<<>>) + 1].unread = Children(Root)
  BY <1>1, <1>2, Pushed
<1>4. 1 \in DOMAIN stack' /\ stack'[1].unread = Children(Root)
  BY <1>3
<1>5. SUFFICES ASSUME Due(x)' PROVE Unread(x)'
  BY DEF Covered
<1>6. x \in src \ {Root} /\ (Parent[x] = Root \/ NoCopy[Parent[x]] = "whole")
  BY <1>1, <1>5 DEF Due
<1>7. Parent[x] \in Nodes
  BY <1>6, TreeAssumption DEF Nodes
<1>8. x \in Children(Root)
  BY <1>6, <1>7 DEF NoCopy, Children
<1> QED BY <1>4, <1>8 DEF Unread

\* When a listing has ended without failing, all it had was read.
LEMMA EndCovers ==
    ASSUME TypeOK, ListingEnds, ~unseen', NEW x \in Nodes, Covered(x)
    PROVE  Covered(x)'
<1>1. /\ stack # <<>> /\ stack' = WithTop([Top EXCEPT !.done = TRUE])
      /\ Top.unread = {} /\ UNCHANGED <<src, dst, loop>>
  BY DEF ListingEnds, Listing, tree
<1>2. ASSUME Unread(x) PROVE Unread(x)'
  <2>1. PICK i \in DOMAIN stack : x \in stack[i].unread
    BY <1>2 DEF Unread
  <2>2. i # Len(stack)
    BY <1>1, <2>1 DEF Top
  <2> QED BY <1>1, <2>1, <2>2, TopFrame, TopReplaced DEF Unread
<1> QED BY <1>1, <1>2 DEF Covered, Due, Copying

\* The listing that a copy leaves has nothing unread.
LEMMA LeaveCovers ==
    ASSUME TypeOK, DoneInv, error = "ok", ~unseen, op = "cp", LeaveDir, NEW x \in Nodes, Covered(x)
    PROVE  Covered(x)'
<1>1. /\ stack' = SubSeq(stack, 1, Len(stack) - 1) /\ stack \in Seq(Frames) /\ stack # <<>>
      /\ Top.done /\ UNCHANGED <<src, dst, loop>>
  BY DEF LeaveDir, TypeOK
<1>2. ASSUME Unread(x) PROVE Unread(x)'
  <2>1. PICK i \in DOMAIN stack : x \in stack[i].unread
    BY <1>2 DEF Unread
  <2>2. ~stack[i].done
    BY <2>1 DEF DoneInv
  <2>3. i # Len(stack)
    BY <1>1, <2>2 DEF Top
  <2>4. i \in DOMAIN stack' /\ stack'[i] = stack[i]
    BY <1>1, <2>1, <2>3
  <2> QED BY <2>1, <2>4 DEF Unread
<1> QED BY <1>1, <1>2 DEF Covered, Due, Copying

\* What lies in the directory that is entered is listed.
LEMMA EnterCovers ==
    ASSUME TypeOK, op = "cp", NEW d \in Nodes, EnterDir(d), error' = "ok", ~unseen',
           NEW x \in Nodes, Covered(x)
    PROVE  Covered(x)'
<1>1. /\ Listing /\ d \in Dirs /\ dst' = [dst EXCEPT ![d] = "whole"]
      /\ Opened(d, Taken(d)) /\ UNCHANGED <<src, loop>> /\ loop = NoLoop
  <2>1. Named[d] = d
    BY DEF EnterDir, Entry
  <2> QED BY <2>1, EnterSucceeds DEF EnterDir, Entry, Listing
<1>2. Taken(d) \in Seq(Frames) /\ DOMAIN Taken(d) = DOMAIN stack
  BY <1>1, TakenFrames
<1>3. /\ DOMAIN stack' = DOMAIN Taken(d) \cup {Len(Taken(d)) + 1}
      /\ stack'[Len(Taken(d)) + 1].unread = Children(d)
      /\ \A i \in DOMAIN Taken(d) : stack'[i] = Taken(d)[i]
  BY <1>1, <1>2, Pushed
<1>4. dst'[d] = "whole" /\ \A y : y \in Nodes /\ y # d => dst'[y] = dst[y]
  BY <1>1 DEF TypeOK
<1>5. SUFFICES ASSUME Due(x)', x # d PROVE dst'[x] = "whole" \/ Unread(x)'
  BY <1>4 DEF Covered
<1>6. x \in src \ {Root} /\ Parent[x] \in Nodes
  BY <1>1, <1>5, TreeAssumption DEF Due, Nodes
<1>7. CASE Parent[x] = d
  BY <1>3, <1>6, <1>7 DEF Children, Unread
<1>8. CASE Parent[x] # d
  <2>1. Due(x)
    BY <1>4, <1>5, <1>6, <1>8 DEF Due
  <2>2. ~Copying(x)
    BY <1>1 DEF Copying
  <2>3. ASSUME NEW i \in DOMAIN stack, x \in stack[i].unread PROVE Unread(x)'
    <3>1. x \in Taken(d)[i].unread
      BY <1>1, <1>5, <2>3, TakenFrames
    <3> QED BY <1>2, <1>3, <3>1 DEF Unread
  <2> QED BY <1>4, <1>5, <2>1, <2>2, <2>3 DEF Covered, Unread
<1> QED BY <1>7, <1>8

\* The file that is opened is being copied.
LEMMA OpenCovers ==
    ASSUME TypeOK, NEW f \in Nodes, OpenFile(f), error' = "ok", ~unseen', sought',
           NEW x \in Nodes, Covered(x)
    PROVE  Covered(x)'
<1>1. /\ Listing /\ f \in Files /\ dst' = [dst EXCEPT ![f] = "part"] /\ stack' = Taken(f)
      /\ loop' = [file |-> f, pos |-> 0, left |-> Chunks[f]] /\ UNCHANGED src /\ loop = NoLoop
  <2>1. Named[f] = f /\ Listing /\ f \in Files /\ loop = NoLoop
    BY DEF OpenFile, Entry, Listing
  <2>2. ~Break("Callback")
    BY DEF Break
  <2> QED BY <2>1, <2>2 DEF OpenFile
<1>2. loop'.file = f /\ loop' # NoLoop
  BY <1>1, TreeAssumption DEF NoLoop
<1>3. dst'[f] = "part" /\ \A y : y \in Nodes /\ y # f => dst'[y] = dst[y]
  BY <1>1 DEF TypeOK
<1>4. SUFFICES ASSUME Due(x)', x # f PROVE dst'[x] = "whole" \/ Unread(x)'
  BY <1>2, <1>3 DEF Covered, Copying
<1>5. x \in src \ {Root} /\ Parent[x] \in Nodes /\ Parent[x] # f
  BY <1>1, <1>4, TreeAssumption DEF Due, Nodes
<1>6. Due(x)
  BY <1>3, <1>4, <1>5 DEF Due
<1>7. ~Copying(x)
  BY <1>1 DEF Copying
<1>8. ASSUME NEW i \in DOMAIN stack, x \in stack[i].unread PROVE Unread(x)'
  <2>1. x \in Taken(f)[i].unread /\ DOMAIN Taken(f) = DOMAIN stack
    BY <1>1, <1>4, <1>8, TakenFrames
  <2> QED BY <1>1, <2>1 DEF Unread
<1> QED BY <1>3, <1>4, <1>6, <1>7, <1>8 DEF Covered, Unread

\* A file whose loop has ended without a short write is whole.
LEMMA BufferCovers ==
    ASSUME TypeOK, CopyBuffer, ~unseen', NEW x \in Nodes, Covered(x)
    PROVE  Covered(x)'
<1> DEFINE f == loop.file
<1>1. f \in Files /\ f \in Nodes /\ loop # NoLoop /\ UNCHANGED <<src, stack>>
  BY DEF CopyBuffer, TypeOK, Nodes, walk
<1>2. \/ /\ dst' = [dst EXCEPT ![f] = IF dst[f] = "part" THEN "whole" ELSE dst[f]]
         /\ loop' = NoLoop
      \/ /\ dst' = [dst EXCEPT ![f] = dst[f]]
         /\ loop' = [file |-> f, pos |-> loop.pos + Got(loop), left |-> Left(loop)]
  BY DEF CopyBuffer
<1>3. \A y : y \in Nodes /\ y # f => dst'[y] = dst[y]
  <2> HIDE DEF f
  <2> QED BY <1>1, <1>2 DEF TypeOK
<1>4. \/ dst'[f] = dst[f] /\ loop'.file = f /\ loop' # NoLoop
      \/ dst'[f] = (IF dst[f] = "part" THEN "whole" ELSE dst[f])
  <2>1. [file |-> f, pos |-> loop.pos + Got(loop), left |-> Left(loop)] # NoLoop
    BY <1>1, TreeAssumption DEF NoLoop
  <2> HIDE DEF f
  <2> QED BY <1>1, <1>2, <2>1 DEF TypeOK
<1>5. SUFFICES ASSUME Due(x)'
               PROVE  dst'[x] = "whole" \/ Unread(x)' \/ (Copying(x)' /\ dst'[x] = "part")
  BY DEF Covered
<1>6. Parent[x] \in Nodes /\ Parent[x] # f
  BY <1>1, <1>5, TreeAssumption DEF Due, Nodes, TypeOK
<1>7. Due(x)
  BY <1>1, <1>3, <1>5, <1>6 DEF Due
<1>8. Unread(x) => Unread(x)'
  BY <1>1 DEF Unread
<1> QED BY <1>3, <1>4, <1>7, <1>8 DEF Covered, Copying

\* A copy in which nothing has failed yet has missed nothing.
LEMMA CoverPreserved ==
    ASSUME TypeOK, IdleInv, DoneInv, CoverInv, [Next]_vars
    PROVE  CoverInv'
<1> SUFFICES ASSUME op' = "cp", error' = "ok", ~unseen', sought', NEW x \in Nodes
             PROVE  Covered(x)'
  BY DEF CoverInv
<1>1. ASSUME op = "cp", error = "ok", ~unseen, sought PROVE Covered(x)
  BY <1>1 DEF CoverInv
<1>2. CASE UNCHANGED <<src, dst, stack, loop, op, error, unseen, sought>>
  BY <1>1, <1>2 DEF Covered, Due, Unread, Copying
<1>3. CASE ListingEnds
  BY <1>1, <1>3, EndCovers DEF ListingEnds
<1>4. CASE LeaveDir
  BY <1>1, <1>4, LeaveCovers DEF LeaveDir, seen
<1>5. ASSUME NEW o \in {"cp", "rm"}, Start(o) PROVE Covered(x)'
  BY <1>5, StartCovers DEF Start
<1>6. ASSUME NEW d \in Nodes, EnterDir(d) PROVE Covered(x)'
  <2>1. op = "cp" /\ error = "ok" /\ ~unseen /\ sought
    BY <1>6 DEF Entry, EnterDir, Break, Walk, WalkRefused, seen
  <2> QED BY <1>1, <1>6, <2>1, EnterCovers
<1>7. ASSUME NEW f \in Nodes, OpenFile(f) PROVE Covered(x)'
  <2>1. op = "cp" /\ error = "ok" /\ ~unseen /\ sought
    BY <1>7 DEF Entry, OpenFile, Break, TypeOK
  <2> QED BY <1>1, <1>7, <2>1, OpenCovers
<1>8. CASE CopyBuffer
  <2>1. op = "cp" /\ error = "ok" /\ ~unseen /\ sought
    BY <1>8 DEF CopyBuffer, walk
  <2> QED BY <1>1, <1>8, <2>1, BufferCovers
<1>9. ASSUME NEW f \in Nodes, UnlinkFile(f) PROVE FALSE
  BY <1>9 DEF Entry, UnlinkFile
<1>10. CASE Deinit \/ Renew
  BY <1>10 DEF Deinit, Finish, Renew
<1>11. CASE CopyFails \/ \E d \in Nodes : PathTooLong(d)
  BY <1>11 DEF CopyFails, PathTooLong, Break
<1>12. CASE UNCHANGED vars
  BY <1>2, <1>12 DEF vars, tree, walk, seen
<1> QED
  BY <1>3, <1>4, <1>5, <1>6, <1>7, <1>8, <1>9, <1>10, <1>11, <1>12 DEF Next, Step

-----------------------------------------------------------------------------
(* What the results are worth *)

\* When every entry of every directory that was entered is whole, the tree is:
\* no directory lies below itself.
LEMMA AllCovered ==
    ASSUME TypeOK, Closed, \A x \in Nodes : Due(x) => dst[x] = "whole"
    PROVE  \A x \in src \ {Root} : dst[x] = "whole"
<1> DEFINE s == {x \in src \ {Root} : dst[x] # "whole"}
<1>1. SUFFICES s = {}
  OBVIOUS
<1>2. SUFFICES ASSUME s # {} PROVE FALSE
  OBVIOUS
<1>3. s \in SUBSET (Nodes \ {Root})
  BY DEF TypeOK
<1>4. PICK x \in s : Parent[x] \notin s
  <2> HIDE DEF s
  <2> QED BY <1>2, <1>3, TreeAssumption
<1>5. Parent[x] \in src /\ x \in Nodes
  BY <1>4 DEF Closed, TypeOK
<1>6. Due(x)
  BY <1>4, <1>5 DEF Due
<1> QED BY <1>4, <1>5, <1>6

\* A copy returns success when it has met no error, and has then copied all.
LEMMA CopyPreserved ==
    ASSUME TypeOK, IdleInv, Closed, CoverInv, CopyIsWhole, [Next]_vars
    PROVE  CopyIsWhole'
<1>1. CASE Deinit
  <2>1. SUFFICES ASSUME result' = [op |-> "cp", error |-> "ok"], ~unseen, sought
                 PROVE  \A x \in src' \ {Root} : dst'[x] = "whole"
    BY <1>1 DEF Deinit, seen, CopyIsWhole
  <2>2. op = "cp" /\ error = "ok" /\ stack = <<>> /\ UNCHANGED <<src, dst>>
    BY <1>1, <2>1 DEF Deinit, Finish
  <2>3. \A x \in Nodes : Due(x) => dst[x] = "whole"
    BY <2>1, <2>2 DEF CoverInv, Covered, Unread, Copying, IdleInv
  <2> QED BY <2>2, <2>3, AllCovered
<1>2. CASE result' = NoResult
  BY <1>2 DEF CopyIsWhole, NoResult
<1>3. CASE UNCHANGED vars
  BY <1>3 DEF vars, tree, seen, CopyIsWhole
<1>4. ASSUME op # "idle", UNCHANGED result PROVE CopyIsWhole'
  BY <1>2, <1>4 DEF IdleInv
<1> QED
  BY <1>1, <1>2, <1>3, <1>4 DEF Next, Step, ListingEnds, LeaveDir, Renew, Start, IdleInv, Listing,
     PathTooLong, Entry, EnterDir, CopyFails, CopyBuffer, UnlinkFile, OpenFile

\* A removal returns success when the last rmdir, of the root, has succeeded.
LEMMA RemovalPreserved ==
    ASSUME TypeOK, IdleInv, RootedInv, RemovalIsWhole, [Next]_vars
    PROVE  RemovalIsWhole'
<1>1. CASE Deinit
  <2>1. SUFFICES ASSUME result' = [op |-> "rm", error |-> "ok"] PROVE src' = {}
    BY DEF RemovalIsWhole
  <2>2. op = "rm" /\ error = "ok" /\ (rooted => RmDir(Root))
    BY <1>1, <2>1 DEF Deinit, Finish
  <2>3. rooted
    BY <2>2 DEF RootedInv
  <2> QED BY <2>2, <2>3, TreeAssumption DEF RmDir, TypeOK
<1>2. CASE result' = NoResult
  BY <1>2 DEF RemovalIsWhole, NoResult
<1>3. CASE UNCHANGED vars
  BY <1>3 DEF vars, tree, RemovalIsWhole
<1>4. ASSUME op # "idle", UNCHANGED result PROVE RemovalIsWhole'
  BY <1>2, <1>4 DEF IdleInv
<1> QED
  BY <1>1, <1>2, <1>3, <1>4 DEF Next, Step, ListingEnds, LeaveDir, Renew, Start, IdleInv, Listing,
     PathTooLong, Entry, EnterDir, CopyFails, CopyBuffer, UnlinkFile, OpenFile

-----------------------------------------------------------------------------
(* The theorems *)

LEMMA InitInv == Init => IInv
<1> SUFFICES ASSUME Init PROVE IInv
  OBVIOUS
<1>1. TypeOK
  <2>1. <<>> \in Seq(Frames) /\ Limit \in 0..Limit /\ src \subseteq Nodes
    BY TreeAssumption DEF Init
  <2>2. dst \in [Nodes -> {"none", "part", "torn", "whole"}]
    BY DEF Init, NoCopy
  <2> QED BY <2>1, <2>2 DEF Init, TypeOK, Errors
<1>2. IdleInv /\ LoopInv /\ RootedInv /\ DoneInv /\ CoverInv
  BY DEF Init, IdleInv, LoopInv, RootedInv, DoneInv, CoverInv
<1>3. Closed
  BY TreeAssumption DEF Init, Closed
<1>4. CopyIsWhole /\ RemovalIsWhole
  BY DEF Init, NoResult, CopyIsWhole, RemovalIsWhole
<1> QED BY <1>1, <1>2, <1>3, <1>4 DEF IInv

LEMMA NextInv == IInv /\ [Next]_vars => IInv'
BY TypePreserved, IdlePreserved, LoopPreserved, RootedPreserved, DonePreserved, ClosedPreserved,
   CoverPreserved, CopyPreserved, RemovalPreserved DEF IInv

LEMMA Inductive == Spec => []IInv
BY InitInv, NextInv, PTL DEF Spec

\* The walker's variables have their types for every tree and every limit.
THEOREM TypeCorrect == Spec => []TypeOK
<1>1. IInv => TypeOK
  BY DEF IInv
<1> QED BY <1>1, Inductive, PTL

\* recursive_cp (path_opts.c 161-200) returns success for no tree that it has
\* not copied whole, but for the failures nothing reports.
THEOREM CopyCorrect == Spec => []CopyIsWhole
<1>1. IInv => CopyIsWhole
  BY DEF IInv
<1> QED BY <1>1, Inductive, PTL

\* recursive_unlink (path_opts.c 202-220) returns success only when the tree
\* is gone.
THEOREM RemovalCorrect == Spec => []RemovalIsWhole
<1>1. IInv => RemovalIsWhole
  BY DEF IInv
<1> QED BY <1>1, Inductive, PTL

-----------------------------------------------------------------------------
(* Every call comes nearer to its end *)

\* Without a failed lseek the loop counts down what lies behind its position.
SizeInv ==
    sought /\ loop # NoLoop =>
        loop.left \in Nat /\ loop.pos + loop.left = Chunks[loop.file]

LEMMA SizePreserved ==
    ASSUME TypeOK, IdleInv, SizeInv, [Next]_vars
    PROVE  SizeInv'
<1>1. CASE loop' = NoLoop
  BY <1>1 DEF SizeInv
<1>2. CASE loop' = loop /\ (sought' => sought)
  BY <1>2 DEF SizeInv
<1>3. ASSUME NEW o \in {"cp", "rm"}, Start(o) PROVE SizeInv'
  <2>1. loop = NoLoop
    BY <1>3 DEF Start, IdleInv
  <2> QED BY <1>1, <1>3, <2>1 DEF Start
<1>4. ASSUME NEW x \in Nodes, OpenFile(x) PROVE SizeInv'
  <2>1. \A y \in Files : Chunks[y] \in Nat
    BY TreeAssumption
  <2>2. \/ loop' = loop /\ sought' = sought
        \/ \E y \in Files : sought' => loop' = [file |-> y, pos |-> 0, left |-> Chunks[y]]
    BY <1>4 DEF OpenFile
  <2>3. CASE \E y \in Files : sought' => loop' = [file |-> y, pos |-> 0, left |-> Chunks[y]]
    BY <2>1, <2>3 DEF SizeInv
  <2> QED BY <1>2, <2>2, <2>3
<1>5. CASE CopyBuffer /\ loop' # NoLoop
  <2> SUFFICES ASSUME sought' PROVE loop'.left \in Nat /\ loop'.pos + loop'.left = Chunks[loop'.file]
    BY DEF SizeInv
  <2>1. /\ loop # NoLoop /\ sought /\ Left(loop) # 0
        /\ loop' = [file |-> loop.file, pos |-> loop.pos + Got(loop), left |-> Left(loop)]
    BY <1>5 DEF CopyBuffer
  <2>2. /\ loop.file \in Files /\ loop.pos \in Nat /\ loop.left \in Nat
        /\ loop.pos + loop.left = Chunks[loop.file] /\ Chunks[loop.file] \in Nat
    BY <2>1, TreeAssumption DEF SizeInv, TypeOK
  <2>3. loop.left # Huge
    BY <2>2, TreeAssumption
  <2>4. /\ Left(loop) = loop.left - Got(loop) /\ Got(loop) \in {0, 1}
        /\ (Got(loop) = 1 => loop.pos < Chunks[loop.file])
    BY <2>3 DEF Left, Got
  <2>5. /\ loop.left - Got(loop) \in Nat
        /\ (loop.pos + Got(loop)) + (loop.left - Got(loop)) = Chunks[loop.file]
    BY <2>2, <2>4
  <2> QED BY <2>1, <2>4, <2>5
<1> QED
  BY <1>1, <1>2, <1>3, <1>4, <1>5 DEF Next, Step, vars, walk, seen, ListingEnds, LeaveDir, Deinit, Renew,
     PathTooLong, Entry, EnterDir, CopyFails, CopyBuffer, UnlinkFile

\* What is left of a call, by what falls first: the limit, the listings on the
\* stack, whether the last one goes on, what it has not read, and the buffers
\* of the file it copies.
Buffers == IF loop = NoLoop THEN 0 ELSE loop.left + 1
Advances ==
    \/ op' = "idle"
    \/ limit' < limit
    \/ limit' = limit /\ Len(stack') < Len(stack)
    \/ /\ limit' = limit /\ Len(stack') = Len(stack) /\ stack # <<>>
       /\ \/ Top'.done /\ ~Top.done
          \/ Top'.done = Top.done /\ Top'.unread \subseteq Top.unread /\ Top'.unread # Top.unread
          \/ Top' = Top /\ Buffers' < Buffers

LEMMA BreakAdvances ==
    ASSUME TypeOK, stack # <<>>, NEW e, Break(e), limit' = limit, ~Top.done
    PROVE  Advances
<1>1. /\ stack' = WithTop([Top EXCEPT !.done = TRUE])
      /\ [Top EXCEPT !.done = TRUE] \in Frames /\ [Top EXCEPT !.done = TRUE].done
  BY TopFrame DEF Break
<1>2. DOMAIN stack' = DOMAIN stack /\ stack'[Len(stack)].done /\ stack' \in Seq(Frames)
  BY <1>1, TopReplaced
<1>3. Len(stack') = Len(stack)
  BY <1>2 DEF TypeOK
<1> QED BY <1>2, <1>3 DEF Advances, Top

LEMMA TakenAdvances ==
    ASSUME TypeOK, stack # <<>>, NEW x \in Top.unread, stack' = Taken(x), limit' = limit
    PROVE  Advances
<1>1. /\ [Top EXCEPT !.unread = @ \ {x}] \in Frames
      /\ [Top EXCEPT !.unread = @ \ {x}].unread = Top.unread \ {x}
      /\ [Top EXCEPT !.unread = @ \ {x}].done = Top.done
  BY TopFrame
<1>2. /\ DOMAIN stack' = DOMAIN stack /\ stack' \in Seq(Frames)
      /\ stack'[Len(stack)] = [Top EXCEPT !.unread = @ \ {x}]
  BY <1>1, TopReplaced DEF Taken
<1>3. Len(stack') = Len(stack)
  BY <1>2 DEF TypeOK
<1>4. Top'.unread = Top.unread \ {x} /\ Top'.done = Top.done
  BY <1>1, <1>2, <1>3 DEF Top
<1> QED BY <1>3, <1>4 DEF Advances

LEMMA BufferAdvances ==
    ASSUME TypeOK, IdleInv, SizeInv, CopyBuffer, sought PROVE Advances
<1>1. loop # NoLoop /\ stack # <<>> /\ stack' = stack /\ limit' = limit /\ Top' = Top
  BY DEF CopyBuffer, IdleInv, walk, Top
<1>2. /\ loop.file \in Files /\ loop.pos \in Nat /\ loop.left \in Nat
      /\ loop.pos + loop.left = Chunks[loop.file] /\ Chunks[loop.file] \in Nat /\ loop.left # Huge
  BY <1>1, TreeAssumption DEF SizeInv, TypeOK
<1>3. Buffers' < Buffers
  <2>1. CASE loop' = NoLoop
    BY <1>1, <1>2, <2>1 DEF Buffers
  <2>2. CASE Left(loop) # 0 /\ loop' = [file |-> loop.file, pos |-> loop.pos + Got(loop), left |-> Left(loop)]
    <3>1. Left(loop) = loop.left - Got(loop)
      BY <1>2 DEF Left
    <3>2. Got(loop) = 1
      BY <1>2, <2>2, <3>1 DEF Got
    <3>3. loop'.left = loop.left - 1 /\ (loop' # NoLoop => Buffers' = loop'.left + 1)
      BY <2>2, <3>1, <3>2 DEF Buffers
    <3> QED BY <1>1, <1>2, <2>1, <3>3 DEF Buffers
  <2> QED BY <2>1, <2>2 DEF CopyBuffer
<1> QED BY <1>1, <1>3 DEF Advances

LEMMA EnterAdvances ==
    ASSUME TypeOK, NEW x \in Nodes, EnterDir(x) PROVE Advances
<1>1. stack # <<>> /\ ~Top.done /\ x \in Top.unread
  BY DEF Entry, EnterDir, Listing
<1>2. CASE Break("Callback") /\ limit' = limit
  BY <1>1, <1>2, BreakAdvances
<1>3. CASE WalkRefused(Taken(x)) \/ \E y : Walk(y, Taken(x))
  <2>0. limit \in Nat
    BY TreeAssumption DEF TypeOK
  <2>1. CASE stack' = Taken(x) /\ limit' = limit
    BY <1>1, <2>1, TakenAdvances
  <2>2. CASE limit' = limit - 1
    BY <2>0, <2>2 DEF Advances
  <2> QED BY <1>3, <2>1, <2>2 DEF Walk, WalkRefused
<1> QED BY <1>2, <1>3 DEF EnterDir

LEMMA Popped ==
    ASSUME NEW S, NEW s \in Seq(S), s # <<>> PROVE Len(SubSeq(s, 1, Len(s) - 1)) < Len(s)
<1>1. PICK m \in Nat : m = Len(s)
  OBVIOUS
<1>2. m # 0 /\ s \in [1 .. m -> S]
  BY <1>1
<1>3. m - 1 \in Nat /\ \A i \in 1 .. m - 1 : s[i] \in S
  BY <1>2
<1>4. Len(SubSeq(s, 1, m - 1)) = IF 1 <= m - 1 THEN m - 1 - 1 + 1 ELSE 0
  BY <1>3, SubSeqProperties
<1> QED BY <1>1, <1>2, <1>4

LEMMA StepAdvances ==
    ASSUME TypeOK, IdleInv, SizeInv, Step \/ CopyFails PROVE Advances \/ ~sought
<1>1. CASE ListingEnds
  <2>1. /\ stack # <<>> /\ ~Top.done /\ limit' = limit
        /\ stack' = WithTop([Top EXCEPT !.done = TRUE])
    BY <1>1 DEF ListingEnds, Listing
  <2>2. /\ DOMAIN stack' = DOMAIN stack /\ stack'[Len(stack)].done /\ stack' \in Seq(Frames)
    BY <2>1, TopFrame, TopReplaced
  <2>3. Len(stack') = Len(stack)
    BY <2>2 DEF TypeOK
  <2> QED BY <2>1, <2>2, <2>3 DEF Advances, Top
<1>2. CASE LeaveDir
  <2>1. stack # <<>> /\ stack \in Seq(Frames) /\ stack' = SubSeq(stack, 1, Len(stack) - 1) /\ limit' = limit
    BY <1>2 DEF LeaveDir, TypeOK
  <2>2. Len(stack') < Len(stack)
    BY <2>1, Popped
  <2> QED BY <2>1, <2>2 DEF Advances
<1>3. CASE Deinit
  BY <1>3 DEF Deinit, Finish, Advances
<1>4. CASE CopyBuffer
  BY <1>4, BufferAdvances
<1>5. ASSUME NEW x \in Nodes, PathTooLong(x) PROVE Advances
  <2>1. stack # <<>> /\ ~Top.done /\ Break("PathTooLong") /\ limit' = limit
    BY <1>5 DEF PathTooLong, Listing
  <2> QED BY <2>1, BreakAdvances
<1>6. ASSUME NEW x \in Nodes, UnlinkFile(x) \/ OpenFile(x) PROVE Advances
  <2>1. /\ stack # <<>> /\ ~Top.done /\ x \in Top.unread /\ limit' = limit
        /\ Break("Callback") \/ stack' = Taken(x)
    BY <1>6 DEF Entry, UnlinkFile, OpenFile, Listing
  <2> QED BY <2>1, BreakAdvances, TakenAdvances
<1>7. CASE CopyFails /\ sought
  <2>1. /\ loop # NoLoop /\ stack # <<>> /\ Break("Callback") /\ limit' = limit /\ loop' = NoLoop
        /\ loop.left \in Nat
    BY <1>7 DEF CopyFails, IdleInv, SizeInv
  <2>2. CASE ~Top.done
    BY <2>1, <2>2, BreakAdvances
  <2>3. CASE Top.done
    <3>1. Top \in Frames
      BY <2>1, TopFrame
    <3>2. [Top EXCEPT !.done = TRUE] = Top
      BY <2>3, <3>1 DEF Frames
    <3>3. stack' = WithTop(Top)
      BY <2>1, <3>2 DEF Break
    <3>4. DOMAIN stack' = DOMAIN stack /\ stack'[Len(stack)] = Top /\ stack' \in Seq(Frames)
      BY <2>1, <3>1, <3>3, TopReplaced
    <3>5. Len(stack') = Len(stack)
      BY <3>4 DEF TypeOK
    <3>6. Top' = Top
      BY <3>4, <3>5 DEF Top
    <3>7. Buffers' < Buffers
      BY <2>1 DEF Buffers
    <3> QED BY <2>1, <3>5, <3>6, <3>7 DEF Advances
  <2> QED BY <2>2, <2>3
<1> QED BY <1>1, <1>2, <1>3, <1>4, <1>5, <1>6, <1>7, EnterAdvances DEF Step

\* Every step of a call, failing ones included, brings it nearer to its end,
\* for every tree and limit and whatever the order of its listings - unless an
\* lseek has failed in it (path_opts.c 68-84, dir_walker.c 43-98).
CallsAdvance == [][Step \/ CopyFails => Advances \/ ~sought]_vars
THEOREM EveryStepAdvances == Spec => CallsAdvance
<1>1. Init => SizeInv
  BY DEF Init, SizeInv
<1>2. IInv /\ SizeInv /\ [Next]_vars => SizeInv'
  BY SizePreserved DEF IInv
<1>3. IInv /\ SizeInv /\ [Next]_vars => [Step \/ CopyFails => Advances \/ ~sought]_vars
  BY StepAdvances DEF IInv
<1> QED BY <1>1, <1>2, <1>3, Inductive, PTL DEF Spec, CallsAdvance
=============================================================================
