--------------------------- MODULE BlockLinearizer ---------------------------
(***************************************************************************)
(* FlowGraphCompiler::VisitBlocks and the block-level instructions         *)
(* (JoinEntry, TargetEntry, Branch, Return, a goto into a block entry):    *)
(* blocks are emitted from the last entry of blocks_ down to the first,    *)
(* each entry binds its block's label, a goto jumps unless its successor  *)
(* is emitted next, and a branch jumps to the successor that is not.      *)
(* The flow graph is the input: every graph over NumBlocks blocks the     *)
(* builder can produce.  Straight-line computations inside a block emit   *)
(* no control transfer and are left out; any of them may bail out.         *)
(***************************************************************************)
EXTENDS Integers, Sequences, SequencesExt, FiniteSets

CONSTANTS NumBlocks   \* number of blocks of the flow graph

ASSUME NumBlocks \in Nat \ {0}

Blocks == 0..(NumBlocks - 1)

VARIABLES
  graph,    \* the flow graph: a terminator per block, and the DFS order
  i,        \* VisitBlocks' loop index into blocks_
  code,     \* the control-relevant instructions emitted so far
  label,    \* per block: "unused", "linked" (forward jumps), "bound", "rebound"
  status    \* "compiling", "done" or "aborted" (after a Bailout)

vars == <<graph, i, code, label, status>>

-----------------------------------------------------------------------------
(* The flow graph the builder hands over.  Block 0 is the graph entry.     *)
(* A block ends in a return, in a goto (its instruction chain runs into a *)
(* JoinEntry) or in a branch to two TargetEntry blocks, true then false.   *)
Terms ==
  {[kind |-> "ret", succ |-> <<>>]} \cup
  {[kind |-> "goto", succ |-> <<s>>] : s \in Blocks \ {0}} \cup
  {[kind |-> "branch", succ |-> <<t, f>>] : t, f \in Blocks \ {0}}

Preds(term, b) == {a \in Blocks : \E j \in DOMAIN term[a].succ : term[a].succ[j] = b}

(* The order in which the builder's depth-first search visits the          *)
(* successors of a block; falseFirst says whether it takes a branch's      *)
(* false successor before its true one.                                    *)
VisitOrder(g, v) ==
  IF g.term[v].kind = "branch" /\ g.falseFirst THEN Reverse(g.term[v].succ)
  ELSE g.term[v].succ

RECURSIVE DfsFrom(_, _, _), DfsEach(_, _, _)
DfsFrom(g, v, st) ==
  LET st2 == DfsEach(g, VisitOrder(g, v), [st EXCEPT !.seen = @ \cup {v}])
  IN [st2 EXCEPT !.post = Append(@, v)]
DfsEach(g, ws, st) ==
  IF ws = <<>> THEN st
  ELSE DfsEach(g, Tail(ws), IF Head(ws) \in st.seen THEN st
                            ELSE DfsFrom(g, Head(ws), st))

(* blocks_: the reachable blocks in postorder; blocks_[j] is PostOrder[j+1]. *)
PostOrder(g) == DfsFrom(g, 0, [seen |-> {}, post |-> <<>>]).post

(* A branch's targets are TargetEntry blocks whose only predecessor is the *)
(* branch; a JoinEntry is entered by gotos only; every block is reachable *)
(* (the builder drops the others).                                         *)
Graphs ==
  {g \in [term : [Blocks -> Terms], falseFirst : BOOLEAN] :
     /\ \A a \in Blocks : g.term[a].kind = "branch" =>
          /\ g.term[a].succ[1] # g.term[a].succ[2]
          /\ \A j \in 1..2 : Preds(g.term, g.term[a].succ[j]) = {a}
     /\ \A a \in Blocks : g.term[a].kind = "goto" =>
          \A c \in Preds(g.term, g.term[a].succ[1]) : g.term[c].kind = "goto"
     /\ Len(PostOrder(g)) = NumBlocks}

BlockAt(j) == PostOrder(graph)[j + 1]

(* block_number(): the block's position in reverse postorder.              *)
BlockNumber(b) == NumBlocks - SelectInSeq(PostOrder(graph), LAMBDA x : x = b)

-----------------------------------------------------------------------------
(* Assembler::Bind and a jump to a label (the encoder, outside src/):     *)
(* binding resolves the label's forward references; a jump to a label     *)
(* not yet bound links it.                                                  *)
BindLabel(lbl, b) == [lbl EXCEPT ![b] = IF @ \in {"bound", "rebound"} THEN "rebound" ELSE "bound"]
LinkLabel(lbl, b) == [lbl EXCEPT ![b] = IF @ = "unused" THEN "linked" ELSE @]

Item(op, b) == [op |-> op, b |-> b]

IsJoin(b) == \E a \in Blocks : graph.term[a].kind = "goto" /\ graph.term[a].succ[1] = b

(* Mutation of EntryCode: VisitTargetEntry does not bind its label.       *)
EntryCodeJoinOnly(b) == IF IsJoin(b) THEN <<Item("bind", b)>> ELSE <<>>

(* VisitJoinEntry / VisitTargetEntry: bind the block's label.             *)
EntryCode(b) == <<Item("bind", b)>>

(* Mutation of GotoCode: the jump is emitted even to the next block.      *)
GotoCodeAlways(j, s) == <<Item("jmp", s)>>

(* VisitBlocks: a block whose chain ends in a block entry jumps to it      *)
(* unless it is blocks[j - 1], the block emitted next.                     *)
GotoCode(j, s) ==
  IF j = 0 \/ BlockAt(j - 1) # s THEN <<Item("jmp", s)>> ELSE <<>>

(* Mutation of BranchCode: the jump conditions are swapped.               *)
BranchCodeSwapped(b) ==
  LET t       == graph.term[b].succ[1]
      f       == graph.term[b].succ[2]
      index   == NumBlocks - BlockNumber(b) - 1
      negated == BlockAt(index - 1) = f
  IN IF negated THEN <<Item("jne", t)>> ELSE <<Item("jeq", f)>>

(* VisitBranch: negated iff the false successor is emitted next; then the *)
(* code jumps to the true successor on EQUAL true, else to the false one  *)
(* on NOT_EQUAL.                                                           *)
BranchCode(b) ==
  LET t       == graph.term[b].succ[1]
      f       == graph.term[b].succ[2]
      index   == NumBlocks - BlockNumber(b) - 1
      negated == BlockAt(index - 1) = f
  IN IF negated THEN <<Item("jeq", t)>> ELSE <<Item("jne", f)>>

(* VisitReturn: LeaveFrame; ret; padding.                                  *)
ReturnCode == <<Item("ret", -1)>>

ExitCode(j, b) ==
  CASE graph.term[b].kind = "goto"   -> GotoCode(j, graph.term[b].succ[1])
    [] graph.term[b].kind = "branch" -> BranchCode(b)
    [] OTHER                         -> ReturnCode

(* The labels after the assembler has processed the emitted items.        *)
ApplyLabels(lbl, items) ==
  FoldLeft(LAMBDA l, it : IF it.op = "bind" THEN BindLabel(l, it.b)
                          ELSE IF it.op \in {"jmp", "jeq", "jne"} THEN LinkLabel(l, it.b)
                          ELSE l,
           lbl, items)

-----------------------------------------------------------------------------
Init ==
  /\ graph \in Graphs
  /\ i = NumBlocks - 1
  /\ code = <<>>
  /\ label = [b \in Blocks |-> "unused"]
  /\ status = "compiling"

(* Mutation of VisitBlock: blocks are emitted in list order.             *)
VisitBlockForward ==
  /\ status = "compiling"
  /\ i >= 0
  /\ LET items == EntryCode(BlockAt(i)) \o ExitCode(i, BlockAt(i))
     IN /\ code' = code \o items
        /\ label' = ApplyLabels(label, items)
  /\ i' = i + 1
  /\ UNCHANGED <<graph, status>>

(* One iteration of VisitBlocks: the block entry, its instructions up to  *)
(* an exit, a branch or a block entry, and the jump that may follow.       *)
VisitBlock ==
  /\ status = "compiling"
  /\ i >= 0
  /\ LET items == EntryCode(BlockAt(i)) \o ExitCode(i, BlockAt(i))
     IN /\ code' = code \o items
        /\ label' = ApplyLabels(label, items)
  /\ i' = i - 1
  /\ UNCHANGED <<graph, status>>

(* A computation of the block cannot be lowered by this tier: after the   *)
(* entry label was bound, Bailout long-jumps out of the compilation.       *)
Bailout ==
  /\ status = "compiling"
  /\ i >= 0
  /\ code' = code \o EntryCode(BlockAt(i))
  /\ label' = ApplyLabels(label, EntryCode(BlockAt(i)))
  /\ status' = "aborted"
  /\ UNCHANGED <<graph, i>>

(* CompileGraph after VisitBlocks: int3, then the patch point.            *)
Finish ==
  /\ status = "compiling"
  /\ i = -1
  /\ code' = Append(code, Item("int3", -1))
  /\ status' = "done"
  /\ UNCHANGED <<graph, i, label>>

Stopped ==
  /\ status \in {"done", "aborted"}
  /\ UNCHANGED vars

Next == VisitBlock \/ Bailout \/ Finish \/ Stopped

Spec == Init /\ [][Next]_vars

-----------------------------------------------------------------------------
TypeOK ==
  /\ graph \in Graphs
  /\ i \in -1..(NumBlocks - 1)
  /\ code \in Seq([op : {"bind", "jmp", "jeq", "jne", "ret", "int3"}, b : Blocks \cup {-1}])
  /\ label \in [Blocks -> {"unused", "linked", "bound", "rebound"}]
  /\ status \in {"compiling", "done", "aborted"}

(* The assertions of VisitBranch: a branch is never the last block        *)
(* emitted, and exactly one of its successors is emitted right after it.   *)
(* This holds only because the builder numbers blocks in reverse          *)
(* Label soundness (the destructor's assertions): a compilation that      *)
(* completes has bound every block's label exactly once and left no       *)
(* label with unresolved forward jumps.                                    *)
LabelsResolved ==
  status = "done" => \A b \in Blocks : label[b] = "bound"

(* The destructor's assertions hold for every compiler that is torn down, *)
(* including one left behind by a Bailout: no block label still carries   *)
(* a forward jump that was never bound (~FlowGraphCompiler, !IsLinked).    *)
TeardownLabelsUnlinked ==
  status \in {"done", "aborted"} => \A b \in Blocks : label[b] # "linked"

(* Fall-through minimality: no jmp targets the block bound right after it. *)
NoJumpToNext ==
  \A n \in 1..(Len(code) - 1) :
    code[n].op = "jmp" => code[n + 1] # Item("bind", code[n].b)

(* Where control goes after the code of block b, given the value a branch  *)
(* tests (TRUE: it is the true object): a jump taken, the next block's     *)
(* label fallen into, a return ("exit") or the final int3 ("trap").        *)
RECURSIVE Walk(_, _)
Walk(n, cond) ==
  IF n > Len(code) THEN "trap"
  ELSE LET it == code[n] IN
    CASE it.op = "bind" -> it.b
      [] it.op = "jmp"  -> it.b
      [] it.op = "jeq"  -> IF cond THEN it.b ELSE Walk(n + 1, cond)
      [] it.op = "jne"  -> IF cond THEN Walk(n + 1, cond) ELSE it.b
      [] it.op = "ret"  -> "exit"
      [] OTHER          -> "trap"

IRSucc(b, cond) ==
  CASE graph.term[b].kind = "goto"   -> graph.term[b].succ[1]
    [] graph.term[b].kind = "branch" -> IF cond THEN graph.term[b].succ[1]
                                        ELSE graph.term[b].succ[2]
    [] OTHER                         -> "exit"

(* The emitted code has the flow graph's control flow: the prologue falls *)
(* into the graph entry, and from every block, for either outcome of its   *)
(* branch, control reaches exactly the successor the flow graph names.     *)
ControlFlowPreserved ==
  status = "done" =>
    /\ code[1] = Item("bind", 0)
    /\ \A b \in Blocks, cond \in BOOLEAN :
         Walk(SelectInSeq(code, LAMBDA it : it = Item("bind", b)) + 1, cond) = IRSucc(b, cond)
=============================================================================
