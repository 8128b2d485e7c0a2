--------------------------- MODULE ExerciseProofs ---------------------------
(***************************************************************************)
(* Theorems about the file exercises: about LsTree, for every tree, with   *)
(* any links, restrictions and changes, about LsL (List), for every        *)
(* directory, about WordSeparator (Word), for every file, and about        *)
(* Exercises, which is one of the three.                                   *)
(***************************************************************************)
EXTENDS Exercises, SequenceTheorems, FunctionTheorems, FiniteSetTheorems, TLAPS

(***************************************************************************)
(* Types.  That what is found is one node needs names that differ in a     *)
(* directory; that every call came from one needs a stack that is not      *)
(* empty.                                                                  *)
(***************************************************************************)
Frame == [dir : Dirs \cup {Outside}, todo : SUBSET Name]

Tree == /\ kind \in [Node -> {"file", "dir", "link"}]
        /\ target \in [Node -> Node \cup {Root}]
        /\ up \in [Place -> Dirs \cup {Outside}]
        /\ \A n \in Node : up[n] \in Dirs
        /\ present \subseteq Node
        /\ \A n, m \in present : name[n] = name[m] /\ up[n] = up[m] => n = m
        /\ closed \subseteq Dirs /\ unreadable \subseteq Dirs
        /\ changes \in 0 .. MaxOdd

Calls == /\ cwd \in Dirs \cup {Outside}
         /\ stack \in Seq(Frame)
         /\ Len(stack) \in 1 .. MaxDepth + 1
         /\ pc \in {"entries", "stat", "chdir", "scan"}
         /\ Name = {} \/ at \in Name
         /\ status \in {"running", "done", "exit", "crash"}
         /\ lines \in Seq([nodes : SUBSET Node, ident : 0 .. MaxDepth])
         /\ strayed \in BOOLEAN

Typed == Tree /\ Calls

LEMMA TypedImpliesTypeOK == ASSUME TreeAssumption, Typed PROVE TypeOK
<1>1. up \in [Place -> Place]
  BY DEF Typed, Tree, Dirs, Place
<1>2. Len(stack) <= MaxDepth + 1
  BY DEF Typed, Calls, TreeAssumption
<1> QED
  BY <1>1, <1>2 DEF Typed, Tree, Calls, Frame, TypeOK

LEMMA InitTyped == ASSUME TreeAssumption, Init PROVE Typed
<1>1. Tree
  <2>1. \A n \in Node : up[n] \in Dirs
    BY DEF Init, IsTree
  <2>2. up \in [Place -> Dirs \cup {Outside}]
    BY <2>1 DEF Init, Place
  <2>3. \A n, m \in present : name[n] = name[m] /\ up[n] = up[m] => n = m
    BY DEF Init, IsTree
  <2> QED
    BY <2>1, <2>2, <2>3 DEF Init, Tree, TreeAssumption
<1>2. Calls
  <2>1. Root \in Dirs
    BY DEF Dirs
  <2>2. {name[n] : n \in Entries(Root)} \subseteq Name
    BY DEF Init, Entries, Name
  <2>3. [dir |-> Root, todo |-> {name[n] : n \in Entries(Root)}] \in Frame
    BY <2>1, <2>2 DEF Frame
  <2>4. stack \in Seq(Frame) /\ Len(stack) = 1
    BY <2>3 DEF Init
  <2>5. 1 \in 1 .. MaxDepth + 1
    BY DEF TreeAssumption
  <2>6. Name = {} \/ at \in Name
    BY DEF Init
  <2>7. lines \in Seq([nodes : SUBSET Node, ident : 0 .. MaxDepth])
    BY DEF Init
  <2> QED
    BY <2>1, <2>4, <2>5, <2>6, <2>7 DEF Init, Calls
<1> QED
  BY <1>1, <1>2 DEF Typed

(***************************************************************************)
(* What a step finds.                                                      *)
(***************************************************************************)
LEMMA NamedIsOne ==
    ASSUME Typed
    PROVE  \A n, m \in Named : n = m
  BY DEF Typed, Tree, Named, Entries

\* A link leads to one node, and so does a name.
LEMMA FoundIsOne ==
    ASSUME Typed
    PROVE  /\ Found \subseteq Node \cup {Root}
           /\ \A n, m \in Found : n = m
<1>1. present \subseteq Node /\ target \in [Node -> Node \cup {Root}]
  BY DEF Typed, Tree
<1> QED
  BY <1>1, NamedIsOne DEF Found, Reachable, There, Named, Entries

LEMMA TopIsFrame ==
    ASSUME TreeAssumption, Typed
    PROVE  /\ Len(stack) \in Nat \ {0} /\ Len(stack) <= MaxDepth + 1
           /\ Top \in Frame
           /\ ident \in 0 .. MaxDepth
<1>1. stack \in Seq(Frame) /\ Len(stack) \in 1 .. MaxDepth + 1 /\ MaxDepth \in Nat
  BY DEF Typed, Calls, TreeAssumption
<1> QED
  BY <1>1 DEF Top, ident

LEMMA EntriesHaveNames ==
    ASSUME Typed
    PROVE  \A d : /\ Entries(d) \subseteq Node
                 /\ {name[n] : n \in Entries(d)} \subseteq Name
  BY DEF Typed, Tree, Entries, Name

\* The innermost call replaced.
LEMMA Replaced ==
    ASSUME NEW S, NEW s \in Seq(S), Len(s) # 0, NEW e \in S
    PROVE  /\ [s EXCEPT ![Len(s)] = e] \in Seq(S)
           /\ Len([s EXCEPT ![Len(s)] = e]) = Len(s)
           /\ \A i \in 1 .. Len(s) :
                  [s EXCEPT ![Len(s)] = e][i] = IF i = Len(s) THEN e ELSE s[i]
<1> DEFINE k == Len(s)
<1>1. k \in Nat
  BY LenProperties
<1>2. k \in 1 .. Len(s)
  BY <1>1
<1> HIDE DEF k
<1>3. /\ [s EXCEPT ![k] = e] \in Seq(S) /\ Len([s EXCEPT ![k] = e]) = Len(s)
      /\ \A i \in 1 .. Len(s) : [s EXCEPT ![k] = e][i] = IF i = k THEN e ELSE s[i]
  BY <1>2, ExceptSeq
<1> QED
  BY <1>3 DEF k

\* A call that returns leaves those before it.
LEMMA Returned ==
    ASSUME NEW S, NEW s \in Seq(S), Len(s) # 0, Len(s) # 1
    PROVE  /\ SubSeq(s, 1, Len(s) - 1) \in Seq(S)
           /\ Len(SubSeq(s, 1, Len(s) - 1)) = Len(s) - 1
           /\ \A i \in 1 .. Len(s) - 1 : SubSeq(s, 1, Len(s) - 1)[i] = s[i]
<1> DEFINE k == Len(s) - 1
<1>0. Len(s) \in Nat
  BY LenProperties
<1>1. k \in Nat /\ k >= 1 /\ k <= Len(s)
  <2>1. \A n \in Nat : n # 0 /\ n # 1 => n - 1 \in Nat /\ n - 1 >= 1 /\ n - 1 <= n
    OBVIOUS
  <2> QED
    BY <1>0, <2>1, Zenon
<1>2. \A i \in 1 .. k : s[i] \in S
  BY <1>0, ElementOfSeq
<1> HIDE DEF k
<1>3. /\ SubSeq(s, 1, k) \in Seq(S)
      /\ Len(SubSeq(s, 1, k)) = k
      /\ \A i \in 1 .. k : SubSeq(s, 1, k)[i] = s[i]
  BY <1>1, <1>2, SubSeqProperties
<1> QED
  BY <1>3 DEF k

(***************************************************************************)
(* The steps.                                                              *)
(***************************************************************************)
LEMMA TreeStays ==
    ASSUME Tree, UNCHANGED system
    PROVE  Tree'
  BY DEF Tree, system, Dirs

\* Taking a name from the innermost call.
LEMMA PrintLineCalls ==
    ASSUME TreeAssumption, Typed, NEW nm,
           stack' = [stack EXCEPT ![Len(stack)].todo = @ \ {nm}]
    PROVE  /\ stack' \in Seq(Frame)
           /\ Len(stack') = Len(stack)
           /\ \A i \in 1 .. Len(stack) :
                  /\ stack'[i].dir = stack[i].dir
                  /\ stack'[i].todo = IF i = Len(stack) THEN stack[i].todo \ {nm}
                                      ELSE stack[i].todo
<1> DEFINE f == [Top EXCEPT !.todo = @ \ {nm}]
<1>1. stack \in Seq(Frame) /\ Len(stack) \in DOMAIN stack /\ Len(stack) # 0
  BY TopIsFrame DEF Typed, Calls
<1>2. f \in Frame /\ f.dir = Top.dir /\ f.todo = Top.todo \ {nm}
  BY TopIsFrame DEF Frame
<1>3. stack' = [stack EXCEPT ![Len(stack)] = f]
  BY <1>1 DEF Top
<1> HIDE DEF f
<1>4. /\ [stack EXCEPT ![Len(stack)] = f] \in Seq(Frame)
      /\ Len([stack EXCEPT ![Len(stack)] = f]) = Len(stack)
      /\ \A i \in 1 .. Len(stack) :
             [stack EXCEPT ![Len(stack)] = f][i] = IF i = Len(stack) THEN f ELSE stack[i]
  <2>1. stack \in Seq(Frame) /\ Len(stack) # 0 /\ f \in Frame
    BY <1>1, <1>2
  <2> HIDE DEF Frame
  <2>2. \A S : \A s \in Seq(S) : \A e \in S : Len(s) # 0 =>
            /\ [s EXCEPT ![Len(s)] = e] \in Seq(S)
            /\ Len([s EXCEPT ![Len(s)] = e]) = Len(s)
            /\ \A i \in 1 .. Len(s) :
                   [s EXCEPT ![Len(s)] = e][i] = IF i = Len(s) THEN e ELSE s[i]
    BY Replaced
  <2> QED
    BY <2>1, <2>2
<1> QED
  BY <1>2, <1>3, <1>4 DEF Top

LEMMA PrintLineTyped == ASSUME TreeAssumption, Typed, PrintLine PROVE Typed'
<1>1. Tree'
  BY TreeStays DEF PrintLine, Typed
<1>2. Dirs' = Dirs
  BY DEF PrintLine, system, Dirs
<1> PICK nm \in Top.todo :
        /\ at' = nm
        /\ stack' = [stack EXCEPT ![Len(stack)].todo = @ \ {nm}]
        /\ lines' = Append(lines, [nodes |-> {n \in Entries(cwd) : name[n] = nm},
                                  ident |-> ident])
  BY DEF PrintLine
<1>3. nm \in Name
  BY TopIsFrame DEF Frame
<1>4. stack' \in Seq(Frame) /\ Len(stack') = Len(stack)
  BY PrintLineCalls
<1>5. Frame' = Frame
  BY <1>2 DEF Frame
<1>6. [nodes |-> {n \in Entries(cwd) : name[n] = nm}, ident |-> ident]
          \in [nodes : SUBSET Node, ident : 0 .. MaxDepth]
  BY TopIsFrame, EntriesHaveNames
<1>7. lines' \in Seq([nodes : SUBSET Node, ident : 0 .. MaxDepth])
  BY <1>6 DEF Typed, Calls
<1>8. Calls'
  BY <1>2, <1>3, <1>4, <1>5, <1>7 DEF PrintLine, Typed, Calls
<1> QED
  BY <1>1, <1>8 DEF Typed

LEMMA get_modeTyped == ASSUME TreeAssumption, Typed, get_mode PROVE Typed'
<1>1. Tree'
  BY TreeStays DEF get_mode, Typed
<1>2. Dirs' = Dirs
  BY DEF get_mode, system, Dirs
<1>3. Calls'
  BY <1>2 DEF get_mode, Typed, Calls, Frame
<1> QED
  BY <1>1, <1>3 DEF Typed

LEMMA ChDirTyped == ASSUME TreeAssumption, Typed, ChDir PROVE Typed'
<1>1. Tree'
  BY TreeStays DEF ChDir, Typed
<1>2. Dirs' = Dirs
  BY DEF ChDir, system, Dirs
<1>3. cwd' \in Dirs \cup {Outside}
  <2>1. CASE UNCHANGED cwd
    BY <2>1 DEF Typed, Calls
  <2>2. CASE cwd' \in Found /\ Found \cap Dirs # {}
    BY <2>2, FoundIsOne
  <2> QED
    BY <2>1, <2>2 DEF ChDir
<1>4. strayed' \in BOOLEAN
  BY DEF ChDir, Typed, Calls
<1>5. Calls'
  BY <1>2, <1>3, <1>4 DEF ChDir, Typed, Calls, Frame
<1> QED
  BY <1>1, <1>5 DEF Typed

LEMMA ScanDirTyped == ASSUME TreeAssumption, Typed, ScanDir PROVE Typed'
<1>1. Tree'
  BY TreeStays DEF ScanDir, Typed
<1>2. Dirs' = Dirs
  BY DEF ScanDir, system, Dirs
<1>3. Frame' = Frame
  BY <1>2 DEF Frame
<1>4. stack' \in Seq(Frame) /\ Len(stack') \in 1 .. MaxDepth + 1
  <2>1. stack \in Seq(Frame) /\ Len(stack) \in 1 .. MaxDepth + 1 /\ MaxDepth \in Nat
    BY DEF Typed, Calls, TreeAssumption
  <2>2. CASE UNCHANGED stack
    BY <2>1, <2>2
  <2>3. CASE Len(stack) <= MaxDepth
    <3> DEFINE f == [dir |-> cwd,
                     todo |-> IF cwd \in unreadable THEN {}
                              ELSE {name[n] : n \in Entries(cwd)}]
    <3>1. f \in Frame
      BY EntriesHaveNames DEF Frame, Typed, Calls
    <3>2. stack' = Append(stack, f)
      BY <2>1, <2>3 DEF ScanDir
    <3> QED
      BY <2>1, <2>3, <3>1, <3>2
  <2> QED
    BY <2>1, <2>2, <2>3 DEF ScanDir
<1>5. Calls'
  BY <1>2, <1>3, <1>4 DEF ScanDir, Typed, Calls
<1> QED
  BY <1>1, <1>5 DEF Typed

LEMMA ReturnTyped == ASSUME TreeAssumption, Typed, Return PROVE Typed'
<1>1. Tree'
  BY TreeStays DEF Return, Typed
<1>2. Dirs' = Dirs
  BY DEF Return, system, Dirs
<1>3. Frame' = Frame
  BY <1>2 DEF Frame
<1>4. cwd' \in Dirs \cup {Outside}
  BY DEF Return, Typed, Tree, Calls, Dirs, Place
<1>5. stack' \in Seq(Frame) /\ Len(stack') \in 1 .. MaxDepth + 1
  <2>1. stack \in Seq(Frame) /\ Len(stack) \in 1 .. MaxDepth + 1 /\ MaxDepth \in Nat
    BY DEF Typed, Calls, TreeAssumption
  <2>2. CASE Len(stack) # 1
    BY <2>1, <2>2, Returned DEF Return
  <2> QED
    BY <2>1, <2>2 DEF Return
<1>6. Calls'
  BY <1>2, <1>3, <1>4, <1>5 DEF Return, Typed, Calls
<1> QED
  BY <1>1, <1>6 DEF Typed

LEMMA DisturbTyped == ASSUME TreeAssumption, Typed, Disturb PROVE Typed'
<1>1. Change
  BY DEF Disturb, Remove, Move
<1>2. /\ Dirs' = Dirs /\ UNCHANGED <<kind, target, closed, unreadable>>
      /\ UNCHANGED <<cwd, stack, pc, at, status, lines>>
  BY <1>1 DEF Change, Dirs
<1>3. changes' \in 0 .. MaxOdd
  <2>1. Odd \in Nat
    <3>1. IsFiniteSet(Links \cup closed \cup unreadable)
      <4>1. Links \cup closed \cup unreadable \subseteq Node \cup {Root}
        BY DEF Typed, Tree, Links, Dirs
      <4>2. IsFiniteSet(Node \cup {Root})
        BY FS_AddElement DEF TreeAssumption
      <4> QED
        BY <4>1, <4>2, FS_Subset
    <3> QED
      BY <3>1, FS_CardinalityType DEF Odd
  <2> QED
    BY <1>1, <2>1 DEF Change, Typed, Tree, TreeAssumption
<1>4. strayed' \in BOOLEAN
  BY DEF Disturb, Remove, Move, Typed, Calls
<1>5. Calls'
  BY <1>2, <1>4 DEF Typed, Calls, Frame
<1>6. ASSUME NEW n \in Node, Remove(n)
      PROVE  Tree'
  BY <1>2, <1>3, <1>6 DEF Remove, Typed, Tree
<1>7. ASSUME NEW n \in Node, NEW d \in Node \cup {Root}, Move(n, d)
      PROVE  Tree'
  <2>1. up' = [up EXCEPT ![n] = d] /\ d \in Dirs /\ UNCHANGED present
    BY <1>7 DEF Move
  <2>2. up' \in [Place -> Dirs \cup {Outside}] /\ \A m \in Node : up'[m] \in Dirs
    BY <2>1 DEF Typed, Tree, Place
  <2>3. \A m, k \in present' : name[m] = name[k] /\ up'[m] = up'[k] => m = k
    BY <1>7 DEF Move, IsTree
  <2> QED
    BY <1>2, <1>3, <2>1, <2>2, <2>3 DEF Typed, Tree
<1>8. Tree'
  BY <1>6, <1>7 DEF Disturb
<1> QED
  BY <1>5, <1>8 DEF Typed

LEMMA NextTyped == ASSUME TreeAssumption, Typed, [Next]_vars PROVE Typed'
<1>1. CASE PrintLine
  BY <1>1, PrintLineTyped
<1>2. CASE get_mode
  BY <1>2, get_modeTyped
<1>3. CASE ChDir
  BY <1>3, ChDirTyped
<1>4. CASE ScanDir
  BY <1>4, ScanDirTyped
<1>5. CASE Return
  BY <1>5, ReturnTyped
<1>6. CASE Disturb
  BY <1>6, DisturbTyped
<1>7. CASE UNCHANGED vars
  BY <1>7 DEF vars, system, Typed, Tree, Calls, Frame, Dirs
<1> QED
  BY <1>1, <1>2, <1>3, <1>4, <1>5, <1>6, <1>7 DEF Next, print_file

\* The types of LsTree's variables.
THEOREM TypeCorrect == ASSUME TreeAssumption PROVE Spec => []TypeOK
<1>1. Init => Typed
  BY InitTyped
<1>2. Typed /\ [Next]_vars => Typed'
  BY NextTyped
<1>3. Typed => TypeOK
  BY TypedImpliesTypeOK
<1> QED
  BY <1>1, <1>2, <1>3, PTL DEF Spec

(***************************************************************************)
(* The way back.                                                           *)
(***************************************************************************)
\* The calls are of directories each of which is in that of the call before,
\* and so is the one that chdir has just entered.
Path == \A i \in 1 .. Len(stack) - 1 : up[stack[i + 1].dir] = stack[i].dir
OnPath == ~strayed =>
              /\ Path
              /\ pc = "scan" => up[cwd] = Top.dir
              /\ pc # "scan" => cwd = Top.dir

LEMMA InitOnPath == ASSUME TreeAssumption, Init PROVE OnPath
  BY DEF Init, OnPath, Path, Top

\* No call is of a directory that may not be entered.
Entered == /\ Root \notin closed
           /\ cwd \notin closed
           /\ \A i \in 1 .. Len(stack) : stack[i].dir \notin closed

LEMMA InitEntered == ASSUME TreeAssumption, Init PROVE Entered
  BY DEF Init, Entered

LEMMA NextEntered ==
    ASSUME TreeAssumption, Typed, Entered, [Next]_vars
    PROVE  Entered'
<1>1. stack \in Seq(Frame) /\ Len(stack) \in Nat \ {0} /\ MaxDepth \in Nat
  BY TopIsFrame DEF Typed, Calls, TreeAssumption
<1>2. closed' = closed
  BY DEF Next, print_file, PrintLine, get_mode, ChDir, ScanDir, Return,
         Disturb, Remove, Move, Change, vars, system
<1>3. CASE PrintLine
  <2>1. PICK nm \in Top.todo : stack' = [stack EXCEPT ![Len(stack)].todo = @ \ {nm}]
    BY <1>3 DEF PrintLine
  <2>2. Len(stack') = Len(stack) /\ \A i \in 1 .. Len(stack) : stack'[i].dir = stack[i].dir
    BY <2>1, PrintLineCalls
  <2> QED
    BY <1>2, <1>3, <2>2 DEF PrintLine, Entered
<1>4. CASE ChDir
  <2>1. cwd' = cwd \/ (cwd' \in Found /\ ~(Found \cap Dirs \subseteq closed))
    BY <1>4 DEF ChDir
  <2>2. cwd' \notin closed
    BY <2>1, FoundIsOne DEF Entered
  <2> QED
    BY <1>2, <1>4, <2>2 DEF ChDir, Entered
<1>5. CASE ScanDir
  <2>1. CASE UNCHANGED stack
    BY <1>2, <1>5, <2>1 DEF ScanDir, Entered
  <2>2. CASE \E f : stack' = Append(stack, [dir |-> cwd, todo |-> f])
    <3>1. PICK f : stack' = Append(stack, [dir |-> cwd, todo |-> f])
      BY <2>2
    <3>2. /\ Len(stack') = Len(stack) + 1
          /\ stack'[Len(stack) + 1].dir = cwd
          /\ \A i \in 1 .. Len(stack) : stack'[i] = stack[i]
      BY <1>1, <3>1
    <3>3. \A i \in 1 .. Len(stack') : i \in 1 .. Len(stack) \/ i = Len(stack) + 1
      BY <1>1, <3>2
    <3> QED
      BY <1>2, <1>5, <3>2, <3>3 DEF ScanDir, Entered
  <2> QED
    BY <1>5, <2>1, <2>2 DEF ScanDir
<1>6. CASE Return
  <2>1. cwd' \notin closed
    BY <1>6 DEF Return, Entered
  <2>2. CASE UNCHANGED stack
    BY <1>2, <2>1, <2>2 DEF Entered
  <2>3. CASE Len(stack) # 1 /\ stack' = SubSeq(stack, 1, Len(stack) - 1)
    <3>1. /\ Len(stack') = Len(stack) - 1
          /\ \A i \in 1 .. Len(stack) - 1 : stack'[i] = stack[i]
      BY <1>1, <2>3, Returned
    <3>2. \A i \in 1 .. Len(stack') : i \in 1 .. Len(stack) /\ stack'[i] = stack[i]
      BY <1>1, <3>1
    <3> QED
      BY <1>2, <2>1, <3>2 DEF Entered
  <2> QED
    BY <1>6, <2>2, <2>3 DEF Return
<1>7. CASE UNCHANGED <<cwd, stack>>
  BY <1>2, <1>7 DEF Entered
<1> QED
  BY <1>3, <1>4, <1>5, <1>6, <1>7 DEF Next, print_file, get_mode, Disturb, Remove, Move, Change, vars

\* The caller's directory can be entered, if ".." is still that.
LEMMA BackToCaller ==
    ASSUME TreeAssumption, Typed, OnPath, Entered, Return, Len(stack) # 1, ~strayed
    PROVE  cwd' = up[cwd] /\ cwd' = stack[Len(stack) - 1].dir
<1>1. Len(stack) \in Nat \ {0}
  BY TopIsFrame
<1>2. cwd = stack[Len(stack)].dir
  BY DEF Return, At, OnPath, Top
<1>3. Len(stack) - 1 \in 1 .. Len(stack) - 1 /\ Len(stack) - 1 + 1 = Len(stack)
  <2>1. \A k \in Nat \ {0} : k # 1 => k - 1 \in 1 .. k - 1 /\ k - 1 + 1 = k
    OBVIOUS
  <2> QED
    BY <1>1, <2>1
<1>4. up[cwd] = stack[Len(stack) - 1].dir
  BY <1>2, <1>3 DEF OnPath, Path
<1>5. up[cwd] \notin closed
  BY <1>1, <1>3, <1>4 DEF Entered
<1> QED
  BY <1>4, <1>5 DEF Return

LEMMA NextOnPath ==
    ASSUME TreeAssumption, Typed, OnPath, Entered, [Next]_vars
    PROVE  OnPath'
<1>1. stack \in Seq(Frame) /\ Len(stack) \in Nat \ {0} /\ MaxDepth \in Nat
  BY TopIsFrame DEF Typed, Calls, TreeAssumption
<1>2. CASE PrintLine
  <2>1. PICK nm \in Top.todo : stack' = [stack EXCEPT ![Len(stack)].todo = @ \ {nm}]
    BY <1>2 DEF PrintLine
  <2>2. Len(stack') = Len(stack) /\ \A i \in 1 .. Len(stack) : stack'[i].dir = stack[i].dir
    BY <2>1, PrintLineCalls
  <2> QED
    BY <1>1, <1>2, <2>2 DEF PrintLine, At, system, OnPath, Path, Top
<1>3. CASE get_mode
  BY <1>3 DEF get_mode, At, system, OnPath, Path, Top
<1>4. CASE ChDir
  BY <1>4 DEF ChDir, At, system, OnPath, Path, Top
<1>5. CASE ScanDir
  <2>1. CASE UNCHANGED <<stack, pc>>
    BY <1>5, <2>1 DEF ScanDir, system, OnPath, Path, Top
  <2>2. CASE \E f : stack' = Append(stack, [dir |-> cwd, todo |-> f]) /\ pc' = "entries"
    <3>1. PICK f : stack' = Append(stack, [dir |-> cwd, todo |-> f])
      BY <2>2
    <3>2. /\ Len(stack') = Len(stack) + 1
          /\ stack'[Len(stack) + 1].dir = cwd
          /\ \A i \in 1 .. Len(stack) : stack'[i] = stack[i]
      BY <1>1, <3>1
    <3> QED
      BY <1>1, <1>5, <2>2, <3>2 DEF ScanDir, At, system, OnPath, Path, Top
  <2> QED
    BY <1>5, <2>1, <2>2 DEF ScanDir
<1>6. CASE Return
  <2>1. CASE UNCHANGED <<cwd, stack>>
    BY <1>6, <2>1 DEF Return, system, OnPath, Path, Top
  <2>2. CASE Len(stack) # 1 /\ stack' = SubSeq(stack, 1, Len(stack) - 1)
    <3>1. /\ Len(stack') = Len(stack) - 1
          /\ \A i \in 1 .. Len(stack) - 1 : stack'[i] = stack[i]
      BY <1>1, <2>2, Returned
    <3>2. ~strayed => cwd' = up[cwd]
      BY <1>6, <2>2, BackToCaller
    <3> QED
      BY <1>1, <1>6, <2>2, <3>1, <3>2 DEF Return, At, system, OnPath, Path, Top
  <2> QED
    BY <1>6, <2>1, <2>2 DEF Return
<1>7. CASE Disturb
  <2>1. UNCHANGED <<cwd, stack, pc>>
    BY <1>7 DEF Disturb, Remove, Move, Change
  <2>2. ASSUME NEW n \in Node, Remove(n)
        PROVE  OnPath'
    BY <2>1, <2>2 DEF Remove, OnPath, Path, Top
  <2>3. ASSUME NEW n \in Node, NEW d \in Node \cup {Root}, Move(n, d)
        PROVE  OnPath'
    <3>1. SUFFICES ASSUME ~strayed'
                   PROVE  OnPath'
      BY DEF OnPath
    <3>2. ~strayed /\ n # cwd /\ \A i \in DOMAIN stack : stack[i].dir # n
      BY <2>3, <3>1 DEF Move
    <3>3. \A p : p # n => up'[p] = up[p]
      BY <2>3 DEF Move, Typed, Tree
    <3>4. Path'
      BY <1>1, <2>1, <3>2, <3>3 DEF OnPath, Path
    <3> QED
      BY <2>1, <3>2, <3>3, <3>4 DEF OnPath, Top
  <2> QED
    BY <1>7, <2>2, <2>3 DEF Disturb
<1>8. CASE UNCHANGED vars
  BY <1>8 DEF vars, system, OnPath, Path, Top
<1> QED
  BY <1>2, <1>3, <1>4, <1>5, <1>6, <1>7, <1>8 DEF Next, print_file

\* Wherever other programs move and remove files, the working directory is the
\* one whose entries print_file is printing, and ".." leads back the way it
\* came, until it follows a link to elsewhere, a chdir fails or a directory it
\* is in is moved.
THEOREM StaysInPlace == ASSUME TreeAssumption PROVE Spec => []InPlace
<1>1. Init => Typed /\ OnPath /\ Entered
  BY InitTyped, InitOnPath, InitEntered
<1>2. Typed /\ OnPath /\ Entered /\ [Next]_vars => (Typed /\ OnPath /\ Entered)'
  BY NextTyped, NextOnPath, NextEntered
<1>3. Typed /\ OnPath => InPlace
  BY DEF OnPath, Path, InPlace
<1> QED
  BY <1>1, <1>2, <1>3, PTL DEF Spec

(***************************************************************************)
(* How a listing ends.  Without changes by others the tree is the one it   *)
(* was at the start.                                                       *)
(***************************************************************************)
Untouched == changes = 0 => present = Node /\ IsTree

\* The calls start at Root and are of different directories, one below the
\* other, and what is left to print is in them.
Descent ==
    /\ stack[1].dir = Root
    /\ up[Root] = Outside
    /\ Quiet =>
        /\ \A i \in 1 .. Len(stack) : /\ stack[i].dir \in Dirs
                                      /\ stack[i].todo \subseteq {name[n] : n \in Entries(stack[i].dir)}
                                      /\ i > 1 => /\ stack[i].dir \in Node
                                                  /\ Depth[stack[i].dir] = i - 2
        /\ pc = "scan" => /\ cwd \in Node /\ cwd \in Dirs
                          /\ Depth[cwd] = Len(stack) - 1

\* How it ends if it does not come to its end.
Failures ==
    /\ Quiet /\ pc \in {"stat", "chdir"} => Named # {}
    /\ status = "exit" /\ Quiet => \E n \in Links : target[n] \notin Reachable
    /\ status = "crash" => ~Quiet
    /\ status = "done" => pc = "entries" /\ Len(stack) = 1 /\ Top.todo = {}

Plain == Quiet /\ Links = {} /\ unreadable = {}

Printed(ls, n) == \E i \in DOMAIN ls : ls[i].nodes = {n}
Current == IF pc \in {"stat", "chdir"} THEN Named
           ELSE IF pc = "scan" THEN {cwd} ELSE {}

\* Each node has at most one line.
LinesAreNodes ==
    /\ \A i \in DOMAIN lines :
           \E n \in Node : lines[i] = [nodes |-> {n}, ident |-> Depth[n]]
    /\ \A i, j \in DOMAIN lines : lines[i].nodes = lines[j].nodes => i = j
    /\ pc # "entries" => lines # <<>> /\ lines[Len(lines)].nodes = Current

\* Where a directory is being listed, what is left of it is not printed; where
\* it is not, its entries are if it has been.
Coverage ==
    \A n \in Node :
        /\ \A k \in 1 .. Len(stack) :
               up[n] = stack[k].dir => (Printed(lines, n) <=> name[n] \notin stack[k].todo)
        /\ (\A k \in 1 .. Len(stack) : up[n] # stack[k].dir) =>
               (Printed(lines, n) <=> Printed(lines, up[n]) /\ up[n] \notin Current)

\* j is the line of node n, and up to line i there is none to its left or
\* under it.
Heads(ls, j, n, i, margin) ==
    /\ ls[j].nodes = {n}
    /\ \A m \in j + 1 .. i : ls[m].ident >= margin

Headings ==
    /\ \A k \in 2 .. Len(stack) :
           \E j \in DOMAIN lines : Heads(lines, j, stack[k].dir, Len(lines), k - 1)
    /\ \A i \in DOMAIN lines : \A n \in Node :
           lines[i].nodes = {n} /\ up[n] # Root =>
               \E j \in 1 .. i - 1 : Heads(lines, j, up[n], i - 1, lines[i].ident)

Listing == Plain => LinesAreNodes /\ Coverage /\ Headings

All == Typed /\ OnPath /\ Entered /\ Untouched /\ Descent /\ Failures /\ Listing

\* A set whose members have numbers has one with the least.
LEMMA LeastNumber ==
    ASSUME NEW S, NEW f, S # {}, \A x \in S : f[x] \in Nat
    PROVE  \E x \in S : \A y \in S : ~(f[y] < f[x])
<1> DEFINE N == {f[x] : x \in S}
           R == OpToRel(<, Nat)
<1>1. IsWellFoundedOn(R, Nat)
  BY NatLessThanWellFounded
<1>2. N \subseteq Nat /\ N # {}
  OBVIOUS
<1>3. \A a, b \in Nat : a < b => <<a, b>> \in R
  BY DEF OpToRel
<1> HIDE DEF R
<1>4. \E a \in N : \A b \in N : ~(<<b, a>> \in R)
  <2> HIDE DEF N
  <2> QED
    BY <1>1, <1>2, WFMin
<1> QED
  BY <1>2, <1>3, <1>4

LEMMA DepthProperties ==
    ASSUME TreeAssumption, IsTree
    PROVE  /\ Depth \in [Node -> 0 .. Cardinality(Node)]
           /\ \A n \in Node : Depth[n] = IF up[n] = Root THEN 0 ELSE Depth[up[n]] + 1
           /\ Cardinality(Node) \in Nat
<1>1. Depth \in Depths
  BY DEF IsTree, Depth
<1>2. Cardinality(Node) \in Nat
  BY FS_CardinalityType DEF TreeAssumption
<1> QED
  BY <1>1, <1>2 DEF Depths

LEMMA SameTree ==
    ASSUME UNCHANGED system
    PROVE  /\ Dirs' = Dirs /\ Links' = Links /\ Reachable' = Reachable
           /\ Depth' = Depth /\ IsTree' = IsTree
           /\ \A d : Entries(d)' = Entries(d)
  BY DEF system, Dirs, Links, There, Hidden, Reachable, Depths, Depth, IsTree, Entries

\* Where the listing is still of a tree that nobody has changed, and the way
\* back is known, this was so before.
LEMMA QuietBefore ==
    ASSUME TreeAssumption, Typed, [Next]_vars, Quiet'
    PROVE  Quiet /\ UNCHANGED system /\ (print_file \/ UNCHANGED vars)
<1>1. ~Disturb
  BY DEF Disturb, Remove, Move, Change, Quiet, Typed, Tree
<1>2. print_file \/ UNCHANGED vars
  BY <1>1 DEF Next
<1>3. UNCHANGED system
  BY <1>2 DEF print_file, PrintLine, get_mode, ChDir, ScanDir, Return, vars
<1>4. ~strayed
  BY <1>2 DEF print_file, PrintLine, get_mode, ChDir, ScanDir, Return, vars, Quiet,
              Typed, Calls
<1> QED
  BY <1>2, <1>3, <1>4 DEF Quiet, system

LEMMA NextUntouched ==
    ASSUME TreeAssumption, Typed, Untouched, [Next]_vars
    PROVE  Untouched'
<1>1. ASSUME changes' = 0
      PROVE  UNCHANGED system
  <2>1. ~Disturb
    BY <1>1 DEF Disturb, Remove, Move, Change, Typed, Tree
  <2> QED
    BY <2>1 DEF Next, print_file, PrintLine, get_mode, ChDir, ScanDir, Return, vars
<1> QED
  BY <1>1, SameTree DEF Untouched, system

(***************************************************************************)
(* What the steps do to the calls and the lines.                           *)
(***************************************************************************)
LEMMA PrintLineDoes ==
    ASSUME TreeAssumption, Typed, PrintLine
    PROVE  \E nm \in Top.todo :
               /\ at' = nm
               /\ Len(stack') = Len(stack)
               /\ \A i \in 1 .. Len(stack) :
                      /\ stack'[i].dir = stack[i].dir
                      /\ stack'[i].todo = IF i = Len(stack) THEN stack[i].todo \ {nm}
                                          ELSE stack[i].todo
               /\ Len(lines') = Len(lines) + 1
               /\ lines'[Len(lines) + 1] = [nodes |-> {n \in Entries(cwd) : name[n] = nm},
                                            ident |-> Len(stack) - 1]
               /\ \A i \in 1 .. Len(lines) : lines'[i] = lines[i]
<1> PICK nm \in Top.todo :
        /\ at' = nm
        /\ stack' = [stack EXCEPT ![Len(stack)].todo = @ \ {nm}]
        /\ lines' = Append(lines, [nodes |-> {n \in Entries(cwd) : name[n] = nm},
                                  ident |-> ident])
  BY DEF PrintLine
<1>2. /\ Len(stack') = Len(stack)
      /\ \A i \in 1 .. Len(stack) :
             /\ stack'[i].dir = stack[i].dir
             /\ stack'[i].todo = IF i = Len(stack) THEN stack[i].todo \ {nm}
                                 ELSE stack[i].todo
  BY PrintLineCalls
<1>3. lines \in Seq([nodes : SUBSET Node, ident : 0 .. MaxDepth])
  BY DEF Typed, Calls
<1>4. /\ Len(lines') = Len(lines) + 1
      /\ lines'[Len(lines) + 1] = [nodes |-> {n \in Entries(cwd) : name[n] = nm},
                                   ident |-> Len(stack) - 1]
      /\ \A i \in 1 .. Len(lines) : lines'[i] = lines[i]
  BY <1>3 DEF ident
<1> QED
  BY <1>2, <1>4

LEMMA ScanDirDoes ==
    ASSUME TreeAssumption, Typed, ScanDir, Len(stack) <= MaxDepth
    PROVE  /\ Len(stack') = Len(stack) + 1
           /\ stack'[Len(stack) + 1] =
                  [dir |-> cwd, todo |-> IF cwd \in unreadable THEN {}
                                         ELSE {name[n] : n \in Entries(cwd)}]
           /\ \A i \in 1 .. Len(stack) : stack'[i] = stack[i]
           /\ pc' = "entries" /\ UNCHANGED status
<1>1. stack \in Seq(Frame) /\ Len(stack) \in Nat \ {0} /\ MaxDepth \in Nat
  BY TopIsFrame DEF Typed, Calls, TreeAssumption
<1> DEFINE f == [dir |-> cwd, todo |-> IF cwd \in unreadable THEN {}
                                       ELSE {name[n] : n \in Entries(cwd)}]
<1>2. stack' = Append(stack, f) /\ pc' = "entries" /\ UNCHANGED status
  BY <1>1 DEF ScanDir
<1>3. /\ Len(stack') = Len(stack) + 1 /\ stack'[Len(stack) + 1] = f
      /\ \A i \in 1 .. Len(stack) : stack'[i] = stack[i]
  <2> HIDE DEF f
  <2> QED
    BY <1>1, <1>2
<1> QED
  BY <1>2, <1>3

LEMMA ReturnDoes ==
    ASSUME TreeAssumption, Typed, Return, Len(stack) # 1
    PROVE  /\ Len(stack) \in Nat /\ Len(stack) > 1
           /\ Len(stack') = Len(stack) - 1
           /\ \A i \in 1 .. Len(stack) - 1 : stack'[i] = stack[i]
           /\ UNCHANGED status
<1>1. stack \in Seq(Frame) /\ Len(stack) \in Nat \ {0}
  BY TopIsFrame DEF Typed, Calls
<1>2. stack' = SubSeq(stack, 1, Len(stack) - 1) /\ UNCHANGED status
  BY DEF Return
<1>3. Len(stack') = Len(stack) - 1 /\ \A i \in 1 .. Len(stack) - 1 : stack'[i] = stack[i]
  BY <1>1, <1>2, Returned
<1> QED
  BY <1>1, <1>2, <1>3

LEMMA EnterDoes ==
    ASSUME TreeAssumption, All, ChDir, Quiet'
    PROVE  /\ Quiet /\ pc' = "scan" /\ UNCHANGED status
           /\ up[cwd'] = Top.dir /\ cwd' \in Node /\ cwd' \in Dirs
           /\ cwd' \in Found
<1>1. Quiet /\ UNCHANGED system
  <2>1. Next
    BY DEF Next, print_file
  <2> QED
    BY <2>1, QuietBefore DEF All
<1>2. cwd = Top.dir /\ cwd \in Dirs
  BY <1>1, TopIsFrame DEF All, OnPath, Descent, Quiet, ChDir, At, Top
<1>3. HasPath
  BY <1>1, <1>2 DEF All, Untouched, Quiet, HasPath, Dirs
<1>4. pc' = "scan" /\ UNCHANGED status /\ up[cwd'] = cwd
  BY <1>1, <1>3 DEF ChDir, Quiet, system
<1>5. cwd' # cwd
  BY <1>1, <1>2, <1>4 DEF All, Untouched, Quiet, IsTree, Descent, Dirs, TreeAssumption
<1>6. cwd' \in Found /\ Found \cap Dirs # {}
  BY <1>3, <1>5 DEF ChDir
<1>7. cwd' \in Dirs
  BY <1>6, FoundIsOne DEF All
<1>8. cwd' # Root
  BY <1>2, <1>4 DEF All, Descent, Dirs, TreeAssumption
<1> QED
  BY <1>1, <1>2, <1>4, <1>6, <1>7, <1>8 DEF Dirs

LEMMA NextDescent ==
    ASSUME TreeAssumption, All, [Next]_vars
    PROVE  Descent'
<1> USE DEF All
<1>0. Len(stack) \in Nat \ {0} /\ MaxDepth \in Nat
  BY TopIsFrame DEF TreeAssumption
<1>1. stack'[1].dir = Root
  <2>1. CASE PrintLine
    <3>1. \A i \in 1 .. Len(stack) : stack'[i].dir = stack[i].dir
      BY <2>1, PrintLineDoes
    <3> QED
      BY <1>0, <3>1 DEF Descent
  <2>2. CASE ScanDir
    BY <2>2, <1>0, ScanDirDoes DEF ScanDir, Descent
  <2>3. CASE Return
    BY <2>3, <1>0, ReturnDoes DEF Return, Descent
  <2>4. CASE UNCHANGED stack
    BY <2>4 DEF Descent
  <2> QED
    BY <2>1, <2>2, <2>3, <2>4 DEF Next, print_file, get_mode, ChDir, Disturb, Remove, Move,
                                  Change, vars
<1>2. up'[Root] = Outside
  <2>1. CASE UNCHANGED up
    BY <2>1 DEF Descent
  <2>2. ASSUME NEW n \in Node, NEW d \in Node \cup {Root}, Move(n, d)
        PROVE  up'[Root] = Outside
    BY <2>2 DEF Move, Descent, TreeAssumption, Typed, Tree, Place
  <2> QED
    BY <2>1, <2>2 DEF Next, print_file, PrintLine, get_mode, ChDir, ScanDir, Return,
                      Disturb, Remove, vars, system
<1>3. ASSUME Quiet'
      PROVE  /\ \A i \in 1 .. Len(stack') :
                    /\ stack'[i].dir \in Dirs'
                    /\ stack'[i].todo \subseteq {name[n] : n \in Entries(stack[i].dir)'}
                    /\ i > 1 => /\ stack'[i].dir \in Node
                                /\ Depth'[stack'[i].dir] = i - 2
             /\ pc' = "scan" => /\ cwd' \in Node /\ cwd' \in Dirs'
                                /\ Depth'[cwd'] = Len(stack') - 1
  <2>1. Quiet /\ UNCHANGED system /\ (print_file \/ UNCHANGED vars)
    BY <1>3, QuietBefore
  <2>2. /\ Dirs' = Dirs /\ Depth' = Depth
        /\ \A d : Entries(d)' = Entries(d)
    BY <2>1, SameTree
  <2>3. /\ \A i \in 1 .. Len(stack) :
               /\ stack[i].dir \in Dirs
               /\ stack[i].todo \subseteq {name[n] : n \in Entries(stack[i].dir)}
               /\ i > 1 => /\ stack[i].dir \in Node
                           /\ Depth[stack[i].dir] = i - 2
        /\ pc = "scan" => /\ cwd \in Node /\ cwd \in Dirs
                          /\ Depth[cwd] = Len(stack) - 1
    BY <2>1 DEF Descent
  <2>4. \A i : Entries(stack[i].dir)' = Entries(stack'[i].dir)
    BY <2>1 DEF Entries, system
  <2>5. SUFFICES
            /\ \A i \in 1 .. Len(stack') :
                   /\ stack'[i].dir \in Dirs
                   /\ stack'[i].todo \subseteq {name[n] : n \in Entries(stack'[i].dir)}
                   /\ i > 1 => /\ stack'[i].dir \in Node
                               /\ Depth[stack'[i].dir] = i - 2
            /\ pc' = "scan" => /\ cwd' \in Node /\ cwd' \in Dirs
                               /\ Depth[cwd'] = Len(stack') - 1
    BY <2>2, <2>4
  <2>6. CASE PrintLine
    BY <2>3, <2>6, PrintLineDoes DEF PrintLine
  <2>7. CASE get_mode
    BY <2>3, <2>7 DEF get_mode, At
  <2>8. CASE ChDir
    <3>1. pc' = "scan" /\ up[cwd'] = Top.dir /\ cwd' \in Node /\ cwd' \in Dirs
      BY <1>3, <2>8, EnterDoes
    <3>2. IsTree
      BY <2>1 DEF Untouched, Quiet
    <3>3. Depth[cwd'] = IF Top.dir = Root THEN 0 ELSE Depth[Top.dir] + 1
      BY <3>1, <3>2, DepthProperties
    <3>4. Depth[cwd'] = Len(stack) - 1
      <4>1. CASE Len(stack) = 1
        BY <3>3, <4>1 DEF Descent, Top
      <4>2. CASE Len(stack) > 1
        <5>1. Top.dir \in Node /\ Depth[Top.dir] = Len(stack) - 2
          BY <1>0, <2>3, <4>2 DEF Top
        <5>2. Top.dir # Root
          BY <5>1 DEF TreeAssumption
        <5> QED
          BY <1>0, <3>3, <5>1, <5>2
      <4> QED
        BY <1>0, <4>1, <4>2
    <3> QED
      BY <2>3, <2>8, <3>1, <3>4 DEF ChDir
  <2>9. CASE ScanDir
    <3>1. CASE UNCHANGED <<stack, pc>>
      BY <2>3, <2>9, <3>1 DEF ScanDir
    <3>2. CASE Len(stack) <= MaxDepth
      <4>1. cwd \in Node /\ cwd \in Dirs /\ Depth[cwd] = Len(stack) - 1
        BY <2>3, <2>9 DEF ScanDir, At
      <4>2. /\ Len(stack') = Len(stack) + 1 /\ pc' = "entries"
            /\ stack'[Len(stack) + 1].dir = cwd
            /\ stack'[Len(stack) + 1].todo \subseteq {name[n] : n \in Entries(cwd)}
            /\ \A i \in 1 .. Len(stack) : stack'[i] = stack[i]
        BY <2>9, <3>2, ScanDirDoes
      <4>3. \A i \in 1 .. Len(stack') : i \in 1 .. Len(stack) \/ i = Len(stack) + 1
        BY <1>0, <4>2
      <4> QED
        BY <1>0, <2>3, <4>1, <4>2, <4>3
    <3> QED
      BY <1>0, <2>9, <3>1, <3>2 DEF ScanDir
  <2>10. CASE Return
    <3>1. CASE Len(stack) = 1
      BY <2>3, <2>10, <3>1 DEF Return, At
    <3>2. CASE Len(stack) # 1
      BY <2>3, <2>10, <3>2, ReturnDoes DEF Return, At
    <3> QED
      BY <3>1, <3>2
  <2>11. CASE UNCHANGED vars
    BY <2>3, <2>11 DEF vars
  <2> QED
    BY <2>1, <2>6, <2>7, <2>8, <2>9, <2>10, <2>11 DEF print_file
<1> HIDE DEF All
<1> QED
  BY <1>1, <1>2, <1>3 DEF Descent

\* No directory on the way to the one that is listed is closed.
LEMMA NamedAreInSight ==
    ASSUME TreeAssumption, All, Quiet, cwd = Top.dir, NEW n \in Named
    PROVE  n \notin Hidden
<1> DEFINE P == {n} \cup {stack[i].dir : i \in 1 .. Len(stack)}
           S == Node \ P
<1>1. Len(stack) \in Nat \ {0} /\ n \in Node /\ up[n] = stack[Len(stack)].dir
  BY TopIsFrame DEF All, Typed, Tree, Named, Entries, Top
<1>2. \A d \in P \ {n} : d \notin closed
  BY DEF All, Entered
<1>3. ASSUME NEW m \in P, m \in Node
      PROVE  up[m] \in {stack[i].dir : i \in 1 .. Len(stack)}
  <2>1. CASE m = n
    BY <1>1, <2>1
  <2>2. CASE m # n
    <3>1. PICK i \in 1 .. Len(stack) : m = stack[i].dir
      BY <2>2
    <3>2. i # 1
      BY <1>3, <3>1 DEF All, Descent, TreeAssumption
    <3>3. i - 1 \in 1 .. Len(stack) - 1 /\ i - 1 + 1 = i /\ i - 1 \in 1 .. Len(stack)
      BY <1>1, <3>2
    <3>4. up[m] = stack[i - 1].dir
      BY <3>1, <3>3 DEF All, OnPath, Path, Quiet
    <3> QED
      BY <3>3, <3>4
  <2> QED
    BY <2>1, <2>2
<1>4. ASSUME NEW m \in Node, up[m] \in closed \cup S
      PROVE  m \in S
  <2>1. ASSUME m \in P
        PROVE  FALSE
    <3>1. PICK i \in 1 .. Len(stack) : up[m] = stack[i].dir
      BY <1>3, <2>1
    <3> QED
      BY <1>4, <3>1 DEF All, Entered
  <2> QED
    BY <2>1
<1>5. S \in SUBSET Node /\ n \notin S
  OBVIOUS
<1> HIDE DEF S
<1> QED
  BY <1>4, <1>5 DEF Hidden

\* Where all is as at the start and the names are those of entries, the one
\* that is looked at has a node.
LEMMA NextFailures ==
    ASSUME TreeAssumption, All, [Next]_vars
    PROVE  Failures'
<1> USE DEF All
<1>1. Quiet' => Quiet /\ UNCHANGED system /\ (print_file \/ UNCHANGED vars)
  BY QuietBefore
<1>2. Quiet' => Links' = Links /\ Reachable' = Reachable /\ \A d : Entries(d)' = Entries(d)
  BY <1>1, SameTree
<1>3. ASSUME Quiet', pc' \in {"stat", "chdir"}
      PROVE  Named' # {}
  <2>1. Named' = {n \in Entries(cwd') : name[n] = at'}
    BY <1>1, <1>3 DEF Named, Entries, system
  <2>2. CASE PrintLine
    <3>1. cwd = Top.dir /\ cwd' = cwd
      BY <1>1, <1>3, <2>2 DEF PrintLine, At, OnPath, Quiet
    <3>2. at' \in Top.todo
      BY <2>2 DEF PrintLine
    <3>3. Top.todo \subseteq {name[n] : n \in Entries(Top.dir)}
      BY <1>1, <1>3, TopIsFrame DEF Descent, Top
    <3> QED
      BY <2>1, <3>1, <3>2, <3>3
  <2>3. CASE pc \in {"stat", "chdir"} /\ UNCHANGED <<cwd, at>>
    BY <1>1, <1>3, <2>1, <2>3 DEF Failures, Named
  <2> QED
    BY <1>1, <1>3, <2>2, <2>3 DEF print_file, get_mode, ChDir, ScanDir, Return, At, vars
<1>4. ASSUME status' = "exit", Quiet'
      PROVE  \E n \in Links' : target'[n] \notin Reachable'
  <2>1. CASE status = "exit"
    BY <1>1, <1>2, <1>4, <2>1 DEF Failures, system
  <2>2. CASE get_mode /\ Found = {}
    <3>1. PICK n : n \in Named
      BY <1>1, <1>4, <2>2 DEF get_mode, At, Failures
    <3>2. n \in present
      BY <3>1 DEF Named, Entries
    <3>3. n \notin Hidden
      <4>1. cwd = Top.dir
        BY <1>1, <1>4, <2>2 DEF get_mode, At, OnPath, Quiet
      <4> QED
        BY <1>1, <1>4, <3>1, <4>1, NamedAreInSight
    <3>4. n \in Links /\ target[n] \notin Reachable
      BY <2>2, <3>1, <3>2, <3>3 DEF Found, Reachable, There
    <3> QED
      BY <1>1, <1>2, <1>4, <3>4 DEF system
  <2> QED
    BY <1>1, <1>4, <2>1, <2>2 DEF print_file, PrintLine, get_mode, ChDir, ScanDir, Return, At, vars
<1>5. ASSUME status' = "crash", Quiet'
      PROVE  FALSE
  <2>1. status # "crash"
    BY <1>1, <1>5 DEF Failures
  <2>2. Len(stack) \in Nat \ {0} /\ MaxDepth \in Nat
    BY TopIsFrame DEF TreeAssumption
  <2>3. CASE get_mode
    <3>1. cwd \in Dirs
      BY <1>1, <1>5, <2>2, <2>3 DEF get_mode, At, OnPath, Descent, Quiet, Top
    <3>2. HasPath
      BY <1>1, <1>5, <3>1 DEF Untouched, Quiet, HasPath, Dirs
    <3> QED
      BY <1>5, <2>1, <2>3, <3>2 DEF get_mode
  <2>4. CASE ChDir
    BY <1>5, <2>1, <2>4, EnterDoes
  <2>5. CASE ScanDir
    <3>1. cwd \in Node /\ Depth[cwd] = Len(stack) - 1
      BY <1>1, <1>5, <2>5 DEF ScanDir, At, Descent
    <3>2. IsTree
      BY <1>1, <1>5 DEF Untouched, Quiet
    <3>3. /\ Depth \in [Node -> 0 .. Cardinality(Node)] /\ Cardinality(Node) \in Nat
      BY <3>2, DepthProperties
    <3>4. Len(stack) <= MaxDepth
      BY <2>2, <3>1, <3>3 DEF TreeAssumption
    <3> QED
      BY <1>5, <2>1, <2>5, <3>4, ScanDirDoes
  <2> QED
    BY <1>1, <1>5, <2>1, <2>3, <2>4, <2>5 DEF print_file, PrintLine, Return, vars
<1>6. ASSUME status' = "done"
      PROVE  pc' = "entries" /\ Len(stack') = 1 /\ Top'.todo = {}
  <2>1. CASE Return
    <3>1. Len(stack) = 1 \/ status' = "running"
      BY <2>1 DEF Return, At
    <3> QED
      BY <1>6, <2>1, <3>1 DEF Return, At, Top
  <2>2. CASE status = "done"
    BY <2>2 DEF Next, print_file, PrintLine, get_mode, ChDir, ScanDir, Return, At,
                Disturb, Remove, Move, Change, Failures, vars, Top
  <2> QED
    BY <1>6, <2>1, <2>2 DEF Next, print_file, PrintLine, get_mode, ChDir, ScanDir, At,
                            Disturb, Remove, Move, Change, vars
<1> HIDE DEF All
<1> QED
  BY <1>3, <1>4, <1>5, <1>6 DEF Failures

LEMMA DirsDiffer ==
    ASSUME TreeAssumption, All, Quiet
    PROVE  /\ \A i, j \in 1 .. Len(stack) : stack[i].dir = stack[j].dir => i = j
           /\ pc = "scan" => \A i \in 1 .. Len(stack) : stack[i].dir # cwd
<1>1. Root \notin Node /\ Len(stack) \in Nat \ {0}
  BY TopIsFrame DEF TreeAssumption, All
<1>2. /\ stack[1].dir = Root
      /\ \A i \in 1 .. Len(stack) : i > 1 => stack[i].dir \in Node /\ Depth[stack[i].dir] = i - 2
      /\ pc = "scan" => cwd \in Node /\ Depth[cwd] = Len(stack) - 1
  BY DEF All, Descent
<1> QED
  BY <1>1, <1>2

\* The nodes have their depths, which those of a directory share.
LEMMA DepthOfEntry ==
    ASSUME TreeAssumption, All, Quiet, NEW n \in Node, NEW k \in 1 .. Len(stack),
           up[n] = stack[k].dir
    PROVE  Depth[n] = k - 1
<1>1. Root \notin Node /\ Len(stack) \in Nat \ {0}
  BY TopIsFrame DEF TreeAssumption, All
<1>2. /\ stack[1].dir = Root
      /\ \A i \in 1 .. Len(stack) : i > 1 => stack[i].dir \in Node /\ Depth[stack[i].dir] = i - 2
  BY DEF All, Descent
<1>3. Depth[n] = IF up[n] = Root THEN 0 ELSE Depth[up[n]] + 1
  BY DepthProperties DEF All, Untouched, Quiet
<1> QED
  BY <1>1, <1>2, <1>3

LEMMA LinesTyped ==
    ASSUME Typed
    PROVE  Len(lines) \in Nat /\ DOMAIN lines = 1 .. Len(lines)
<1>1. lines \in Seq([nodes : SUBSET Node, ident : 0 .. MaxDepth])
  BY DEF Typed, Calls
<1> QED
  BY <1>1

(***************************************************************************)
(* The lines.                                                              *)
(***************************************************************************)
Listed == LinesAreNodes /\ Coverage /\ Headings

\* The node whose name comes next, which is in the working directory and has
\* not been printed.
LEMMA NextNode ==
    ASSUME TreeAssumption, All, Plain, Listed, pc = "entries", NEW nm \in Top.todo
    PROVE  \E n \in Node : /\ {m \in Entries(cwd) : name[m] = nm} = {n}
                           /\ name[n] = nm
                           /\ up[n] = stack[Len(stack)].dir
                           /\ Depth[n] = Len(stack) - 1
                           /\ ~Printed(lines, n)
<1>1. Len(stack) \in 1 .. Len(stack)
  BY TopIsFrame DEF All
<1>2. Quiet /\ cwd = Top.dir
  BY DEF All, OnPath, Plain, Quiet
<1>3. nm \in {name[n] : n \in Entries(cwd)}
  BY <1>1, <1>2 DEF All, Descent, Top
<1>4. PICK n \in Entries(cwd) : name[n] = nm
  BY <1>3
<1>5. n \in Node /\ up[n] = stack[Len(stack)].dir
  BY <1>2, <1>4 DEF Entries, Top, All, Typed, Tree
<1>6. {m \in Entries(cwd) : name[m] = nm} = {n}
  BY <1>4 DEF Entries, All, Typed, Tree
<1>7. ~Printed(lines, n)
  BY <1>1, <1>4, <1>5 DEF Listed, Coverage, Top
<1>8. Depth[n] = Len(stack) - 1
  BY <1>1, <1>2, <1>5, DepthOfEntry
<1> QED
  BY <1>4, <1>5, <1>6, <1>7, <1>8

LEMMA PrintLineListed ==
    ASSUME TreeAssumption, All, Plain, Listed, PrintLine
    PROVE  Listed'
<1>1. /\ Len(lines) \in Nat /\ DOMAIN lines = 1 .. Len(lines)
      /\ Len(lines') \in Nat /\ DOMAIN lines' = 1 .. Len(lines')
      /\ Len(stack) \in Nat \ {0}
  <2>1. Typed'
    BY PrintLineTyped DEF All
  <2> QED
    BY <2>1, LinesTyped, TopIsFrame DEF All
<1>2. PICK nm \in Top.todo :
          /\ at' = nm
          /\ Len(stack') = Len(stack)
          /\ \A i \in 1 .. Len(stack) :
                 /\ stack'[i].dir = stack[i].dir
                 /\ stack'[i].todo = IF i = Len(stack) THEN stack[i].todo \ {nm}
                                     ELSE stack[i].todo
          /\ Len(lines') = Len(lines) + 1
          /\ lines'[Len(lines) + 1] = [nodes |-> {n \in Entries(cwd) : name[n] = nm},
                                       ident |-> Len(stack) - 1]
          /\ \A i \in 1 .. Len(lines) : lines'[i] = lines[i]
  BY PrintLineDoes DEF All
<1>3. pc = "entries" /\ pc' = "stat" /\ UNCHANGED system /\ UNCHANGED cwd
  BY DEF PrintLine, At
<1>4. PICK c \in Node : /\ {m \in Entries(cwd) : name[m] = nm} = {c}
                        /\ name[c] = nm
                        /\ up[c] = stack[Len(stack)].dir
                        /\ Depth[c] = Len(stack) - 1
                        /\ ~Printed(lines, c)
  BY <1>3, NextNode
<1>5. lines'[Len(lines) + 1] = [nodes |-> {c}, ident |-> Depth[c]]
  BY <1>2, <1>4
<1>6. Current = {} /\ Current' = {c}
  <2>1. Named' = {m \in Entries(cwd) : name[m] = nm}
    BY <1>2, <1>3 DEF Named, Entries, system
  <2> QED
    BY <1>3, <1>4, <2>1 DEF Current
<1>7. \A i \in DOMAIN lines' : i \in DOMAIN lines \/ i = Len(lines) + 1
  BY <1>1, <1>2
<1>8. \A n : Printed(lines', n) <=> Printed(lines, n) \/ n = c
  <2>1. \A i \in DOMAIN lines : i \in DOMAIN lines' /\ lines'[i] = lines[i]
    BY <1>1, <1>2
  <2>2. Len(lines) + 1 \in DOMAIN lines' /\ lines'[Len(lines) + 1].nodes = {c}
    BY <1>1, <1>2, <1>5
  <2>3. TAKE n
  <2>4. ASSUME Printed(lines', n)
        PROVE  Printed(lines, n) \/ n = c
    <3>1. PICK i \in DOMAIN lines' : lines'[i].nodes = {n}
      BY <2>4 DEF Printed
    <3>2. CASE i \in DOMAIN lines
      BY <2>1, <3>1, <3>2 DEF Printed
    <3>3. CASE i = Len(lines) + 1
      BY <2>2, <3>1, <3>3
    <3> QED
      BY <1>7, <3>2, <3>3
  <2> QED
    BY <2>1, <2>2, <2>4 DEF Printed
<1>9. Depth' = Depth /\ up' = up
  BY <1>3, SameTree DEF system
<1>10. LinesAreNodes'
  <2>1. \A i \in DOMAIN lines' : \E n \in Node : lines'[i] = [nodes |-> {n}, ident |-> Depth[n]]
    BY <1>1, <1>2, <1>5, <1>7 DEF Listed, LinesAreNodes
  <2>2. \A i \in DOMAIN lines : lines[i].nodes # {c}
    BY <1>4 DEF Printed
  <2>3. \A i, j \in DOMAIN lines' : lines'[i].nodes = lines'[j].nodes => i = j
    BY <1>1, <1>2, <1>5, <1>7, <2>2 DEF Listed, LinesAreNodes
  <2>4. lines' # <<>> /\ lines'[Len(lines')].nodes = Current'
    BY <1>1, <1>2, <1>5, <1>6
  <2> QED
    BY <1>9, <2>1, <2>3, <2>4 DEF LinesAreNodes
<1>11. Coverage'
  <2>1. SUFFICES ASSUME NEW n \in Node
                 PROVE  /\ \A k \in 1 .. Len(stack) :
                               up[n] = stack[k].dir =>
                                   (Printed(lines', n) <=> name[n] \notin stack'[k].todo)
                        /\ (\A k \in 1 .. Len(stack) : up[n] # stack[k].dir) =>
                               (Printed(lines', n) <=> Printed(lines', up[n]) /\ up[n] \notin Current')
    BY <1>2, <1>9, <2>1 DEF Coverage
  <2>2. ASSUME NEW k \in 1 .. Len(stack), up[n] = stack[k].dir
        PROVE  Printed(lines', n) <=> name[n] \notin stack'[k].todo
    <3>1. Printed(lines, n) <=> name[n] \notin stack[k].todo
      BY <2>2 DEF Listed, Coverage
    <3>2. CASE k = Len(stack)
      <4>1. name[n] = nm <=> n = c
        <5>1. cwd = stack[Len(stack)].dir /\ present = Node
          BY <1>3 DEF All, OnPath, Untouched, Plain, Quiet, Top
        <5> QED
          BY <1>4, <2>2, <3>2, <5>1 DEF Entries
      <4> QED
        BY <1>2, <1>8, <3>1, <3>2, <4>1
    <3>3. CASE k # Len(stack)
      <4>1. n # c
        BY <1>1, <1>4, <2>2, <3>3, DirsDiffer DEF Plain
      <4> QED
        BY <1>2, <1>8, <3>1, <3>3, <4>1
    <3> QED
      BY <3>2, <3>3
  <2>3. ASSUME \A k \in 1 .. Len(stack) : up[n] # stack[k].dir
        PROVE  Printed(lines', n) <=> Printed(lines', up[n]) /\ up[n] \notin Current'
    <3>1. Printed(lines, n) <=> Printed(lines, up[n])
      BY <1>6, <2>3 DEF Listed, Coverage
    <3>2. n # c
      BY <1>1, <1>4, <2>3
    <3> QED
      BY <1>4, <1>6, <1>8, <3>1, <3>2
  <2> QED
    BY <2>2, <2>3
<1>12. Headings'
  <2>1. \A j, n, i, margin :
            i \in 0 .. Len(lines) /\ j \in 1 .. Len(lines) /\ Heads(lines, j, n, i, margin)
            => Heads(lines', j, n, i, margin)
    BY <1>1, <1>2 DEF Heads
  <2>2. ASSUME NEW k \in 2 .. Len(stack')
        PROVE  \E j \in DOMAIN lines' : Heads(lines', j, stack'[k].dir, Len(lines'), k - 1)
    <3>1. PICK j \in DOMAIN lines : Heads(lines, j, stack[k].dir, Len(lines), k - 1)
      BY <1>2, <2>2 DEF Listed, Headings
    <3>2. k \in 1 .. Len(stack) /\ k - 1 <= Len(stack) - 1
      BY <1>1, <1>2, <2>2
    <3>3. /\ lines'[j].nodes = {stack'[k].dir}
          /\ \A m \in j + 1 .. Len(lines') : lines'[m].ident >= k - 1
      <4>1. lines'[j].nodes = {stack'[k].dir}
        BY <1>1, <1>2, <3>1, <3>2 DEF Heads
      <4>2. ASSUME NEW m \in j + 1 .. Len(lines')
            PROVE  lines'[m].ident >= k - 1
        <5>1. CASE m = Len(lines) + 1
          BY <1>1, <1>2, <3>2, <5>1
        <5>2. CASE m # Len(lines) + 1
          <6>1. m \in j + 1 .. Len(lines) /\ m \in 1 .. Len(lines)
            BY <1>1, <1>2, <3>1, <4>2, <5>2
          <6> QED
            BY <1>2, <3>1, <6>1 DEF Heads
        <5> QED
          BY <5>1, <5>2
      <4> QED
        BY <4>1, <4>2
    <3>4. j \in DOMAIN lines'
      BY <1>1, <1>2, <3>1
    <3> QED
      BY <3>3, <3>4 DEF Heads
  <2>3. ASSUME NEW i \in DOMAIN lines', NEW n \in Node,
               lines'[i].nodes = {n}, up[n] # Root
        PROVE  \E j \in 1 .. i - 1 : Heads(lines', j, up[n], i - 1, lines'[i].ident)
    <3>1. CASE i \in DOMAIN lines
      <4>1. PICK j \in 1 .. i - 1 : Heads(lines, j, up[n], i - 1, lines[i].ident)
        BY <1>1, <1>2, <2>3, <3>1 DEF Listed, Headings
      <4>2. i \in Nat /\ i <= Len(lines) /\ lines'[i] = lines[i]
        BY <1>1, <1>2, <3>1
      <4>3. j \in 1 .. Len(lines) /\ i - 1 \in 0 .. Len(lines)
        BY <1>1, <4>2
      <4>4. Heads(lines', j, up[n], i - 1, lines'[i].ident)
        BY <2>1, <4>1, <4>2, <4>3
      <4> QED
        BY <4>4
    <3>2. CASE i = Len(lines) + 1
      <4>1. n = c
        <5>1. lines'[i].nodes = {c}
          BY <1>5, <3>2
        <5>2. {n} = {c}
          BY <2>3, <5>1
        <5> QED
          BY <5>2
      <4>2. Len(stack) \in 2 .. Len(stack)
        BY <1>1, <1>4, <2>3, <4>1 DEF All, Descent
      <4>3. PICK j \in DOMAIN lines : Heads(lines, j, stack[Len(stack)].dir, Len(lines), Len(stack) - 1)
        BY <4>2 DEF Listed, Headings
      <4>4. lines'[i].ident = Len(stack) - 1 /\ i - 1 = Len(lines) /\ up[n] = stack[Len(stack)].dir
        <5>1. lines'[i].ident = Len(stack) - 1
          BY <1>4, <1>5, <3>2
        <5> QED
          BY <1>1, <1>4, <3>2, <4>1, <5>1
      <4>5. j \in 1 .. Len(lines) /\ Len(lines) \in 0 .. Len(lines)
        BY <1>1
      <4>6. Heads(lines', j, up[n], i - 1, lines'[i].ident)
        BY <2>1, <4>3, <4>4, <4>5
      <4> QED
        BY <4>4, <4>5, <4>6
    <3> QED
      BY <1>7, <3>1, <3>2
  <2> QED
    BY <1>9, <2>2, <2>3 DEF Headings, Heads
<1> QED
  BY <1>10, <1>11, <1>12 DEF Listed

\* What has no directory has no entries.
LEMMA get_modeListed ==
    ASSUME TreeAssumption, All, Plain, Listed, get_mode
    PROVE  Listed'
<1>1. UNCHANGED <<system, cwd, stack, at, lines>> /\ pc = "stat"
  BY DEF get_mode, At
<1>2. Named' = Named /\ Depth' = Depth
  BY <1>1, SameTree DEF Named, Entries, system
<1>3. CASE pc' = "entries" /\ ~(Found \subseteq Dirs)
  <2>1. \A n \in Node : up[n] \notin Current
    <3>1. Found \subseteq Named
      BY DEF Found, Plain
    <3>2. \A n \in Named : n \notin Dirs
      BY <1>3, <3>1, NamedIsOne DEF All
    <3> QED
      BY <1>1, <3>2 DEF Current, All, Typed, Tree
  <2>2. Current' = {}
    BY <1>3 DEF Current
  <2>3. Coverage'
    BY <1>1, <2>1, <2>2 DEF Listed, Coverage, system
  <2>4. LinesAreNodes'
    BY <1>1, <1>2, <1>3 DEF Listed, LinesAreNodes
  <2> QED
    BY <1>1, <2>3, <2>4 DEF Listed, Headings, system
<1>4. CASE pc' \in {"stat", "chdir"}
  <2>1. Current' = Current
    BY <1>1, <1>2, <1>4 DEF Current
  <2> QED
    BY <1>1, <1>2, <1>4, <2>1 DEF Listed, LinesAreNodes, Coverage, Headings, system
<1> QED
  BY <1>1, <1>3, <1>4 DEF get_mode

\* The directory that is entered is the node that was found.
LEMMA ChDirListed ==
    ASSUME TreeAssumption, All, Plain, Plain', Listed, ChDir
    PROVE  Listed'
<1>1. UNCHANGED <<system, stack, at, lines>> /\ pc = "chdir"
  BY DEF ChDir, At
<1>2. pc' = "scan" /\ cwd' \in Found
  BY EnterDoes DEF Plain
<1>3. Named = {cwd'}
  <2>1. Found \subseteq Named
    BY DEF Found, Plain
  <2> QED
    BY <1>2, <2>1, NamedIsOne DEF All
<1>4. Current' = Current
  BY <1>1, <1>2, <1>3 DEF Current
<1>5. Depth' = Depth
  BY <1>1, SameTree
<1> QED
  BY <1>1, <1>2, <1>4, <1>5 DEF Listed, LinesAreNodes, Coverage, Headings, system

LEMMA ScanDirListed ==
    ASSUME TreeAssumption, All, Plain, Plain', Listed, ScanDir
    PROVE  Listed'
<1>1. UNCHANGED <<system, cwd, at, lines>> /\ pc = "scan"
  BY DEF ScanDir, At
<1>2. Depth' = Depth
  BY <1>1, SameTree
<1>3. CASE UNCHANGED <<stack, pc>>
  <2>1. Current' = Current
    BY <1>1, <1>3 DEF Current, Named
  <2> QED
    BY <1>1, <1>2, <1>3, <2>1 DEF Listed, LinesAreNodes, Coverage, Headings, system
<1>4. CASE Len(stack) <= MaxDepth
  <2>1. Len(stack) \in Nat \ {0} /\ Len(lines) \in Nat /\ DOMAIN lines = 1 .. Len(lines)
    BY TopIsFrame, LinesTyped DEF All
  <2>2. /\ Len(stack') = Len(stack) + 1 /\ pc' = "entries"
        /\ stack'[Len(stack) + 1] = [dir |-> cwd, todo |-> {name[n] : n \in Entries(cwd)}]
        /\ \A i \in 1 .. Len(stack) : stack'[i] = stack[i]
    BY <1>4, ScanDirDoes DEF All, Plain
  <2>3. \A i \in 1 .. Len(stack') : i \in 1 .. Len(stack) \/ i = Len(stack) + 1
    BY <2>1, <2>2
  <2>4. Current = {cwd} /\ Current' = {}
    BY <1>1, <2>2 DEF Current
  <2>5. LinesAreNodes'
    BY <1>1, <1>2, <2>2 DEF Listed, LinesAreNodes
  <2>6. Coverage'
    <3>1. SUFFICES ASSUME NEW n \in Node
                   PROVE  /\ \A k \in 1 .. Len(stack') :
                                 up[n] = stack'[k].dir =>
                                     (Printed(lines, n) <=> name[n] \notin stack'[k].todo)
                          /\ (\A k \in 1 .. Len(stack') : up[n] # stack'[k].dir) =>
                                 (Printed(lines, n) <=> Printed(lines, up[n]))
      BY <1>1, <2>4, <3>1 DEF Coverage, system
    <3>2. ASSUME up[n] = cwd
          PROVE  ~Printed(lines, n) /\ name[n] \in {name[m] : m \in Entries(cwd)}
      <4>1. \A k \in 1 .. Len(stack) : up[n] # stack[k].dir
        BY <1>1, <3>2, DirsDiffer DEF Plain
      <4>2. present = Node
        BY DEF All, Untouched, Plain, Quiet
      <4> QED
        BY <2>4, <3>2, <4>1, <4>2 DEF Listed, Coverage, Entries
    <3>3. ASSUME NEW k \in 1 .. Len(stack'), up[n] = stack'[k].dir
          PROVE  Printed(lines, n) <=> name[n] \notin stack'[k].todo
      <4>1. CASE k \in 1 .. Len(stack)
        BY <2>2, <3>3, <4>1 DEF Listed, Coverage
      <4>2. CASE k = Len(stack) + 1
        BY <2>2, <3>2, <3>3, <4>2
      <4> QED
        BY <2>3, <4>1, <4>2
    <3>4. ASSUME \A k \in 1 .. Len(stack') : up[n] # stack'[k].dir
          PROVE  Printed(lines, n) <=> Printed(lines, up[n])
      <4>1. up[n] # cwd
        BY <2>1, <2>2, <3>4
      <4>2. \A k \in 1 .. Len(stack) : up[n] # stack[k].dir
        BY <2>1, <2>2, <3>4
      <4> QED
        BY <2>4, <4>1, <4>2 DEF Listed, Coverage
    <3> QED
      BY <3>3, <3>4
  <2>7. Headings'
    <3>1. ASSUME NEW k \in 2 .. Len(stack')
          PROVE  \E j \in DOMAIN lines : Heads(lines, j, stack'[k].dir, Len(lines), k - 1)
      <4>1. CASE k \in 2 .. Len(stack)
        BY <2>2, <4>1 DEF Listed, Headings
      <4>2. CASE k = Len(stack) + 1
        <5>1. Len(lines) \in DOMAIN lines /\ lines[Len(lines)].nodes = {cwd}
          BY <1>1, <2>1, <2>4 DEF Listed, LinesAreNodes, All, Typed, Calls
        <5> QED
          BY <2>1, <2>2, <4>2, <5>1 DEF Heads
      <4> QED
        BY <2>1, <2>2, <4>1, <4>2
    <3> QED
      BY <1>1, <3>1 DEF Listed, Headings, system
  <2> QED
    BY <2>5, <2>6, <2>7 DEF Listed
<1> QED
  BY <1>3, <1>4, TopIsFrame DEF ScanDir, All, TreeAssumption

\* A directory that is left has been printed, and so have its entries.
LEMMA ReturnListed ==
    ASSUME TreeAssumption, All, Plain, Plain', Listed, Return
    PROVE  Listed'
<1>1. UNCHANGED <<system, pc, at, lines>> /\ pc = "entries"
  BY DEF Return, At
<1>2. Depth' = Depth /\ Current = {} /\ Current' = {}
  BY <1>1, SameTree DEF Current
<1>3. LinesAreNodes'
  BY <1>1, <1>2 DEF Listed, LinesAreNodes
<1>4. CASE UNCHANGED stack
  BY <1>1, <1>2, <1>3, <1>4 DEF Listed, Coverage, Headings, system
<1>5. CASE Len(stack) # 1
  <2>1. /\ Len(stack) \in Nat /\ Len(stack) > 1
        /\ Len(stack') = Len(stack) - 1
        /\ \A i \in 1 .. Len(stack) - 1 : stack'[i] = stack[i]
    BY <1>5, ReturnDoes DEF All
  <2>2. Printed(lines, stack[Len(stack)].dir)
    <3>1. Len(stack) \in 2 .. Len(stack)
      BY <2>1
    <3>2. PICK j \in DOMAIN lines : Heads(lines, j, stack[Len(stack)].dir, Len(lines), Len(stack) - 1)
      BY <3>1 DEF Listed, Headings
    <3> QED
      BY <3>2 DEF Heads, Printed
  <2>3. Coverage'
    <3>1. SUFFICES ASSUME NEW n \in Node
                   PROVE  /\ \A k \in 1 .. Len(stack') :
                                 up[n] = stack'[k].dir =>
                                     (Printed(lines, n) <=> name[n] \notin stack'[k].todo)
                          /\ (\A k \in 1 .. Len(stack') : up[n] # stack'[k].dir) =>
                                 (Printed(lines, n) <=> Printed(lines, up[n]))
      BY <1>1, <1>2, <3>1 DEF Coverage, system
    <3>2. ASSUME NEW k \in 1 .. Len(stack'), up[n] = stack'[k].dir
          PROVE  Printed(lines, n) <=> name[n] \notin stack'[k].todo
      BY <2>1, <3>2 DEF Listed, Coverage
    <3>3. ASSUME \A k \in 1 .. Len(stack') : up[n] # stack'[k].dir
          PROVE  Printed(lines, n) <=> Printed(lines, up[n])
      <4>1. CASE up[n] = stack[Len(stack)].dir
        BY <2>1, <2>2, <4>1 DEF Return, Top, Listed, Coverage
      <4>2. CASE up[n] # stack[Len(stack)].dir
        <5>1. \A k \in 1 .. Len(stack) : up[n] # stack[k].dir
          BY <2>1, <3>3, <4>2
        <5> QED
          BY <1>2, <5>1 DEF Listed, Coverage
      <4> QED
        BY <4>1, <4>2
    <3> QED
      BY <3>2, <3>3
  <2>4. Headings'
    <3>1. \A k \in 2 .. Len(stack') : k \in 2 .. Len(stack) /\ stack'[k].dir = stack[k].dir
      BY <2>1
    <3>2. \A k \in 2 .. Len(stack') :
              \E j \in DOMAIN lines : Heads(lines, j, stack'[k].dir, Len(lines), k - 1)
      BY <3>1 DEF Listed, Headings
    <3> QED
      BY <1>1, <3>2 DEF Listed, Headings, system
  <2> QED
    BY <1>3, <2>3, <2>4 DEF Listed
<1> QED
  BY <1>4, <1>5 DEF Return

LEMMA NextListing ==
    ASSUME TreeAssumption, All, [Next]_vars
    PROVE  Listing'
<1> SUFFICES ASSUME Plain'
             PROVE  Listed'
  BY DEF Listing, Listed
<1>1. Quiet /\ UNCHANGED system /\ (print_file \/ UNCHANGED vars)
  BY QuietBefore DEF All, Plain
<1>2. Plain
  BY <1>1, SameTree DEF Plain, system
<1>3. Listed
  BY <1>2 DEF All, Listing, Listed
<1>4. CASE UNCHANGED vars
  <2>1. Depth' = Depth /\ Current' = Current
    BY <1>1, <1>4, SameTree DEF Current, Named, Entries, vars, system
  <2> QED
    BY <1>3, <1>4, <2>1 DEF Listed, LinesAreNodes, Coverage, Headings, vars, system
<1> QED
  BY <1>1, <1>2, <1>3, <1>4, PrintLineListed, get_modeListed, ChDirListed, ScanDirListed,
     ReturnListed DEF print_file

(***************************************************************************)
(* The end.                                                                *)
(***************************************************************************)
LEMMA InitAll == ASSUME TreeAssumption, Init PROVE All
<1>1. Typed /\ OnPath /\ Entered
  BY InitTyped, InitOnPath, InitEntered
<1>2. Untouched
  BY DEF Init, Untouched
<1>3. Root \in Dirs /\ Root \notin Node
  BY DEF Dirs, TreeAssumption
<1>4. Len(stack) = 1 /\ stack[1] = [dir |-> Root, todo |-> {name[n] : n \in Entries(Root)}]
      /\ pc = "entries" /\ lines = <<>> /\ status = "running"
  BY DEF Init
<1>5. Descent
  BY <1>3, <1>4 DEF Descent, Init
<1>6. Failures
  BY <1>4 DEF Failures
<1>7. LinesAreNodes
  BY <1>4 DEF LinesAreNodes
<1>8. Coverage
  <2>1. \A n : ~Printed(lines, n)
    BY <1>4 DEF Printed
  <2>2. \A n \in Node : up[n] = Root => name[n] \in stack[1].todo
    BY <1>4 DEF Init, Entries
  <2> QED
    BY <1>4, <2>1, <2>2 DEF Coverage
<1>9. Headings
  BY <1>4 DEF Headings
<1> QED
  BY <1>1, <1>2, <1>5, <1>6, <1>7, <1>8, <1>9 DEF All, Listing

\* When all calls have returned, a node that is not printed is in one that is
\* not: there is none with the least depth.
LEMMA AllPrinted ==
    ASSUME TreeAssumption, All, Plain, status = "done"
    PROVE  \A n \in Node : Printed(lines, n)
<1>1. /\ Len(stack) = 1 /\ stack[1].dir = Root /\ stack[1].todo = {}
      /\ Current = {}
  BY DEF All, Failures, Descent, Current, Top
<1>2. \A n \in Node : /\ up[n] = Root => Printed(lines, n)
                      /\ up[n] # Root => (Printed(lines, n) <=> Printed(lines, up[n]))
  BY <1>1 DEF All, Listing, Coverage
<1>3. IsTree
  BY DEF All, Untouched, Plain, Quiet
<1>4. /\ Depth \in [Node -> 0 .. Cardinality(Node)] /\ Cardinality(Node) \in Nat
      /\ \A n \in Node : up[n] # Root => Depth[n] = Depth[up[n]] + 1
      /\ \A n \in Node : up[n] # Root => up[n] \in Node
  BY <1>3, DepthProperties DEF IsTree, Dirs
<1> DEFINE Left == {n \in Node : ~Printed(lines, n)}
<1>5. SUFFICES ASSUME Left # {}
               PROVE  FALSE
  OBVIOUS
<1>6. \A n \in Left : Depth[n] \in Nat
  BY <1>4
<1>7. PICK n \in Left : \A m \in Left : ~(Depth[m] < Depth[n])
  <2> HIDE DEF Left
  <2> QED
    BY <1>5, <1>6, LeastNumber
<1>8. up[n] \in Left /\ Depth[n] = Depth[up[n]] + 1
  BY <1>2, <1>4
<1> QED
  BY <1>6, <1>7, <1>8

LEMMA AsManyLines ==
    ASSUME TreeAssumption, All, Plain, status = "done"
    PROVE  Len(lines) = Cardinality(Node)
<1>1. Len(lines) \in Nat /\ DOMAIN lines = 1 .. Len(lines)
  BY LinesTyped DEF All
<1>2. LinesAreNodes
  BY DEF All, Listing
<1> DEFINE f == [i \in 1 .. Len(lines) |-> CHOOSE n \in Node : lines[i].nodes = {n}]
<1>3. \A i \in 1 .. Len(lines) : f[i] \in Node /\ lines[i].nodes = {f[i]}
  BY <1>1, <1>2 DEF LinesAreNodes
<1>4. f \in [1 .. Len(lines) -> Node]
  BY <1>3
<1> HIDE DEF f
<1>5. \A i, j \in 1 .. Len(lines) : f[i] = f[j] => i = j
  <2>1. \A i, j \in 1 .. Len(lines) : f[i] = f[j] => lines[i].nodes = lines[j].nodes
    BY <1>3
  <2> QED
    BY <1>1, <1>2, <2>1 DEF LinesAreNodes
<1>6. \A n \in Node : \E i \in 1 .. Len(lines) : f[i] = n
  <2>1. TAKE n \in Node
  <2>2. PICK i \in 1 .. Len(lines) : lines[i].nodes = {n}
    BY <1>1, AllPrinted DEF Printed
  <2>3. {f[i]} = {n}
    BY <1>3, <2>2
  <2> QED
    BY <2>3
<1>7. f \in Bijection(1 .. Len(lines), Node)
  BY <1>4, <1>5, <1>6, Fun_IsInj, Fun_IsSurj DEF Bijection
<1>8. ExistsBijection(1 .. Len(lines), Node)
  BY <1>7 DEF ExistsBijection
<1> QED
  BY <1>1, <1>8, FS_CountingElements

\* The one line that heads another.
LEMMA HeadingIs ==
    ASSUME TreeAssumption, All, Plain,
           NEW i \in DOMAIN lines, NEW n \in Node,
           lines[i].nodes = {n}, up[n] # Root
    PROVE  lines[HeadingOf(i)].nodes = {up[n]}
<1>1. Len(lines) \in Nat /\ DOMAIN lines = 1 .. Len(lines)
  BY LinesTyped DEF All
<1>2. LinesAreNodes /\ Headings
  BY DEF All, Listing
<1>3. PICK j \in 1 .. i - 1 : Heads(lines, j, up[n], i - 1, lines[i].ident)
  BY <1>2 DEF Headings
<1>4. IsTree
  BY DEF All, Untouched, Plain, Quiet
<1>5. /\ \A m \in Node : Depth[m] \in Nat
      /\ Depth[n] = Depth[up[n]] + 1 /\ up[n] \in Node
  BY <1>4, DepthProperties DEF IsTree, Dirs
<1>6. \A k \in DOMAIN lines : \A m \in Node : lines[k].nodes = {m} => lines[k].ident = Depth[m]
  <2>1. TAKE k \in DOMAIN lines
  <2>2. TAKE m \in Node
  <2>3. PICK l \in Node : lines[k] = [nodes |-> {l}, ident |-> Depth[l]]
    BY <1>2 DEF LinesAreNodes
  <2> QED
    BY <2>3
<1>7. j \in DOMAIN lines /\ lines[j].nodes = {up[n]}
  BY <1>1, <1>3 DEF Heads
<1>8. /\ lines[j].ident < lines[i].ident
      /\ \A k \in j + 1 .. i - 1 : lines[k].ident >= lines[i].ident
  BY <1>3, <1>5, <1>6, <1>7 DEF Heads
<1>9. \A k \in DOMAIN lines : lines[k].ident \in Nat
  BY <1>2, <1>5 DEF LinesAreNodes
<1> DEFINE Heading(h) == /\ lines[h].ident < lines[i].ident
                         /\ \A k \in h + 1 .. i - 1 : lines[k].ident >= lines[i].ident
<1>10. \A h \in 1 .. i - 1 : Heading(h) => h = j
  <2>1. TAKE h \in 1 .. i - 1
  <2>2. HAVE Heading(h)
  <2>3. ~(h < j)
    <3>1. SUFFICES ASSUME h < j
                   PROVE  FALSE
      OBVIOUS
    <3>2. j \in h + 1 .. i - 1
      BY <1>1, <1>3, <3>1
    <3> QED
      BY <1>7, <1>8, <1>9, <2>2, <3>2
  <2>4. ~(j < h)
    <3>1. SUFFICES ASSUME j < h
                   PROVE  FALSE
      OBVIOUS
    <3>2. h \in j + 1 .. i - 1 /\ h \in DOMAIN lines
      BY <1>1, <1>3, <3>1
    <3> QED
      BY <1>8, <1>9, <2>2, <3>2
  <2> QED
    BY <1>1, <2>3, <2>4
<1>11. HeadingOf(i) = j
  <2>1. j \in 1 .. i - 1 /\ Heading(j)
    BY <1>3, <1>8
  <2>2. HeadingOf(i) = CHOOSE h \in 1 .. i - 1 : Heading(h)
    BY DEF HeadingOf
  <2> HIDE DEF Heading
  <2> QED
    BY <1>10, <2>1, <2>2
<1> QED
  BY <1>7, <1>11

LEMMA AllEnds == ASSUME TreeAssumption, All PROVE EndsAsFound
<1>1. ASSUME status = "done", Quiet, Links = {}, unreadable = {}
      PROVE  /\ Len(lines) = Cardinality(Node)
             /\ \A n \in Node : \E i \in DOMAIN lines :
                    /\ lines[i] = [nodes |-> {n}, ident |-> Depth[n]]
                    /\ up[n] # Root => lines[HeadingOf(i)].nodes = {up[n]}
  <2>1. Plain
    BY <1>1 DEF Plain
  <2>2. ASSUME NEW n \in Node
        PROVE  \E i \in DOMAIN lines :
                   /\ lines[i] = [nodes |-> {n}, ident |-> Depth[n]]
                   /\ up[n] # Root => lines[HeadingOf(i)].nodes = {up[n]}
    <3>1. PICK i \in DOMAIN lines : lines[i].nodes = {n}
      BY <1>1, <2>1, AllPrinted DEF Printed
    <3>2. PICK m \in Node : lines[i] = [nodes |-> {m}, ident |-> Depth[m]]
      BY <2>1 DEF All, Listing, LinesAreNodes
    <3>3. m = n
      BY <3>1, <3>2
    <3>4. up[n] # Root => lines[HeadingOf(i)].nodes = {up[n]}
      BY <2>1, <3>1, HeadingIs
    <3> QED
      BY <3>2, <3>3, <3>4
  <2> QED
    BY <1>1, <2>1, <2>2, AsManyLines
<1>2. status = "exit" /\ Quiet => \E n \in Links : target[n] \notin Reachable
  BY DEF All, Failures
<1>3. status = "crash" => ~Quiet
  BY DEF All, Failures
<1> QED
  BY <1>1, <1>2, <1>3 DEF EndsAsFound

\* For every tree and every order of the entries: a listing that comes to its
\* end, of a tree without links and unreadable directories that nobody has
\* changed, has one line for each node, as far to the right as the node is
\* deep, and under the line of its directory.  print_file exits only at a link
\* that leads nowhere or into a directory that may not be entered, after a
\* change or off its way, and crashes only in the latter two cases.
THEOREM ListsAsFound == ASSUME TreeAssumption PROVE Spec => []EndsAsFound
<1>1. Init => All
  BY InitAll
<1>2. All /\ [Next]_vars => All'
  BY NextTyped, NextOnPath, NextEntered, NextUntouched, NextDescent, NextFailures, NextListing DEF All
<1>3. All => EndsAsFound
  BY AllEnds
<1> QED
  BY <1>1, <1>2, <1>3, PTL DEF Spec

(***************************************************************************)
(* ls_l.                                                                 *)
(*************************************************************************)
\* One line for each file that is done, with the permissions it has.
Lines == /\ List!TypeOK
         /\ Len(printed) = Files - left
         /\ listing = "done" => left = 0
         /\ listing = "exit" => found # List!File
         /\ \A i \in DOMAIN printed :
                /\ printed[i].file = Files + 1 - i
                /\ printed[i].type = fileKind[printed[i].file]
                /\ printed[i].perm = List!perm_str(fileMode[printed[i].file])

LEMMA LinesAreLines ==
    ASSUME NEW m \in Modes, NEW k \in List!Kind, NEW f \in List!File
    PROVE  [type |-> k, perm |-> List!perm_str(m), file |-> f] \in List!Line
<1>1. \A i \in List!Column :
          (IF i <= 3 THEN List!Bits[i] \in m
           ELSE IF i <= 6 THEN "S_IRGRP" \in m
           ELSE List!Bits[i] \in m \cap {"S_IROTH"}) \in BOOLEAN
  <2>1. TAKE i \in List!Column
  <2>2. CASE i <= 3
    BY <2>2
  <2>3. CASE ~(i <= 3) /\ i <= 6
    BY <2>3
  <2>4. CASE ~(i <= 3) /\ ~(i <= 6)
    BY <2>4
  <2> QED
    BY <2>2, <2>3, <2>4
<1>2. List!perm_str(m) \in [List!Column -> BOOLEAN]
  BY <1>1, Zenon DEF List!perm_str
<1> QED
  BY <1>2 DEF List!Line

LEMMA ListingStep ==
    ASSUME List!ListAssumption, Lines, [List!Next]_(List!vars)
    PROVE  Lines'
<1> USE DEF List!File
<1>1. CASE List!info_file
  <2>1. CASE left \in found
    <3> DEFINE line == [type |-> fileKind[left], perm |-> List!perm_str(fileMode[left]), file |-> left]
    <3>1. left \in List!File /\ left > 0 /\ left' = left - 1 /\ Files \in Nat
      BY <1>1, <2>1 DEF List!info_file, Lines, List!TypeOK, List!ListAssumption
    <3>2. line \in List!Line
      BY <3>1, LinesAreLines DEF Lines, List!TypeOK
    <3>3. /\ printed' = Append(printed, line)
          /\ UNCHANGED <<fileMode, fileKind, found, listing>>
          /\ listing = "running"
      BY <1>1, <2>1 DEF List!info_file
    <3>4. /\ printed' \in Seq(List!Line)
          /\ Len(printed') = Len(printed) + 1
          /\ DOMAIN printed' = 1 .. Len(printed) + 1
          /\ \A i \in DOMAIN printed : printed'[i] = printed[i]
          /\ printed'[Len(printed) + 1] = line
          /\ DOMAIN printed = 1 .. Len(printed) /\ Len(printed) \in Nat
      <4> HIDE DEF line
      <4> QED
        BY <3>2, <3>3 DEF Lines, List!TypeOK
    <3>5. Len(printed) = Files - left
      BY DEF Lines
    <3>6. ASSUME NEW i \in DOMAIN printed'
          PROVE  /\ printed'[i].file = Files + 1 - i
                 /\ printed'[i].type = fileKind[printed'[i].file]
                 /\ printed'[i].perm = List!perm_str(fileMode[printed'[i].file])
      <4>1. CASE i \in DOMAIN printed
        BY <3>4, <4>1 DEF Lines
      <4>2. CASE i = Len(printed) + 1
        <5>1. printed'[i] = line
          BY <3>4, <4>2
        <5>2. i = Files - left + 1
          BY <3>5, <4>2
        <5> QED
          BY <5>1, <5>2, <3>1
      <4> QED
        BY <3>4, <4>1, <4>2
    <3>7. List!TypeOK'
      BY <3>1, <3>3, <3>4 DEF Lines, List!TypeOK
    <3>8. Len(printed') = Files - left'
      BY <3>1, <3>4, <3>5
    <3> QED
      BY <3>3, <3>6, <3>7, <3>8 DEF Lines
  <2>2. CASE left \notin found
    <3>1. /\ listing' = "exit"
          /\ UNCHANGED <<fileMode, fileKind, found, left, printed>>
      BY <1>1, <2>2 DEF List!info_file
    <3>2. left \in List!File
      BY <1>1 DEF List!info_file, Lines, List!TypeOK, List!ListAssumption
    <3>3. found' # List!File
      BY <2>2, <3>1, <3>2
    <3> QED
      BY <3>1, <3>3 DEF Lines, List!TypeOK
  <2> QED
    BY <2>1, <2>2
<1>2. CASE List!End
  BY <1>2 DEF List!End, Lines, List!TypeOK
<1>3. CASE List!Disturb
  BY <1>3 DEF List!Disturb, List!Remove, Lines, List!TypeOK
<1>4. CASE UNCHANGED List!vars
  BY <1>4 DEF List!vars, Lines, List!TypeOK
<1> QED
  BY <1>1, <1>2, <1>3, <1>4 DEF List!Next, List!main

LEMMA ListingStart == ASSUME List!ListAssumption, List!Init PROVE Lines
  BY DEF List!ListAssumption, List!Init, Lines, List!TypeOK, List!File

\* The columns that show their permission.
LEMMA ColumnsShow ==
    ASSUME NEW m, NEW i \in {1, 2, 3, 4, 7}
    PROVE  List!perm_str(m)[i] <=> List!Bits[i] \in m
<1>1. i \in List!Column
  BY DEF List!Column
<1>2. List!perm_str(m)[i] =
          IF i <= 3 THEN List!Bits[i] \in m
          ELSE IF i <= 6 THEN "S_IRGRP" \in m
          ELSE List!Bits[i] \in m \cap {"S_IROTH"}
  BY <1>1 DEF List!perm_str
<1>3. List!Bits[4] = "S_IRGRP" /\ List!Bits[7] = "S_IROTH"
  BY DEF List!Bits
<1>4. CASE i \in {1, 2, 3}
  <2>1. i <= 3
    BY <1>4
  <2> QED
    BY <1>2, <2>1, Zenon
<1>5. CASE i = 4
  <2>1. ~(i <= 3) /\ i <= 6 /\ List!Bits[i] = "S_IRGRP"
    BY <1>3, <1>5
  <2> QED
    BY <1>2, <2>1, Zenon
<1>6. CASE i = 7
  <2>1. ~(i <= 3) /\ ~(i <= 6) /\ List!Bits[i] = "S_IROTH"
    BY <1>3, <1>6
  <2>2. List!perm_str(m)[i] = (List!Bits[i] \in m \cap {"S_IROTH"})
    BY <1>2, <2>1, Zenon
  <2> QED
    BY <2>1, <2>2, Zenon
<1> QED
  BY <1>4, <1>5, <1>6

\* The types of LsL's variables.
THEOREM ListTypeCorrect ==
    ASSUME List!ListAssumption PROVE List!Spec => []List!TypeOK
<1>1. Lines => List!TypeOK
  BY DEF Lines
<1> QED
  BY <1>1, ListingStart, ListingStep, PTL DEF List!Spec

LEMMA LinesAreRight == ASSUME List!ListAssumption, Lines PROVE List!ListingIsRight
<1>1. /\ Files \in Nat /\ left \in 0 .. Files /\ Len(printed) = Files - left
      /\ DOMAIN printed = 1 .. Len(printed)
      /\ \A i \in DOMAIN printed : printed[i].file = Files + 1 - i
  BY DEF Lines, List!TypeOK, List!ListAssumption
<1>2. \A i, j \in DOMAIN printed : printed[i].file = printed[j].file => i = j
  BY <1>1
<1>3. ASSUME listing = "done", NEW f \in List!File
      PROVE  \E i \in DOMAIN printed : printed[i].file = f
  <2>1. Len(printed) = Files /\ f \in 1 .. Files
    BY <1>1, <1>3 DEF Lines, List!File
  <2>2. Files + 1 - f \in DOMAIN printed /\ Files + 1 - (Files + 1 - f) = f
    BY <1>1, <2>1
  <2> QED
    BY <1>1, <2>2
<1>4. ASSUME NEW k \in DOMAIN printed
      PROVE  /\ printed[k].type = fileKind[printed[k].file]
             /\ \A i \in {1, 2, 3, 4, 7} :
                    printed[k].perm[i] <=> List!Bits[i] \in fileMode[printed[k].file]
  BY ColumnsShow DEF Lines
<1> QED
  BY <1>2, <1>3, <1>4 DEF Lines, List!ListingIsRight

\* However many files the directory has and whichever are removed, ls_l prints
\* one line of each, or breaks off at one that is missing, with its type, the
\* owner's permissions and whether the group and others may read it.
THEOREM ListsEachFile ==
    ASSUME List!ListAssumption PROVE List!Spec => []List!ListingIsRight
<1> QED
  BY ListingStart, ListingStep, LinesAreRight, PTL DEF List!Spec

\* And no listing of two files or more is the one of "ls -l" that the comment on
\* info_file promises: the order is the other way round.
THEOREM ListsUnlikeLs ==
    ASSUME List!ListAssumption, Files > 1
    PROVE  List!Spec => [](listing = "done" => ~List!AsLsDoes)
<1>1. Lines => (listing = "done" => ~List!AsLsDoes)
  <2> SUFFICES ASSUME Lines, listing = "done", List!AsLsDoes PROVE FALSE
    OBVIOUS
  <2>1. /\ Files \in Nat /\ Len(printed) = Files
        /\ DOMAIN printed = 1 .. Len(printed)
    BY DEF Lines, List!TypeOK, List!ListAssumption
  <2>2. 1 \in DOMAIN printed
    BY <2>1
  <2>3. printed[1].file = Files + 1 - 1 /\ printed[1].file = 1
    BY <2>2 DEF Lines, List!AsLsDoes
  <2> QED
    BY <2>1, <2>3
<1> QED
  BY <1>1, ListingStart, ListingStep, PTL DEF List!Spec

(***************************************************************************)
(* The word separator.  Words are looked for by where they end.            *)
(***************************************************************************)
EndsAt(w, text, e) == /\ Len(w) <= e
                      /\ \A k \in 1 .. Len(w) : text[e - Len(w) + k] = w[k]
                      /\ e > Len(w) => text[e - Len(w)] \notin Letter

LEMMA TextIsSeq ==
    ASSUME Word!WordAssumption, NEW text \in Word!Text
    PROVE  /\ text \in Seq(Word!Char)
           /\ Len(text) \in 0 .. MaxLength
           /\ DOMAIN text = 1 .. Len(text)
<1>1. PICK k \in 0 .. MaxLength : text \in [1 .. k -> Word!Char]
  BY DEF Word!Text
<1>2. text \in Seq(Word!Char) /\ Len(text) = k
  BY <1>1 DEF Word!WordAssumption
<1> QED
  BY <1>1, <1>2

LEMMA WordIsSeq ==
    ASSUME Word!WordAssumption
    PROVE  /\ \A w \in Word!Word : /\ w \in Seq(Letter)
                                   /\ Len(w) \in 1 .. MaxLength
                                   /\ DOMAIN w = 1 .. Len(w)
           /\ \A w \in Seq(Letter) : Len(w) \in 1 .. MaxLength => w \in Word!Word
<1>1. ASSUME NEW w \in Word!Word
      PROVE  /\ w \in Seq(Letter)
             /\ Len(w) \in 1 .. MaxLength
             /\ DOMAIN w = 1 .. Len(w)
  <2>1. PICK k \in 1 .. MaxLength : w \in [1 .. k -> Letter]
    BY DEF Word!Word
  <2>2. w \in Seq(Letter) /\ Len(w) = k
    BY <2>1 DEF Word!WordAssumption
  <2> QED
    BY <2>1, <2>2
<1>2. ASSUME NEW w \in Seq(Letter), Len(w) \in 1 .. MaxLength
      PROVE  w \in Word!Word
  <2>1. w \in [1 .. Len(w) -> Letter]
    OBVIOUS
  <2> QED
    BY <1>2, <2>1 DEF Word!Word
<1> QED
  BY <1>1, <1>2

\* Only one word ends at a place.
LEMMA OneWordEnds ==
    ASSUME NEW text, NEW e \in Nat, NEW v \in Seq(Letter), NEW w \in Seq(Letter),
           EndsAt(v, text, e), EndsAt(w, text, e)
    PROVE  v = w
<1>1. ASSUME NEW a \in Seq(Letter), NEW b \in Seq(Letter),
             EndsAt(a, text, e), EndsAt(b, text, e), Len(a) < Len(b)
      PROVE  FALSE
  <2> DEFINE k == Len(b) - Len(a)
  <2>1. k \in 1 .. Len(b) /\ e - Len(b) + k = e - Len(a) /\ e > Len(a)
    BY <1>1 DEF EndsAt
  <2>2. text[e - Len(a)] = b[k]
    BY <1>1, <2>1 DEF EndsAt
  <2>3. b[k] \in Letter
    BY <2>1
  <2> QED
    BY <1>1, <2>1, <2>2, <2>3 DEF EndsAt
<1>2. Len(v) = Len(w)
  BY <1>1
<1>3. \A k \in 1 .. Len(v) : v[k] = w[k]
  BY <1>2 DEF EndsAt
<1> QED
  BY <1>2, <1>3, SeqEqual

\* Places in these terms.
LEMMA PlaceOfWord ==
    ASSUME Word!WordAssumption, NEW text \in Seq(Word!Char), NEW w \in Word!Word, NEW i \in Nat
    PROVE  i \in Word!Places(w, text) <=>
               /\ i \in 1 .. Len(text) + 1 - Len(w)
               /\ EndsAt(w, text, i + Len(w) - 1)
               /\ i + Len(w) <= Len(text) => text[i + Len(w)] \notin Letter
<1>1. w \in Seq(Letter) /\ Len(w) \in Nat \ {0} /\ DOMAIN w = 1 .. Len(w)
  BY WordIsSeq DEF Word!WordAssumption
<1> DEFINE e == i + Len(w) - 1
<1>2. e - Len(w) = i - 1 /\ (e > Len(w) <=> i > 1) /\ (Len(w) <= e <=> i >= 1)
  BY <1>1
<1>3. \A k \in 1 .. Len(w) : e - Len(w) + k = i + k - 1
  BY <1>1
<1>4. EndsAt(w, text, e) <=> /\ i >= 1
                             /\ \A k \in 1 .. Len(w) : text[i + k - 1] = w[k]
                             /\ i > 1 => text[i - 1] \notin Letter
  BY <1>2, <1>3 DEF EndsAt
<1>5. i \in 1 .. Len(text) + 1 - Len(w) <=> i \in DOMAIN text /\ i + Len(w) - 1 <= Len(text)
  BY <1>1
<1>6. (\A k \in DOMAIN w : text[i + k - 1] = w[k]) <=> \A k \in 1 .. Len(w) : text[i + k - 1] = w[k]
  BY <1>1
<1> DEFINE Before == i > 1 => text[i - 1] \notin Letter
           After == i + Len(w) <= Len(text) => text[i + Len(w)] \notin Letter
           Match == \A k \in 1 .. Len(w) : text[i + k - 1] = w[k]
<1>7. i \in Word!Places(w, text) <=>
          i \in DOMAIN text /\ i + Len(w) - 1 <= Len(text) /\ Match /\ Before /\ After
  BY <1>6 DEF Word!Places
<1>8. EndsAt(w, text, e) <=> i >= 1 /\ Match /\ Before
  BY <1>4
<1>9. i \in 1 .. Len(text) + 1 - Len(w) => i >= 1
  BY <1>1
<1> HIDE DEF Match, Before, After
<1>10. i \in Word!Places(w, text) <=>
           i \in 1 .. Len(text) + 1 - Len(w) /\ EndsAt(w, text, e) /\ After
  BY <1>5, <1>7, <1>8, <1>9
<1> QED
  BY <1>10 DEF After

\* Where each character of content stands in the file.
IsCopy(pos) ==
    /\ pos \in [1 .. Len(content) -> 1 .. Len(file)]
    /\ \A i \in 1 .. Len(content) : pos[i] <= taken /\ file[pos[i]] = content[i]
    /\ \A i, j \in 1 .. Len(content) : i < j => pos[i] < pos[j]
    /\ \A p \in 1 .. Len(file) :
           p <= taken /\ file[p] # LineEnd => \E i \in 1 .. Len(content) : pos[i] = p

\* What has been read is what the file holds, but for the line ends.
Copied == /\ taken \in 0 .. Len(file) + 1
          /\ Len(content) <= taken /\ Len(content) <= Len(file)
          /\ \E pos : IsCopy(pos)
          /\ wordPc # "read" => taken = Len(file) + 1

Occurrences(s, w) == {i \in DOMAIN s : s[i] = w}
Ended(w) == {i \in Word!Places(w, content) : i + Len(w) <= index}

\* Each word that has ended has been taken, and a_word is what follows.
Cut == /\ EndsAt(a_word, content, index)
       /\ Len(words) <= index
       /\ \A w \in Word!Word : Cardinality(Occurrences(words, w)) = Cardinality(Ended(w))
       /\ wordPc = "read" => index = 0 /\ words = <<>> /\ a_word = <<>>
       /\ wordPc \in {"count", "done"} => index = Len(content)

CountedAll == IF wordPc = "done"
                 THEN count = [w \in {words[i] : i \in DOMAIN words} |->
                                  Cardinality({i \in DOMAIN words : words[i] = w})]
                 ELSE count = <<>>

WordTypes == /\ file \in Word!Text \cup {Word!NoFile}
             /\ wordPc \in {"read", "cut", "count", "done"}
             /\ content \in Seq(Word!Char \ {LineEnd})
             /\ index \in 0 .. Len(content)
             /\ a_word \in Word!Word \cup {<<>>}
             /\ words \in Seq(Word!Word)

Separated == /\ WordTypes
             /\ Cut
             /\ CountedAll
             /\ \/ wordPc = "read" /\ content = <<>> /\ taken = 0
                \/ file \in Word!Text /\ Copied

LEMMA EmptyIsFinite == IsFiniteSet({}) /\ Cardinality({}) = 0
  BY FS_EmptySet

LEMMA NothingEnded ==
    ASSUME Word!WordAssumption, NEW text \in Seq(Word!Char), NEW w \in Word!Word
    PROVE  {i \in Word!Places(w, text) : i + Len(w) <= 0} = {}
<1>1. Len(w) \in Nat
  BY WordIsSeq DEF Word!WordAssumption
<1>2. \A i \in Word!Places(w, text) : i \in Nat \ {0}
  BY DEF Word!Places
<1> QED
  BY <1>1, <1>2

LEMMA SeparatedAtFirst ==
    ASSUME Word!WordAssumption, Word!Init
    PROVE  Separated
<1>1. /\ content = <<>> /\ words = <<>> /\ a_word = <<>> /\ count = <<>>
      /\ index = 0 /\ taken = 0 /\ wordPc = "read"
      /\ file \in Word!Text \cup {Word!NoFile}
  BY DEF Word!Init
<1>2. WordTypes
  BY <1>1 DEF WordTypes
<1>3. Cut
  <2>1. EndsAt(a_word, content, index)
    BY <1>1 DEF EndsAt
  <2>2. ASSUME NEW w \in Word!Word
        PROVE  Occurrences(words, w) = {} /\ Ended(w) = {}
    <3>1. content \in Seq(Word!Char)
      BY <1>1
    <3>2. {i \in Word!Places(w, content) : i + Len(w) <= 0} = {}
      BY <3>1, NothingEnded
    <3> QED
      BY <1>1, <3>2 DEF Occurrences, Ended
  <2>3. \A w \in Word!Word : Cardinality(Occurrences(words, w)) = Cardinality(Ended(w))
    BY <2>2
  <2> QED
    BY <1>1, <2>1, <2>3 DEF Cut
<1>4. CountedAll
  BY <1>1 DEF CountedAll
<1> QED
  BY <1>1, <1>2, <1>3, <1>4 DEF Separated

\* Nothing is what has been read of a text at first.
LEMMA NothingIsCopied ==
    ASSUME Word!WordAssumption, file \in Word!Text,
           wordPc = "read", content = <<>>, taken = 0
    PROVE  Copied
<1>1. Len(file) \in Nat
  BY TextIsSeq DEF Word!WordAssumption
<1> DEFINE pos == [i \in 1 .. 0 |-> 1]
<1>2. IsCopy(pos)
  BY <1>1 DEF IsCopy
<1> HIDE DEF pos
<1> QED
  BY <1>1, <1>2 DEF Copied

LEMMA ReadKeeps ==
    ASSUME Word!WordAssumption, Separated, Word!getContentStr
    PROVE  Separated'
<1>1. /\ wordPc = "read"
      /\ UNCHANGED <<file, index, a_word, words, count>>
      /\ file # Word!NoFile
  BY DEF Word!getContentStr
<1>2. file \in Word!Text
  BY <1>1 DEF Separated, WordTypes
<1>3. file \in Seq(Word!Char) /\ Len(file) \in Nat
  BY <1>2, TextIsSeq DEF Word!WordAssumption
<1>4. Copied
  BY <1>1, <1>2, NothingIsCopied DEF Separated
<1>5. content \in Seq(Word!Char \ {LineEnd})
  BY DEF Separated, WordTypes
<1>6. taken \in 0 .. Len(file) + 1 /\ Len(content) <= taken /\ Len(content) <= Len(file)
  BY <1>4 DEF Copied
<1>7. PICK end \in taken + 1 .. Len(file) + 1 :
          /\ \A i \in taken + 1 .. end - 1 : file[i] # LineEnd
          /\ end <= Len(file) => file[end] = LineEnd
          /\ content' = content \o SubSeq(file, taken + 1, end - 1)
          /\ taken' = end
          /\ wordPc' = IF end <= Len(file) THEN "read" ELSE "cut"
  BY DEF Word!getContentStr
<1> DEFINE line == SubSeq(file, taken + 1, end - 1)
<1>8. /\ line \in Seq(Word!Char \ {LineEnd})
      /\ Len(line) = end - 1 - taken
      /\ \A i \in 1 .. end - 1 - taken : line[i] = file[taken + i]
  <2>1. taken \in Int /\ end \in Int /\ taken <= end - 1
    BY <1>6, <1>7
  <2>2. \A i \in taken + 1 .. end - 1 : file[i] \in Word!Char \ {LineEnd}
    BY <1>3, <1>6, <1>7
  <2>3. /\ line \in Seq(Word!Char \ {LineEnd})
        /\ Len(line) = IF taken + 1 <= end - 1 THEN (end - 1) - (taken + 1) + 1 ELSE 0
        /\ \A i \in 1 .. (end - 1) - (taken + 1) + 1 : line[i] = file[(taken + 1) + i - 1]
    BY <2>1, <2>2, SubSeqProperties
  <2>4. (end - 1) - (taken + 1) + 1 = end - 1 - taken
    BY <2>1
  <2>5. \A i \in 1 .. end - 1 - taken : (taken + 1) + i - 1 = taken + i
    BY <2>1
  <2> HIDE DEF line
  <2>6. Len(line) = end - 1 - taken
    BY <1>6, <1>7, <2>1, <2>3
  <2> QED
    BY <2>3, <2>4, <2>5, <2>6
<1>9. content' = content \o line
  BY <1>7
<1> HIDE DEF line
<1>10. /\ content' \in Seq(Word!Char \ {LineEnd})
       /\ Len(content') = Len(content) + (end - 1 - taken)
       /\ \A i \in 1 .. Len(content') :
              content'[i] = IF i <= Len(content) THEN content[i]
                            ELSE file[taken + (i - Len(content))]
  <2>1. /\ content' \in Seq(Word!Char \ {LineEnd})
        /\ Len(content') = Len(content) + Len(line)
        /\ \A i \in 1 .. Len(content) + Len(line) :
               content'[i] = IF i <= Len(content) THEN content[i] ELSE line[i - Len(content)]
    BY <1>5, <1>8, <1>9, ConcatProperties
  <2>2. Len(content) \in Nat
    BY <1>5
  <2>3. \A i \in 1 .. Len(content) + Len(line) :
            ~(i <= Len(content)) => i - Len(content) \in 1 .. end - 1 - taken
    BY <1>6, <1>7, <1>8, <2>2
  <2> QED
    BY <1>8, <2>1, <2>3
<1>11. Copied'
  <2>1. PICK pos : IsCopy(pos)
    BY <1>4 DEF Copied
  <2>0. PICK later : later = [i \in 1 .. Len(content') |->
                                 IF i <= Len(content) THEN pos[i] ELSE taken + (i - Len(content))]
    OBVIOUS
  <2>2. Len(content) \in Nat /\ Len(content') \in Nat /\ end \in Nat
    BY <1>5, <1>10, <1>6, <1>7
  <2>3. /\ pos \in [1 .. Len(content) -> 1 .. Len(file)]
        /\ \A i \in 1 .. Len(content) : pos[i] <= taken /\ file[pos[i]] = content[i]
        /\ \A i, j \in 1 .. Len(content) : i < j => pos[i] < pos[j]
    BY <2>1 DEF IsCopy
  <2>4. \A i \in 1 .. Len(content') :
            IF i <= Len(content) THEN later[i] = pos[i] /\ i \in 1 .. Len(content)
            ELSE /\ later[i] = taken + (i - Len(content))
                 /\ later[i] \in taken + 1 .. end - 1
    BY <1>3, <1>6, <1>7, <1>10, <2>0, <2>2
  <2>5. later \in [1 .. Len(content') -> 1 .. Len(file)]
    <3>1. ASSUME NEW i \in 1 .. Len(content')
          PROVE  later[i] \in 1 .. Len(file)
      <4>1. CASE i <= Len(content)
        BY <2>3, <2>4, <4>1
      <4>2. CASE ~(i <= Len(content))
        <5>1. later[i] \in taken + 1 .. end - 1
          BY <2>4, <4>2
        <5> QED
          BY <1>3, <1>6, <1>7, <5>1
      <4> QED
        BY <4>1, <4>2
    <3> QED
      BY <2>0, <3>1
  <2>6. ASSUME NEW i \in 1 .. Len(content')
        PROVE  later[i] <= end /\ file[later[i]] = content'[i]
    <3>1. CASE i <= Len(content)
      <4>1. /\ i \in 1 .. Len(content) /\ later[i] = pos[i] /\ content'[i] = content[i]
        BY <1>10, <2>4, <3>1
      <4>2. pos[i] <= taken /\ file[pos[i]] = content[i] /\ pos[i] \in Nat
        BY <2>3, <4>1
      <4> QED
        BY <1>6, <1>7, <4>1, <4>2
    <3>2. CASE ~(i <= Len(content))
      BY <1>3, <1>6, <1>7, <1>10, <2>2, <2>4, <3>2
    <3> QED
      BY <3>1, <3>2
  <2>7. ASSUME NEW i \in 1 .. Len(content'), NEW j \in 1 .. Len(content'), i < j
        PROVE  later[i] < later[j]
    <3>1. CASE j <= Len(content)
      <4>1. i <= Len(content)
        BY <2>2, <2>7, <3>1
      <4> QED
        BY <2>3, <2>4, <2>7, <3>1, <4>1
    <3>2. CASE ~(j <= Len(content)) /\ i <= Len(content)
      <4>1. later[i] <= taken /\ later[i] \in Nat
        BY <2>3, <2>4, <3>2
      <4> QED
        BY <1>6, <1>7, <2>2, <2>4, <3>2, <4>1
    <3>3. CASE ~(i <= Len(content)) /\ ~(j <= Len(content))
      BY <1>6, <2>2, <2>4, <2>7, <3>3
    <3> QED
      BY <2>2, <2>7, <3>1, <3>2, <3>3
  <2>8. ASSUME NEW p \in 1 .. Len(file), p <= end, file[p] # LineEnd
        PROVE  \E i \in 1 .. Len(content') : later[i] = p
    <3>1. CASE p <= taken
      <4>1. PICK i \in 1 .. Len(content) : pos[i] = p
        BY <2>1, <2>8, <3>1 DEF IsCopy
      <4>2. i \in 1 .. Len(content') /\ i <= Len(content)
        BY <1>6, <1>7, <1>10, <2>2
      <4> QED
        BY <2>4, <4>1, <4>2
    <3>2. CASE ~(p <= taken)
      <4> DEFINE i == Len(content) + (p - taken)
      <4>1. p # end
        BY <1>3, <1>7, <2>8
      <4>2. i \in 1 .. Len(content') /\ ~(i <= Len(content)) /\ taken + (i - Len(content)) = p
        BY <1>6, <1>7, <1>10, <2>2, <2>8, <3>2, <4>1
      <4> QED
        BY <2>4, <4>2
    <3> QED
      BY <3>1, <3>2
  <2>9. IsCopy(later)'
    <3>1. file' = file /\ taken' = end
      BY <1>1, <1>7
    <3> QED
      BY <2>5, <2>6, <2>7, <2>8, <3>1 DEF IsCopy
  <2>10. Len(content') <= end - 1 /\ end \in 0 .. Len(file) + 1 /\ end - 1 <= Len(file)
    BY <1>3, <1>6, <1>7, <1>10, <2>2
  <2>11. wordPc' # "read" => end = Len(file) + 1
    BY <1>3, <1>7
  <2>12. Len(content') <= end /\ Len(content') <= Len(file)
    BY <1>3, <2>2, <2>10
  <2> QED
    BY <1>1, <1>7, <2>9, <2>10, <2>11, <2>12 DEF Copied
<1>12. index = 0 /\ words = <<>> /\ a_word = <<>>
  BY <1>1 DEF Separated, Cut
<1>13. Cut'
  <2>1. EndsAt(a_word, content, index)'
    BY <1>1, <1>12 DEF EndsAt
  <2>2. ASSUME NEW w \in Word!Word
        PROVE  (Cardinality(Occurrences(words, w)) = Cardinality(Ended(w)))'
    <3>1. {i \in Word!Places(w, content') : i + Len(w) <= 0} = {}
      <4>1. content' \in Seq(Word!Char)
        BY <1>10
      <4> QED
        BY <4>1, NothingEnded
    <3>2. Occurrences(words, w)' = {} /\ Ended(w)' = {}
      BY <1>1, <1>12, <3>1 DEF Occurrences, Ended
    <3> QED
      BY <3>2
  <2>3. wordPc' \notin {"count", "done"}
    BY <1>7
  <2> QED
    BY <1>1, <1>12, <2>1, <2>2, <2>3 DEF Cut
<1>14. WordTypes'
  <2>1. wordPc' \in {"read", "cut"}
    BY <1>7
  <2>2. Len(content') \in Nat
    BY <1>10
  <2> QED
    BY <1>1, <1>10, <1>12, <2>1, <2>2 DEF Separated, WordTypes
<1>15. CountedAll'
  <2>1. wordPc' # "done" /\ count = <<>>
    BY <1>1, <1>7 DEF Separated, CountedAll
  <2> QED
    BY <1>1, <2>1 DEF CountedAll
<1> QED
  BY <1>1, <1>2, <1>11, <1>13, <1>14, <1>15 DEF Separated

\* What has ended grows by the word before a character that is no letter.
LEMMA OneMoreEnds ==
    ASSUME Word!WordAssumption, NEW text \in Seq(Word!Char), NEW k \in 0 .. Len(text) - 1,
           NEW v \in Seq(Letter), EndsAt(v, text, k), NEW w \in Word!Word
    PROVE  {i \in Word!Places(w, text) : i + Len(w) <= k + 1} =
               {i \in Word!Places(w, text) : i + Len(w) <= k} \cup
                   (IF v = w /\ text[k + 1] \notin Letter THEN {k + 1 - Len(w)} ELSE {})
<1>1. w \in Seq(Letter) /\ Len(w) \in Nat \ {0} /\ Len(text) \in Nat /\ k \in Nat
  BY WordIsSeq DEF Word!WordAssumption
<1>2. \A i \in Word!Places(w, text) : i \in Nat
  <2>1. Word!Places(w, text) \subseteq DOMAIN text
    BY Zenon DEF Word!Places
  <2>2. DOMAIN text \subseteq Nat
    OBVIOUS
  <2> QED
    BY <2>1, <2>2
<1>3. ASSUME NEW i \in Word!Places(w, text), i + Len(w) = k + 1
      PROVE  v = w /\ text[k + 1] \notin Letter
  <2>1. /\ EndsAt(w, text, i + Len(w) - 1)
        /\ i + Len(w) <= Len(text) => text[i + Len(w)] \notin Letter
    BY <1>2, PlaceOfWord
  <2>2. i + Len(w) - 1 = k /\ i + Len(w) <= Len(text)
    <3>1. i \in Nat /\ Len(w) \in Nat /\ k \in Nat
      BY <1>1, <1>2
    <3>2. k + 1 <= Len(text)
      BY <1>1
    <3> QED
      BY <1>3, <3>1, <3>2
  <2>3. v = w
    BY <1>1, <2>1, <2>2, OneWordEnds
  <2> QED
    BY <1>3, <2>1, <2>2, <2>3
<1>4. ASSUME v = w, text[k + 1] \notin Letter
      PROVE  k + 1 - Len(w) \in Word!Places(w, text)
  <2> DEFINE i == k + 1 - Len(w)
  <2>1. Len(w) <= k
    BY <1>4 DEF EndsAt
  <2>2. i \in Nat /\ i + Len(w) - 1 = k /\ i + Len(w) = k + 1 /\ i \in 1 .. Len(text) + 1 - Len(w)
    BY <1>1, <2>1
  <2> HIDE DEF i
  <2>3. i \in Word!Places(w, text)
    BY <1>4, <2>2, PlaceOfWord
  <2> QED
    BY <2>3 DEF i
<1>5. \A i \in Nat : i + Len(w) <= k + 1 <=> i + Len(w) <= k \/ i + Len(w) = k + 1
  BY <1>1
<1>6. \A i \in Nat : i + Len(w) = k + 1 <=> i = k + 1 - Len(w)
  BY <1>1
<1>7. CASE v = w /\ text[k + 1] \notin Letter
  <2>1. k + 1 - Len(w) \in Word!Places(w, text)
    BY <1>4, <1>7
  <2>2. (k + 1 - Len(w)) + Len(w) <= k + 1
    BY <1>1
  <2>3. \A i \in Word!Places(w, text) :
            i + Len(w) <= k + 1 <=> i + Len(w) <= k \/ i = k + 1 - Len(w)
    BY <1>2, <1>5, <1>6
  <2> DEFINE j == k + 1 - Len(w)
  <2> HIDE DEF j
  <2>4. /\ j \in Word!Places(w, text)
        /\ \A i \in Word!Places(w, text) : i + Len(w) <= k + 1 <=> i + Len(w) <= k \/ i = j
    BY <2>1, <2>3 DEF j
  <2>5. {i \in Word!Places(w, text) : i + Len(w) <= k + 1} =
            {i \in Word!Places(w, text) : i + Len(w) <= k} \cup {j}
    BY <2>4
  <2> QED
    BY <1>7, <2>5 DEF j
<1>8. CASE ~(v = w /\ text[k + 1] \notin Letter)
  <2>1. \A i \in Word!Places(w, text) : i + Len(w) <= k + 1 <=> i + Len(w) <= k
    BY <1>2, <1>3, <1>5, <1>8
  <2> QED
    BY <1>8, <2>1
<1> QED
  BY <1>7, <1>8

\* The same of the words taken.
LEMMA OneMoreTaken ==
    ASSUME NEW S, NEW s \in Seq(S), NEW v \in S, NEW w
    PROVE  /\ Cardinality(Occurrences(s, w)) \in Nat
           /\ Cardinality(Occurrences(Append(s, v), w)) =
                  Cardinality(Occurrences(s, w)) + (IF v = w THEN 1 ELSE 0)
<1> DEFINE O == Occurrences(s, w)
           P == Occurrences(Append(s, v), w)
<1>1. Len(s) \in Nat /\ DOMAIN s = 1 .. Len(s)
  OBVIOUS
<1>2. IsFiniteSet(O) /\ Cardinality(O) \in Nat
  <2>1. IsFiniteSet(1 .. Len(s))
    BY <1>1, FS_Interval
  <2>2. O \subseteq 1 .. Len(s)
    BY <1>1 DEF Occurrences
  <2> HIDE DEF O
  <2> QED
    BY <2>1, <2>2, FS_Subset, FS_CardinalityType
<1>3. /\ DOMAIN Append(s, v) = 1 .. Len(s) + 1
      /\ \A i \in 1 .. Len(s) : Append(s, v)[i] = s[i]
      /\ Append(s, v)[Len(s) + 1] = v
  BY <1>1
<1>4. Cardinality(P) = Cardinality(O) + (IF v = w THEN 1 ELSE 0)
  <2>1. CASE v = w
    <3>1. P = O \cup {Len(s) + 1} /\ Len(s) + 1 \notin O
      BY <1>1, <1>3, <2>1 DEF Occurrences
    <3> HIDE DEF O, P
    <3> QED
      BY <1>2, <2>1, <3>1, FS_AddElement
  <2>2. CASE v # w
    <3>1. P = O
      BY <1>1, <1>3, <2>2 DEF Occurrences
    <3> HIDE DEF O, P
    <3> QED
      BY <1>2, <2>2, <3>1
  <2> QED
    BY <2>1, <2>2
<1> QED
  BY <1>2, <1>4

LEMMA PlacesAreFinite ==
    ASSUME Word!WordAssumption, NEW text \in Seq(Word!Char), NEW w, NEW S,
           S \subseteq Word!Places(w, text)
    PROVE  IsFiniteSet(S) /\ Cardinality(S) \in Nat
<1>1. S \subseteq 1 .. Len(text) /\ Len(text) \in Nat
  BY DEF Word!Places
<1>2. IsFiniteSet(1 .. Len(text))
  BY <1>1, FS_Interval
<1>3. IsFiniteSet(S)
  BY <1>1, <1>2, FS_Subset
<1> QED
  BY <1>3, FS_CardinalityType

LEMMA CutKeeps ==
    ASSUME Word!WordAssumption, Separated, Word!NextChar
    PROVE  Separated'
<1>1. /\ wordPc = "cut" /\ index < Len(content) /\ index' = index + 1
      /\ UNCHANGED <<file, wordPc, taken, content, count>>
  BY DEF Word!NextChar
<1>2. /\ content \in Seq(Word!Char \ {LineEnd}) /\ content \in Seq(Word!Char)
      /\ index \in 0 .. Len(content) - 1 /\ Len(content) \in Nat
      /\ a_word \in Seq(Letter) /\ words \in Seq(Word!Word)
  <2>1. a_word \in Seq(Letter)
    <3>1. a_word \in Word!Word \/ a_word = <<>>
      BY DEF Separated, WordTypes
    <3>2. <<>> \in Seq(Letter)
      OBVIOUS
    <3>3. \A w \in Word!Word : w \in Seq(Letter)
      BY WordIsSeq
    <3> QED
      BY <3>1, <3>2, <3>3
  <2> QED
    BY <1>1, <2>1 DEF Separated, WordTypes
<1>3. file \in Word!Text /\ Copied
  BY <1>1 DEF Separated
<1>4. /\ EndsAt(a_word, content, index) /\ Len(words) <= index
      /\ \A w \in Word!Word : Cardinality(Occurrences(words, w)) = Cardinality(Ended(w))
  BY DEF Separated, Cut
<1>5. Len(content) <= MaxLength /\ MaxLength \in Nat
  BY <1>2, <1>3, TextIsSeq DEF Copied, Word!WordAssumption
<1>6. Copied'
  BY <1>1, <1>3 DEF Copied, IsCopy
<1>7. CountedAll'
  BY <1>1 DEF Separated, CountedAll
<1>8. ASSUME NEW w \in Word!Word
      PROVE  Ended(w)' = Ended(w) \cup
                 (IF a_word = w /\ content[index + 1] \notin Letter
                     THEN {index + 1 - Len(w)} ELSE {})
  BY <1>1, <1>2, <1>4, OneMoreEnds DEF Ended
<1>9. ASSUME NEW w \in Word!Word
      PROVE  /\ IsFiniteSet(Ended(w))
             /\ Cardinality(Ended(w)) \in Nat
             /\ index + 1 - Len(w) \notin Ended(w)
  <2>1. Len(w) \in Nat /\ index \in Nat
    BY <1>2, WordIsSeq DEF Word!WordAssumption
  <2>2. index + 1 - Len(w) \notin Ended(w)
    BY <2>1 DEF Ended
  <2>3. Ended(w) \subseteq Word!Places(w, content)
    BY DEF Ended
  <2> QED
    BY <1>2, <2>2, <2>3, PlacesAreFinite
<1>10. CASE content[index + 1] \in Letter
  <2>1. a_word' = Append(a_word, content[index + 1]) /\ words' = words
    BY <1>1, <1>10 DEF Word!NextChar
  <2>2. /\ a_word' \in Seq(Letter) /\ Len(a_word') = Len(a_word) + 1
        /\ a_word'[Len(a_word) + 1] = content[index + 1]
        /\ \A k \in 1 .. Len(a_word) : a_word'[k] = a_word[k]
    BY <1>2, <1>10, <2>1
  <2>3. Len(a_word) \in Nat /\ Len(a_word) <= index
    BY <1>2, <1>4 DEF EndsAt
  <2>4. EndsAt(a_word, content, index)'
    <3>1. /\ Len(a_word') <= index + 1
          /\ (index + 1) - Len(a_word') = index - Len(a_word)
          /\ (index + 1) > Len(a_word') <=> index > Len(a_word)
      BY <1>2, <2>2, <2>3
    <3>2. ASSUME NEW k \in 1 .. Len(a_word) + 1
          PROVE  content[(index - Len(a_word)) + k] = a_word'[k]
      <4>1. CASE k \in 1 .. Len(a_word)
        BY <1>4, <2>2, <4>1 DEF EndsAt
      <4>2. CASE k = Len(a_word) + 1
        <5>1. (index - Len(a_word)) + k = index + 1
          BY <1>2, <2>3, <4>2
        <5> QED
          BY <2>2, <4>2, <5>1
      <4> QED
        BY <2>3, <4>1, <4>2
    <3>3. (index + 1) > Len(a_word') => content[(index + 1) - Len(a_word')] \notin Letter
      BY <1>4, <3>1 DEF EndsAt
    <3> QED
      BY <1>1, <2>2, <3>1, <3>2, <3>3 DEF EndsAt
  <2>5. a_word' \in Word!Word
    <3>1. Len(a_word') \in 1 .. MaxLength
      BY <1>2, <1>5, <2>2, <2>3
    <3> QED
      BY <2>2, <3>1, WordIsSeq
  <2>6. ASSUME NEW w \in Word!Word
        PROVE  (Cardinality(Occurrences(words, w)) = Cardinality(Ended(w)))'
    <3>1. Ended(w)' = Ended(w)
      BY <1>8, <1>10
    <3>2. Occurrences(words, w)' = Occurrences(words, w)
      BY <2>1
    <3> QED
      BY <1>4, <3>1, <3>2
  <2>7. Cut'
    BY <1>1, <1>2, <1>4, <2>1, <2>4, <2>6 DEF Cut
  <2>8. WordTypes'
    BY <1>1, <1>2, <2>1, <2>5 DEF Separated, WordTypes
  <2> QED
    BY <1>1, <1>3, <1>6, <1>7, <2>7, <2>8 DEF Separated
<1>11. CASE content[index + 1] \notin Letter
  <2>1. /\ words' = IF a_word = <<>> THEN words ELSE Append(words, a_word)
        /\ a_word' = <<>>
    BY <1>1, <1>11 DEF Word!NextChar
  <2>2. a_word # <<>> => a_word \in Word!Word
    BY DEF Separated, WordTypes
  <2>3. words' \in Seq(Word!Word) /\ Len(words') <= index + 1
    <3>1. Len(words) \in Nat /\ index \in Nat
      BY <1>2
    <3> QED
      BY <1>2, <1>4, <2>1, <2>2, <3>1
  <2>4. EndsAt(a_word, content, index)'
    <3>1. EndsAt(<<>>, content, index + 1)
      BY <1>2, <1>11 DEF EndsAt
    <3> QED
      BY <1>1, <2>1, <3>1 DEF EndsAt
  <2>5. ASSUME NEW w \in Word!Word
        PROVE  (Cardinality(Occurrences(words, w)) = Cardinality(Ended(w)))'
    <3>1. w # <<>>
      BY WordIsSeq
    <3>2. Cardinality(Occurrences(words, w)) = Cardinality(Ended(w))
      BY <1>4
    <3>3. CASE a_word = w
      <4>1. words' = Append(words, w)
        BY <2>1, <3>1, <3>3
      <4>2. Cardinality(Occurrences(words, w)') = Cardinality(Occurrences(words, w)) + 1
        <5>1. Cardinality(Occurrences(Append(words, w), w)) =
                  Cardinality(Occurrences(words, w)) + (IF w = w THEN 1 ELSE 0)
          BY <1>2, OneMoreTaken
        <5> QED
          BY <4>1, <5>1
      <4>3. Ended(w)' = Ended(w) \cup {index + 1 - Len(w)}
        BY <1>8, <1>11, <3>3
      <4>4. Cardinality(Ended(w)') = Cardinality(Ended(w)) + 1
        BY <1>9, <4>3, FS_AddElement
      <4> QED
        BY <3>2, <4>2, <4>4
    <3>4. CASE a_word # w
      <4>1. Cardinality(Occurrences(words, w)') = Cardinality(Occurrences(words, w))
        <5>1. CASE a_word = <<>>
          BY <2>1, <5>1
        <5>2. CASE a_word # <<>>
          <6>1. words' = Append(words, a_word) /\ a_word \in Word!Word
            BY <2>1, <2>2, <5>2
          <6>2. /\ Cardinality(Occurrences(words, w)) \in Nat
                /\ Cardinality(Occurrences(Append(words, a_word), w)) =
                       Cardinality(Occurrences(words, w)) + (IF a_word = w THEN 1 ELSE 0)
            BY <1>2, <6>1, OneMoreTaken
          <6> QED
            BY <3>4, <6>1, <6>2
        <5> QED
          BY <5>1, <5>2
      <4>2. Ended(w)' = Ended(w)
        BY <1>8, <3>4
      <4> QED
        BY <3>2, <4>1, <4>2
    <3> QED
      BY <3>3, <3>4
  <2>6. Cut'
    BY <1>1, <2>3, <2>4, <2>5 DEF Cut
  <2>7. WordTypes'
    BY <1>1, <1>2, <2>1, <2>3 DEF Separated, WordTypes
  <2> QED
    BY <1>1, <1>3, <1>6, <1>7, <2>6, <2>7 DEF Separated
<1> QED
  BY <1>10, <1>11

\* Word has its own name for the operator of FiniteSets.
LEMMA SameCardinality == \A S : Word!Cardinality(S) = Cardinality(S)
  BY DEF Word!Cardinality, Cardinality

LEMMA SeparatedKeeps ==
    ASSUME Word!WordAssumption, Separated, [Word!main]_(Word!vars)
    PROVE  Separated'
<1>1. CASE Word!EndOfContent
  <2>1. /\ wordPc = "cut" /\ wordPc' = "count" /\ index = Len(content)
        /\ UNCHANGED <<file, taken, content, index, a_word, words, count>>
    BY <1>1 DEF Word!EndOfContent
  <2>2. WordTypes'
    BY <2>1 DEF Separated, WordTypes
  <2>3. Cut'
    BY <2>1 DEF Separated, Cut, EndsAt, Ended
  <2>4. CountedAll'
    BY <2>1 DEF Separated, CountedAll
  <2>5. (file \in Word!Text /\ Copied)'
    BY <2>1 DEF Separated, Copied, IsCopy
  <2> QED
    BY <2>2, <2>3, <2>4, <2>5 DEF Separated
<1>2. CASE Word!parseAndCount
  <2>1. /\ wordPc = "count" /\ wordPc' = "done"
        /\ UNCHANGED <<file, taken, content, index, a_word, words>>
        /\ count' = [w \in {words[i] : i \in DOMAIN words} |->
                        Cardinality({i \in DOMAIN words : words[i] = w})]
    BY <1>2, SameCardinality DEF Word!parseAndCount
  <2>2. WordTypes'
    BY <2>1 DEF Separated, WordTypes
  <2>3. Cut'
    BY <2>1 DEF Separated, Cut, EndsAt, Ended
  <2>4. CountedAll'
    BY <2>1 DEF CountedAll
  <2>5. (file \in Word!Text /\ Copied)'
    BY <2>1 DEF Separated, Copied, IsCopy
  <2> QED
    BY <2>2, <2>3, <2>4, <2>5 DEF Separated
<1>3. CASE UNCHANGED Word!vars
  <2>1. UNCHANGED <<file, wordPc, taken, content, index, a_word, words, count>>
    BY <1>3 DEF Word!vars
  <2>2. WordTypes'
    BY <2>1 DEF Separated, WordTypes
  <2>3. Cut'
    BY <2>1 DEF Separated, Cut, EndsAt, Ended
  <2>4. CountedAll'
    BY <2>1 DEF Separated, CountedAll
  <2>5. ASSUME Copied PROVE Copied'
    BY <2>1, <2>5 DEF Copied, IsCopy
  <2> QED
    BY <2>1, <2>2, <2>3, <2>4, <2>5 DEF Separated
<1> QED
  BY <1>1, <1>2, <1>3, ReadKeeps, CutKeeps DEF Word!main

\* All of the file has been read, and each character stands at pos.
Whole(pos) == IsCopy(pos) /\ taken = Len(file) + 1

LEMMA CopyTypes ==
    ASSUME Word!WordAssumption, WordTypes, file \in Word!Text, NEW pos, Whole(pos)
    PROVE  /\ Len(file) \in Nat /\ DOMAIN file = 1 .. Len(file)
           /\ Len(content) \in Nat /\ DOMAIN content = 1 .. Len(content)
           /\ \A i \in 1 .. Len(content) : /\ pos[i] \in 1 .. Len(file)
                                           /\ file[pos[i]] = content[i]
                                           /\ content[i] # LineEnd
           /\ \A i, j \in 1 .. Len(content) : i < j => pos[i] < pos[j]
           /\ \A p \in 1 .. Len(file) :
                  file[p] # LineEnd => \E i \in 1 .. Len(content) : pos[i] = p
<1>1. Len(file) \in Nat /\ DOMAIN file = 1 .. Len(file)
  BY TextIsSeq DEF Word!WordAssumption
<1>2. /\ content \in Seq(Word!Char \ {LineEnd})
      /\ Len(content) \in Nat /\ DOMAIN content = 1 .. Len(content)
  BY DEF WordTypes
<1>3. \A p \in 1 .. Len(file) : p <= taken
  BY <1>1 DEF Whole
<1> QED
  BY <1>1, <1>2, <1>3 DEF Whole, IsCopy

\* What is next to each other in the file is so in content.
LEMMA NextInFile ==
    ASSUME Word!WordAssumption, WordTypes, file \in Word!Text, NEW pos, Whole(pos),
           NEW i \in 1 .. Len(content), pos[i] < Len(file), file[pos[i] + 1] # LineEnd
    PROVE  i < Len(content) /\ pos[i + 1] = pos[i] + 1
<1>1. PICK m \in 1 .. Len(content) : pos[m] = pos[i] + 1
  <2>1. pos[i] \in 1 .. Len(file) /\ Len(file) \in Nat
    BY CopyTypes
  <2>2. pos[i] + 1 \in 1 .. Len(file)
    BY <2>1
  <2> QED
    BY <2>2, CopyTypes
<1>2. m > i
  <2>1. m = i => FALSE
    BY <1>1, CopyTypes
  <2>2. m < i => FALSE
    BY <1>1, CopyTypes
  <2> QED
    BY <2>1, <2>2
<1>3. m > i + 1 => FALSE
  <2> SUFFICES ASSUME m > i + 1 PROVE FALSE
    OBVIOUS
  <2>1. i + 1 \in 1 .. Len(content)
    BY CopyTypes
  <2>2. pos[i] < pos[i + 1] /\ pos[i + 1] < pos[m]
    BY <2>1, CopyTypes
  <2>3. pos[i] \in Nat /\ pos[i + 1] \in Nat
    BY <2>1, CopyTypes
  <2> QED
    BY <1>1, <2>2, <2>3
<1>4. m = i + 1
  BY <1>2, <1>3
<1> QED
  BY <1>1, <1>4, CopyTypes

LEMMA BeforeInFile ==
    ASSUME Word!WordAssumption, WordTypes, file \in Word!Text, NEW pos, Whole(pos),
           NEW i \in 1 .. Len(content), pos[i] > 1, file[pos[i] - 1] # LineEnd
    PROVE  i > 1 /\ pos[i - 1] = pos[i] - 1
<1>1. pos[i] - 1 \in 1 .. Len(file) /\ pos[i] \in Nat
  BY CopyTypes
<1>2. PICK m \in 1 .. Len(content) : pos[m] = pos[i] - 1
  BY <1>1, CopyTypes
<1>3. pos[m] + 1 = pos[i] /\ pos[m] < Len(file) /\ file[pos[i]] # LineEnd
  <2>1. pos[i] \in 1 .. Len(file) /\ Len(file) \in Nat /\ file[pos[i]] # LineEnd
    BY CopyTypes
  <2> QED
    BY <1>1, <1>2, <2>1
<1>4. m < Len(content) /\ pos[m + 1] = pos[i]
  BY <1>3, NextInFile
<1>5. m + 1 = i
  <2>1. m + 1 \in 1 .. Len(content)
    BY <1>4, CopyTypes
  <2>2. m + 1 < i => FALSE
    BY <1>1, <1>4, <2>1, CopyTypes
  <2>3. m + 1 > i => FALSE
    BY <1>1, <1>4, <2>1, CopyTypes
  <2> QED
    BY <2>1, <2>2, <2>3
<1> QED
  BY <1>2, <1>5

\* What follows a letter in content does so in the file.
LEMMA AfterLetter ==
    ASSUME Word!WordAssumption, WordTypes, file \in Word!Text, NEW pos, Whole(pos), ~Word!Joined,
           NEW i \in 1 .. Len(content) - 1, content[i] \in Letter
    PROVE  pos[i + 1] = pos[i] + 1
<1>1. /\ i \in 1 .. Len(content) /\ i + 1 \in 1 .. Len(content) /\ i < i + 1
      /\ Len(file) \in Nat /\ DOMAIN file = 1 .. Len(file)
  BY CopyTypes
<1>2. /\ pos[i] \in 1 .. Len(file) /\ pos[i + 1] \in 1 .. Len(file)
      /\ pos[i] < pos[i + 1] /\ file[pos[i]] = content[i]
  BY <1>1, CopyTypes
<1>3. pos[i] + 1 \in DOMAIN file /\ pos[i] + 1 > 1 /\ (pos[i] + 1) - 1 = pos[i] /\ pos[i] < Len(file)
  BY <1>1, <1>2
<1>4. file[pos[i] + 1] # LineEnd
  BY <1>2, <1>3 DEF Word!Joined
<1> QED
  BY <1>1, <1>3, <1>4, NextInFile

\* A statement about the numbers up to n that goes from each to the next.
LEMMA UpTo ==
    ASSUME NEW n \in Nat, NEW S, 1 \in S, \A k \in 1 .. n - 1 : k \in S => k + 1 \in S
    PROVE  \A k \in 1 .. n : k \in S
<1> DEFINE Rest == (1 .. n) \ S
           f == [k \in Rest |-> k]
<1>1. SUFFICES ASSUME Rest # {} PROVE FALSE
  OBVIOUS
<1>2. \A k \in Rest : f[k] = k /\ k \in Nat
  OBVIOUS
<1> HIDE DEF Rest, f
<1>3. PICK k \in Rest : \A y \in Rest : ~(f[y] < f[k])
  BY <1>1, <1>2, LeastNumber
<1>4. k \in 1 .. n /\ k \notin S /\ k # 1
  BY DEF Rest
<1>5. k - 1 \in 1 .. n - 1 /\ (k - 1) + 1 = k
  BY <1>4
<1>6. k - 1 \notin S
  BY <1>4, <1>5
<1>7. k - 1 \in Rest
  BY <1>5, <1>6 DEF Rest
<1> QED
  BY <1>2, <1>3, <1>4, <1>7

\* A word is in one piece in both.
LEMMA RunInFile ==
    ASSUME Word!WordAssumption, WordTypes, file \in Word!Text, NEW pos, Whole(pos), ~Word!Joined,
           NEW i \in 1 .. Len(content), NEW n \in Nat \ {0}, i + n - 1 <= Len(content),
           \A k \in 1 .. n : content[i + k - 1] \in Letter
    PROVE  \A k \in 1 .. n : pos[i + k - 1] = pos[i] + k - 1
<1> DEFINE S == {k \in 1 .. n : pos[i + k - 1] = pos[i] + k - 1}
<1>1. pos[i] \in Nat /\ Len(content) \in Nat
  BY CopyTypes
<1>2. 1 \in S
  BY <1>1
<1>3. ASSUME NEW k \in 1 .. n - 1, k \in S PROVE k + 1 \in S
  <2>1. /\ i + k - 1 \in 1 .. Len(content) - 1
        /\ k + 1 \in 1 .. n
        /\ i + (k + 1) - 1 = (i + k - 1) + 1
        /\ pos[i] + (k + 1) - 1 = (pos[i] + k - 1) + 1
    BY <1>1
  <2>2. content[i + k - 1] \in Letter
    <3>1. k \in 1 .. n
      OBVIOUS
    <3> QED
      BY <3>1
  <2>3. pos[(i + k - 1) + 1] = pos[i + k - 1] + 1
    BY <2>1, <2>2, AfterLetter
  <2> QED
    BY <1>3, <2>1, <2>3
<1> HIDE DEF S
<1>4. \A k \in 1 .. n : k \in S
  BY <1>2, <1>3, UpTo
<1> QED
  BY <1>4 DEF S

LEMMA RunInContent ==
    ASSUME Word!WordAssumption, WordTypes, file \in Word!Text, NEW pos, Whole(pos),
           NEW i \in 1 .. Len(content), NEW n \in Nat \ {0}, pos[i] + n - 1 <= Len(file),
           \A k \in 1 .. n : file[pos[i] + k - 1] # LineEnd
    PROVE  \A k \in 1 .. n : i + k - 1 <= Len(content) /\ pos[i + k - 1] = pos[i] + k - 1
<1> DEFINE S == {k \in 1 .. n : i + k - 1 <= Len(content) /\ pos[i + k - 1] = pos[i] + k - 1}
<1>1. pos[i] \in Nat \ {0} /\ Len(content) \in Nat /\ Len(file) \in Nat
  BY CopyTypes
<1>2. 1 \in S
  BY <1>1
<1>3. ASSUME NEW k \in 1 .. n - 1, k \in S PROVE k + 1 \in S
  <2>1. /\ i + k - 1 \in 1 .. Len(content)
        /\ k + 1 \in 1 .. n
        /\ i + (k + 1) - 1 = (i + k - 1) + 1
        /\ pos[i] + (k + 1) - 1 = (pos[i] + k - 1) + 1
        /\ pos[i] + k - 1 < Len(file)
    BY <1>1, <1>3
  <2>2. file[(pos[i] + k - 1) + 1] # LineEnd
    BY <2>1
  <2>3. i + k - 1 < Len(content) /\ pos[(i + k - 1) + 1] = pos[i + k - 1] + 1
    BY <1>3, <2>1, <2>2, NextInFile
  <2>4. i + (k + 1) - 1 <= Len(content)
    BY <1>1, <2>1, <2>3
  <2> QED
    BY <1>3, <2>1, <2>3, <2>4
<1> HIDE DEF S
<1>4. \A k \in 1 .. n : k \in S
  BY <1>2, <1>3, UpTo
<1> QED
  BY <1>4 DEF S

LEMMA SamePlaces ==
    ASSUME Word!WordAssumption, WordTypes, file \in Word!Text, NEW pos, Whole(pos), ~Word!Joined,
           NEW w \in Word!Word
    PROVE  /\ \A i \in Word!Places(w, content) : pos[i] \in Word!Places(w, file)
           /\ \A p \in Word!Places(w, file) :
                  \E i \in Word!Places(w, content) : pos[i] = p
<1> DEFINE n == Len(w)
<1>1. /\ Letter \cap {LineEnd} = {}
      /\ w \in Seq(Letter) /\ n \in Nat \ {0} /\ DOMAIN w = 1 .. n
      /\ \A k \in 1 .. n : w[k] \in Letter
  <2>1. w \in Seq(Letter) /\ n \in Nat \ {0} /\ DOMAIN w = 1 .. n
    BY WordIsSeq DEF Word!WordAssumption
  <2>2. Letter \cap {LineEnd} = {}
    BY DEF Word!WordAssumption
  <2> QED
    BY <2>1, <2>2
<1>2. /\ Len(file) \in Nat /\ DOMAIN file = 1 .. Len(file)
      /\ Len(content) \in Nat /\ DOMAIN content = 1 .. Len(content)
  BY CopyTypes
<1> HIDE DEF n
<1>3. \A text, i : i \in Word!Places(w, text) <=>
          /\ i \in DOMAIN text
          /\ i + n - 1 <= Len(text)
          /\ \A k \in 1 .. n : text[i + k - 1] = w[k]
          /\ i > 1 => text[i - 1] \notin Letter
          /\ i + n <= Len(text) => text[i + n] \notin Letter
  BY <1>1 DEF Word!Places, n
\* Around a piece that is in one piece in both.
<1>4. ASSUME NEW i \in 1 .. Len(content), i + n - 1 <= Len(content),
             \A k \in 1 .. n : pos[i + k - 1] = pos[i] + k - 1,
             \A k \in 1 .. n : content[i + k - 1] = w[k]
      PROVE  /\ pos[i] \in 1 .. Len(file) /\ pos[i] + n - 1 <= Len(file)
             /\ \A k \in 1 .. n : file[pos[i] + k - 1] = w[k]
             /\ (i > 1 /\ content[i - 1] \in Letter) <=> (pos[i] > 1 /\ file[pos[i] - 1] \in Letter)
             /\ (i + n <= Len(content) /\ content[i + n] \in Letter) <=>
                    (pos[i] + n <= Len(file) /\ file[pos[i] + n] \in Letter)
  <2>1. /\ \A k \in 1 .. n : i + k - 1 \in 1 .. Len(content)
        /\ n \in 1 .. n /\ i + n - 1 \in 1 .. Len(content) /\ (i + n - 1) + 1 = i + n
    BY <1>1, <1>2, <1>4
  <2>2. \A k \in 1 .. n : file[pos[i] + k - 1] = w[k]
    <3>1. ASSUME NEW k \in 1 .. n
          PROVE  file[pos[i] + k - 1] = w[k]
      <4>1. i + k - 1 \in 1 .. Len(content)
        BY <2>1
      <4>2. file[pos[i + k - 1]] = content[i + k - 1]
        BY <4>1, CopyTypes
      <4> QED
        BY <1>4, <4>2
    <3> QED
      BY <3>1
  <2>3. /\ pos[i] \in 1 .. Len(file) /\ pos[i + n - 1] = pos[i] + n - 1
        /\ pos[i + n - 1] \in 1 .. Len(file)
    BY <1>4, <2>1, CopyTypes
  <2>4. /\ pos[i] + n - 1 <= Len(file)
        /\ (pos[i] + n - 1) + 1 = pos[i] + n
        /\ pos[i] + n <= Len(file) <=> pos[i + n - 1] < Len(file)
    BY <1>1, <1>2, <2>3
  <2>5. ASSUME i > 1, content[i - 1] \in Letter
        PROVE  pos[i] > 1 /\ file[pos[i] - 1] \in Letter
    <3>1. i - 1 \in 1 .. Len(content) - 1 /\ (i - 1) + 1 = i /\ i - 1 \in 1 .. Len(content)
      BY <1>2, <2>5
    <3>2. pos[i] = pos[i - 1] + 1
      BY <2>5, <3>1, AfterLetter
    <3>3. pos[i - 1] \in 1 .. Len(file) /\ file[pos[i - 1]] = content[i - 1]
      BY <3>1, CopyTypes
    <3>4. pos[i] - 1 = pos[i - 1] /\ pos[i] > 1
      BY <3>2, <3>3
    <3> QED
      BY <2>5, <3>3, <3>4
  <2>6. ASSUME pos[i] > 1, file[pos[i] - 1] \in Letter
        PROVE  i > 1 /\ content[i - 1] \in Letter
    <3>1. i > 1 /\ pos[i - 1] = pos[i] - 1
      BY <1>1, <2>6, BeforeInFile
    <3>2. i - 1 \in 1 .. Len(content)
      BY <1>2, <3>1
    <3>3. file[pos[i - 1]] = content[i - 1]
      BY <3>2, CopyTypes
    <3> QED
      BY <2>6, <3>1, <3>3
  <2>7. ASSUME i + n <= Len(content), content[i + n] \in Letter
        PROVE  pos[i] + n <= Len(file) /\ file[pos[i] + n] \in Letter
    <3>1. i + n - 1 \in 1 .. Len(content) - 1 /\ i + n \in 1 .. Len(content)
      BY <1>1, <1>2, <2>1, <2>7
    <3>2. content[i + n - 1] \in Letter
      BY <1>1, <1>4, <2>1
    <3>3. pos[i + n] = pos[i] + n
      BY <2>1, <2>3, <2>4, <3>1, <3>2, AfterLetter
    <3>4. pos[i + n] \in 1 .. Len(file) /\ file[pos[i + n]] = content[i + n]
      BY <3>1, CopyTypes
    <3> QED
      BY <1>2, <2>7, <3>3, <3>4
  <2>8. ASSUME pos[i] + n <= Len(file), file[pos[i] + n] \in Letter
        PROVE  i + n <= Len(content) /\ content[i + n] \in Letter
    <3>1. pos[i + n - 1] < Len(file) /\ file[pos[i + n - 1] + 1] # LineEnd
      BY <1>1, <2>3, <2>4, <2>8
    <3>2. i + n - 1 < Len(content) /\ pos[i + n] = pos[i] + n
      BY <2>1, <2>3, <2>4, <3>1, NextInFile
    <3>3. i + n \in 1 .. Len(content)
      BY <1>1, <1>2, <2>1, <3>2
    <3>4. file[pos[i + n]] = content[i + n]
      BY <3>3, CopyTypes
    <3> QED
      BY <1>2, <2>8, <3>2, <3>3, <3>4
  <2> QED
    BY <2>2, <2>3, <2>4, <2>5, <2>6, <2>7, <2>8
<1>5. ASSUME NEW i \in Word!Places(w, content)
      PROVE  pos[i] \in Word!Places(w, file)
  <2>1. /\ i \in 1 .. Len(content)
        /\ i + n - 1 <= Len(content)
        /\ \A k \in 1 .. n : content[i + k - 1] = w[k]
        /\ i > 1 => content[i - 1] \notin Letter
        /\ i + n <= Len(content) => content[i + n] \notin Letter
    BY <1>2, <1>3
  <2>2. \A k \in 1 .. n : content[i + k - 1] \in Letter
    BY <1>1, <2>1
  <2>3. \A k \in 1 .. n : pos[i + k - 1] = pos[i] + k - 1
    <3>1. n \in Nat \ {0}
      BY <1>1
    <3>2. i \in 1 .. Len(content)
      BY <2>1
    <3>3. i + n - 1 <= Len(content)
      BY <2>1
    <3> QED
      BY <2>2, <3>1, <3>2, <3>3, RunInFile, Zenon
  <2>4. /\ pos[i] \in 1 .. Len(file) /\ pos[i] + n - 1 <= Len(file)
        /\ \A k \in 1 .. n : file[pos[i] + k - 1] = w[k]
        /\ ~(pos[i] > 1 /\ file[pos[i] - 1] \in Letter)
        /\ ~(pos[i] + n <= Len(file) /\ file[pos[i] + n] \in Letter)
    BY <1>4, <2>1, <2>3
  <2> QED
    BY <1>2, <1>3, <2>4
<1>6. ASSUME NEW p \in Word!Places(w, file)
      PROVE  \E i \in Word!Places(w, content) : pos[i] = p
  <2>1. /\ p \in 1 .. Len(file)
        /\ p + n - 1 <= Len(file)
        /\ \A k \in 1 .. n : file[p + k - 1] = w[k]
        /\ p > 1 => file[p - 1] \notin Letter
        /\ p + n <= Len(file) => file[p + n] \notin Letter
    BY <1>2, <1>3
  <2>2. \A k \in 1 .. n : file[p + k - 1] # LineEnd
    BY <1>1, <2>1
  <2>3. file[p] # LineEnd
    <3>1. 1 \in 1 .. n /\ p + 1 - 1 = p
      BY <1>1, <2>1
    <3> QED
      BY <2>2, <3>1
  <2>4. PICK i \in 1 .. Len(content) : pos[i] = p
    BY <2>1, <2>3, CopyTypes
  <2>5. \A k \in 1 .. n : i + k - 1 <= Len(content) /\ pos[i + k - 1] = pos[i] + k - 1
    <3>1. n \in Nat \ {0}
      BY <1>1
    <3>2. pos[i] + n - 1 <= Len(file)
      BY <2>1, <2>4
    <3>3. \A k \in 1 .. n : file[pos[i] + k - 1] # LineEnd
      BY <2>2, <2>4
    <3> QED
      BY <3>1, <3>2, <3>3, RunInContent, Zenon
  <2>6. i + n - 1 <= Len(content)
    BY <1>1, <2>5
  <2>7. ASSUME NEW k \in 1 .. n
        PROVE  content[i + k - 1] = w[k]
    <3>1. i + k - 1 \in 1 .. Len(content)
      <4>1. i + k - 1 <= Len(content)
        BY <2>5
      <4> QED
        BY <1>1, <1>2, <4>1
    <3>2. file[pos[i + k - 1]] = content[i + k - 1]
      BY <3>1, CopyTypes
    <3> QED
      BY <2>1, <2>4, <2>5, <3>2
  <2>8. /\ ~(i > 1 /\ content[i - 1] \in Letter)
        /\ ~(i + n <= Len(content) /\ content[i + n] \in Letter)
    BY <1>4, <2>1, <2>4, <2>5, <2>6, <2>7
  <2> QED
    BY <1>2, <1>3, <2>4, <2>6, <2>7, <2>8
<1> QED
  BY <1>5, <1>6

LEMMA AsManyPlaces ==
    ASSUME Word!WordAssumption, WordTypes, file \in Word!Text, NEW pos, Whole(pos), ~Word!Joined,
           NEW w \in Word!Word
    PROVE  Cardinality(Word!Places(w, file)) = Cardinality(Word!Places(w, content))
<1> DEFINE A == Word!Places(w, content)
           B == Word!Places(w, file)
           f == [i \in A |-> pos[i]]
<1>1. A \subseteq 1 .. Len(content) /\ content \in Seq(Word!Char)
  BY DEF WordTypes, Word!Places
<1>2. IsFiniteSet(A)
  BY <1>1, PlacesAreFinite
<1>3. \A i \in A : f[i] \in B
  BY SamePlaces
<1>4. \A p \in B : \E i \in A : f[i] = p
  BY SamePlaces
<1>5. \A i, j \in A : f[i] = f[j] => i = j
  <2>1. SUFFICES ASSUME NEW i \in A, NEW j \in A, f[i] = f[j], i # j PROVE FALSE
    OBVIOUS
  <2>2. i \in 1 .. Len(content) /\ j \in 1 .. Len(content) /\ pos[i] = pos[j]
    BY <1>1, <2>1
  <2>3. pos[i] \in Nat /\ pos[j] \in Nat /\ (i < j => pos[i] < pos[j]) /\ (j < i => pos[j] < pos[i])
    BY <2>2, CopyTypes
  <2> QED
    BY <2>1, <2>2, <2>3
<1>6. f \in [A -> B]
  BY <1>3
<1> HIDE DEF A, B, f
<1>7. f \in Bijection(A, B)
  BY <1>4, <1>5, <1>6, Fun_IsInj, Fun_IsSurj DEF Bijection
<1>8. ExistsBijection(A, B)
  BY <1>7 DEF ExistsBijection
<1>9. Cardinality(B) = Cardinality(A)
  BY <1>2, <1>8, FS_Bijection
<1> QED
  BY <1>9 DEF A, B

LEMMA CountIs ==
    ASSUME Word!WordAssumption, Separated, wordPc = "done"
    PROVE  /\ DOMAIN count = {words[i] : i \in DOMAIN words}
           /\ \A w \in DOMAIN count : count[w] = Cardinality(Occurrences(words, w))
           /\ \A w : Word!Counted(w) = Cardinality(Occurrences(words, w))
<1>1. count = [w \in {words[i] : i \in DOMAIN words} |-> Cardinality(Occurrences(words, w))]
  BY DEF Separated, CountedAll, Occurrences
<1>2. /\ DOMAIN count = {words[i] : i \in DOMAIN words}
      /\ \A w \in DOMAIN count : count[w] = Cardinality(Occurrences(words, w))
  BY <1>1
<1>3. ASSUME NEW w, w \notin DOMAIN count
      PROVE  Cardinality(Occurrences(words, w)) = 0
  <2>1. Occurrences(words, w) = {}
    BY <1>2, <1>3 DEF Occurrences
  <2> QED
    BY <2>1, EmptyIsFinite
<1>4. \A w : Word!Counted(w) = Cardinality(Occurrences(words, w))
  BY <1>2, <1>3 DEF Word!Counted
<1> QED
  BY <1>2, <1>4

LEMMA SeparatedTypes ==
    ASSUME Word!WordAssumption, Separated
    PROVE  Word!TypeOK
<1>1. MaxLength \in Nat
  BY DEF Word!WordAssumption
<1>2. WordTypes
  BY DEF Separated
<1>3. taken \in 0 .. MaxLength + 1
  <2>1. CASE taken = 0
    BY <1>1, <2>1
  <2>2. CASE file \in Word!Text /\ Copied
    <3>1. taken \in 0 .. Len(file) + 1 /\ Len(file) \in 0 .. MaxLength
      BY <2>2, TextIsSeq DEF Copied
    <3> QED
      BY <1>1, <3>1
  <2> QED
    BY <2>1, <2>2 DEF Separated
<1>4. CASE wordPc # "done"
  <2>1. count = <<>>
    BY <1>4 DEF Separated, CountedAll
  <2>2. DOMAIN count = {} /\ count \in [DOMAIN count -> 1 .. MaxLength]
    BY <2>1
  <2> QED
    BY <1>2, <1>3, <2>2 DEF WordTypes, Word!TypeOK
<1>5. CASE wordPc = "done"
  <2>1. Len(words) \in Nat /\ DOMAIN words = 1 .. Len(words)
    BY <1>2 DEF WordTypes
  <2>2. Len(words) <= MaxLength
    <3>1. file \in Word!Text /\ Copied
      BY <1>5 DEF Separated
    <3>2. Len(file) \in 0 .. MaxLength /\ Len(content) <= Len(file)
      BY <3>1, TextIsSeq DEF Copied
    <3>3. Len(words) <= index /\ index \in 0 .. Len(content) /\ Len(content) \in Nat
      BY <1>2 DEF Separated, Cut, WordTypes
    <3> QED
      BY <1>1, <2>1, <3>2, <3>3
  <2>3. ASSUME NEW w \in DOMAIN count
        PROVE  count[w] \in 1 .. MaxLength
    <3> DEFINE O == Occurrences(words, w)
    <3>1. O \subseteq 1 .. Len(words) /\ O # {}
      <4>1. \E i \in DOMAIN words : words[i] = w
        BY <1>5, CountIs
      <4> QED
        BY <2>1, <4>1 DEF Occurrences
    <3> HIDE DEF O
    <3>2. IsFiniteSet(1 .. Len(words)) /\ Cardinality(1 .. Len(words)) = Len(words)
      BY <2>1, FS_Interval
    <3>3. IsFiniteSet(O) /\ Cardinality(O) <= Cardinality(1 .. Len(words))
      BY <3>1, <3>2, FS_Subset
    <3>4. Cardinality(O) \in Nat /\ Cardinality(O) # 0
      BY <3>1, <3>3, FS_CardinalityType, FS_EmptySet
    <3>5. count[w] = Cardinality(O)
      BY <1>5, CountIs DEF O
    <3> QED
      BY <1>1, <2>1, <2>2, <3>2, <3>3, <3>4, <3>5
  <2>4. DOMAIN count \subseteq {words[i] : i \in DOMAIN words}
    BY <1>5, CountIs
  <2>5. count \in [DOMAIN count -> 1 .. MaxLength]
    <3>1. count = [w \in DOMAIN count |-> count[w]]
      BY <1>5 DEF Separated, CountedAll
    <3> QED
      BY <2>3, <3>1
  <2> QED
    BY <1>2, <1>3, <2>4, <2>5 DEF WordTypes, Word!TypeOK
<1> QED
  BY <1>4, <1>5

\* Once all has been cut, every word of content has ended but the last.
LEMMA PlacesAtEnd ==
    ASSUME Word!WordAssumption, WordTypes, Cut, index = Len(content), NEW w \in Word!Word
    PROVE  Cardinality(Word!Places(w, content)) =
               Cardinality(Occurrences(words, w)) + (IF a_word = w THEN 1 ELSE 0)
<1> DEFINE last == Len(content) + 1 - Len(w)
<1>1. /\ w \in Seq(Letter) /\ Len(w) \in Nat \ {0}
      /\ content \in Seq(Word!Char) /\ Len(content) \in Nat
  BY WordIsSeq DEF WordTypes, Word!WordAssumption
<1>2. EndsAt(a_word, content, Len(content))
  BY DEF Cut
<1>3. a_word \in Seq(Letter)
  <2>1. <<>> \in Seq(Letter)
    OBVIOUS
  <2>2. \A v \in Word!Word : v \in Seq(Letter)
    BY WordIsSeq
  <2> QED
    BY <2>1, <2>2 DEF WordTypes
<1>4. \A i \in Word!Places(w, content) : i \in Nat /\ i <= last
  <2>1. \A i \in Word!Places(w, content) : i \in Nat
    BY DEF Word!Places
  <2>2. ASSUME NEW i \in Word!Places(w, content)
        PROVE  i <= last
    <3>1. i \in 1 .. Len(content) + 1 - Len(w)
      BY <1>1, <2>1, PlaceOfWord
    <3> QED
      BY <1>1, <3>1
  <2> QED
    BY <2>1, <2>2
<1>5. last \in Word!Places(w, content) <=> a_word = w
  <2>1. ASSUME last \in Word!Places(w, content)
        PROVE  a_word = w
    <3>1. last \in Nat
      BY <1>4, <2>1
    <3>2. EndsAt(w, content, last + Len(w) - 1)
      BY <1>1, <2>1, <3>1, PlaceOfWord
    <3>3. last + Len(w) - 1 = Len(content)
      BY <1>1
    <3> QED
      BY <1>1, <1>2, <1>3, <3>2, <3>3, OneWordEnds
  <2>2. ASSUME a_word = w
        PROVE  last \in Word!Places(w, content)
    <3>1. Len(w) <= Len(content)
      BY <1>2, <2>2 DEF EndsAt
    <3>2. /\ last \in Nat /\ last \in 1 .. Len(content) + 1 - Len(w)
          /\ last + Len(w) - 1 = Len(content) /\ ~(last + Len(w) <= Len(content))
      BY <1>1, <3>1
    <3>3. EndsAt(w, content, last + Len(w) - 1)
      BY <1>2, <2>2, <3>2
    <3> HIDE DEF last
    <3> QED
      BY <1>1, <3>2, <3>3, PlaceOfWord
  <2> QED
    BY <2>1, <2>2
<1>6. \A i \in Nat : i + Len(w) <= Len(content) <=> i <= last /\ i # last
  BY <1>1
<1> HIDE DEF last
<1>7. Ended(w) = Word!Places(w, content) \ {last}
  <2>1. \A i \in Word!Places(w, content) : i + Len(w) <= index <=> i # last
    BY <1>4, <1>6
  <2> QED
    BY <2>1 DEF Ended
<1>8. Cardinality(Occurrences(words, w)) = Cardinality(Ended(w))
  BY DEF Cut
<1>9. IsFiniteSet(Word!Places(w, content)) /\ Cardinality(Word!Places(w, content)) \in Nat
  BY <1>1, PlacesAreFinite
<1>10. Cardinality(Ended(w)) = IF a_word = w THEN Cardinality(Word!Places(w, content)) - 1
                               ELSE Cardinality(Word!Places(w, content))
  BY <1>5, <1>7, <1>9, FS_RemoveElement
<1> QED
  BY <1>8, <1>9, <1>10

\* A word that is left at the end ends the file.
LEMMA LastOfFile ==
    ASSUME Word!WordAssumption, WordTypes, file \in Word!Text, NEW pos, Whole(pos), ~Word!Joined,
           EndsAt(a_word, content, Len(content)), a_word \in Word!Word
    PROVE  file # <<>> /\ file[Len(file)] \in Letter
<1>1. a_word \in Seq(Letter) /\ Len(a_word) \in Nat \ {0}
  BY WordIsSeq DEF Word!WordAssumption
<1>2. /\ Len(file) \in Nat /\ DOMAIN file = 1 .. Len(file) /\ Len(content) \in Nat
  BY CopyTypes
<1> DEFINE i == Len(content)
<1>3. content[(i - Len(a_word)) + Len(a_word)] = a_word[Len(a_word)] /\ Len(a_word) <= i
  BY <1>1 DEF EndsAt
<1>4. (i - Len(a_word)) + Len(a_word) = i /\ i \in 1 .. Len(content)
  BY <1>1, <1>2, <1>3
<1>5. content[i] \in Letter
  BY <1>1, <1>3, <1>4
<1>6. pos[i] \in 1 .. Len(file) /\ file[pos[i]] = content[i]
  BY <1>4, CopyTypes
<1>7. pos[i] = Len(file)
  <2>1. SUFFICES ASSUME pos[i] < Len(file) PROVE FALSE
    BY <1>2, <1>6
  <2>2. pos[i] + 1 \in DOMAIN file /\ pos[i] + 1 > 1 /\ (pos[i] + 1) - 1 = pos[i]
    BY <1>2, <1>6, <2>1
  <2>3. file[pos[i] + 1] # LineEnd
    BY <1>5, <1>6, <2>2 DEF Word!Joined
  <2>4. i < Len(content)
    BY <1>4, <2>1, <2>3, NextInFile
  <2> QED
    BY <1>2, <2>4
<1> QED
  BY <1>2, <1>5, <1>6, <1>7

\* A word clear of line ends is one of content too, with something after it.
LEMMA ClearPlaces ==
    ASSUME Word!WordAssumption, WordTypes, file \in Word!Text, NEW pos, Whole(pos),
           index = Len(content), NEW w \in Word!Word, NEW p \in Word!Clear(w)
    PROVE  \E i \in Ended(w) : pos[i] = p
<1> DEFINE n == Len(w)
<1>1. /\ (Letter \cup Space) \cap {LineEnd} = {} /\ Letter \cap Space = {}
      /\ n \in Nat \ {0} /\ DOMAIN w = 1 .. n
      /\ \A k \in 1 .. n : w[k] \in Letter
  <2>1. w \in Seq(Letter) /\ n \in Nat \ {0} /\ DOMAIN w = 1 .. n
    BY WordIsSeq DEF Word!WordAssumption
  <2>2. (Letter \cup Space) \cap {LineEnd} = {} /\ Letter \cap Space = {}
    BY DEF Word!WordAssumption
  <2> QED
    BY <2>1, <2>2
<1>2. /\ Len(file) \in Nat /\ DOMAIN file = 1 .. Len(file)
      /\ Len(content) \in Nat /\ DOMAIN content = 1 .. Len(content)
  BY CopyTypes
<1> HIDE DEF n
<1>3. /\ p \in 1 .. Len(file) /\ p + n - 1 < Len(file)
      /\ \A k \in 1 .. n : file[p + k - 1] = w[k]
      /\ p > 1 => file[p - 1] \in Space
      /\ file[p + n] \in Space
  <2>1. /\ p \in DOMAIN file
        /\ \A k \in DOMAIN w : file[p + k - 1] = w[k]
        /\ p > 1 => file[p - 1] \in Space
        /\ p + n \in DOMAIN file
        /\ file[p + n] \in Space
    BY DEF Word!Clear, Word!Places, n
  <2>2. p + n - 1 < Len(file)
    BY <1>1, <1>2, <2>1
  <2> QED
    BY <1>1, <1>2, <2>1, <2>2
<1>4. \A k \in 1 .. n : file[p + k - 1] # LineEnd
  BY <1>1, <1>3
<1>5. file[p] # LineEnd
  <2>1. 1 \in 1 .. n /\ p + 1 - 1 = p
    BY <1>1, <1>3
  <2> QED
    BY <1>4, <2>1
<1>6. PICK i \in 1 .. Len(content) : pos[i] = p
  BY <1>3, <1>5, CopyTypes
<1>7. \A k \in 1 .. n : i + k - 1 <= Len(content) /\ pos[i + k - 1] = pos[i] + k - 1
  <2>1. n \in Nat \ {0}
    BY <1>1
  <2>2. pos[i] + n - 1 <= Len(file)
    BY <1>1, <1>2, <1>3, <1>6
  <2>3. \A k \in 1 .. n : file[pos[i] + k - 1] # LineEnd
    BY <1>4, <1>6
  <2> QED
    BY <2>1, <2>2, <2>3, RunInContent, Zenon
<1>8. ASSUME NEW k \in 1 .. n
      PROVE  content[i + k - 1] = w[k]
  <2>1. i + k - 1 \in 1 .. Len(content)
    <3>1. i + k - 1 <= Len(content)
      BY <1>7
    <3> QED
      BY <1>1, <1>2, <3>1
  <2>2. file[pos[i + k - 1]] = content[i + k - 1]
    BY <2>1, CopyTypes
  <2> QED
    BY <1>3, <1>6, <1>7, <2>2
\* What follows it is there, and no letter.
<1>9. i + n <= Len(content) /\ content[i + n] \notin Letter
  <2> DEFINE e == i + n - 1
  <2>1. e \in 1 .. Len(content) /\ pos[e] = p + n - 1 /\ e + 1 = i + n
    <3>1. n \in 1 .. n
      BY <1>1
    <3>2. i + n - 1 <= Len(content) /\ pos[i + n - 1] = pos[i] + n - 1
      BY <1>7, <3>1
    <3> QED
      BY <1>1, <1>2, <1>6, <3>2
  <2>2. pos[e] < Len(file) /\ pos[e] + 1 = p + n
    BY <1>1, <1>2, <1>3, <2>1
  <2>3. file[pos[e] + 1] # LineEnd
    BY <1>1, <1>3, <2>2
  <2> HIDE DEF e
  <2>4. e < Len(content) /\ pos[e + 1] = p + n
    BY <2>1, <2>2, <2>3, NextInFile
  <2>5. i + n \in 1 .. Len(content)
    BY <1>1, <1>2, <2>1, <2>4
  <2>6. file[pos[i + n]] = content[i + n] /\ pos[i + n] = p + n
    BY <2>1, <2>4, <2>5, CopyTypes
  <2> QED
    BY <1>1, <1>3, <2>5, <2>6
\* So is what precedes it.
<1>10. i > 1 => content[i - 1] \notin Letter
  <2> SUFFICES ASSUME i > 1 PROVE content[i - 1] \notin Letter
    OBVIOUS
  <2>1. i - 1 \in 1 .. Len(content)
    BY <1>2
  <2>2. pos[i - 1] < p /\ pos[i - 1] \in 1 .. Len(file)
    <3>1. i - 1 < i
      OBVIOUS
    <3> QED
      BY <1>6, <2>1, <3>1, CopyTypes
  <2>3. p > 1
    BY <1>2, <1>3, <2>2
  <2>4. file[pos[i] - 1] # LineEnd /\ pos[i] > 1
    BY <1>1, <1>3, <1>6, <2>3
  <2>5. pos[i - 1] = p - 1
    BY <1>6, <2>4, BeforeInFile
  <2>6. file[pos[i - 1]] = content[i - 1]
    BY <2>1, CopyTypes
  <2> QED
    BY <1>1, <1>3, <2>3, <2>5, <2>6
<1>11. i \in Word!Places(w, content)
  <2>1. i \in DOMAIN content /\ i + n - 1 <= Len(content)
    BY <1>1, <1>2, <1>9
  <2>2. \A k \in DOMAIN w : content[i + k - 1] = w[k]
    BY <1>1, <1>8
  <2> QED
    BY <1>9, <1>10, <2>1, <2>2 DEF Word!Places, n
<1> QED
  BY <1>6, <1>9, <1>11 DEF Ended, n

\* So there are at most as many as words taken.
LEMMA AtLeastClear ==
    ASSUME Word!WordAssumption, WordTypes, Cut, file \in Word!Text, NEW pos, Whole(pos),
           index = Len(content), NEW w \in Word!Word
    PROVE  Cardinality(Word!Clear(w)) <= Cardinality(Occurrences(words, w))
<1> DEFINE A == Word!Clear(w)
           B == Ended(w)
           f == [p \in A |-> CHOOSE i \in B : pos[i] = p]
<1>1. content \in Seq(Word!Char)
  BY DEF WordTypes
<1>2. B \subseteq Word!Places(w, content)
  BY DEF Ended
<1>3. IsFiniteSet(B)
  BY <1>1, <1>2, PlacesAreFinite
<1>4. \A p \in A : \E i \in B : pos[i] = p
  BY ClearPlaces
<1> HIDE DEF A, B
<1>5. \A p \in A : f[p] \in B /\ pos[f[p]] = p
  BY <1>4
<1> HIDE DEF f
<1>6. f \in [A -> B]
  BY <1>5 DEF f
<1>7. \A p, q \in A : f[p] = f[q] => p = q
  BY <1>5
<1>8. f \in Injection(A, B)
  BY <1>6, <1>7, Fun_IsInj
<1>9. Cardinality(A) <= Cardinality(B)
  BY <1>3, <1>8, FS_Injection
<1> QED
  BY <1>9 DEF A, B, Cut

LEMMA SeparatedCounts ==
    ASSUME Word!WordAssumption, Separated
    PROVE  Word!CountsWords
<1> SUFFICES ASSUME wordPc = "done", NEW w \in Word!Word
             PROVE  /\ Cardinality(Word!Clear(w)) <= Word!Counted(w)
                    /\ ~Word!Joined =>
                           Cardinality(Word!Places(w, file)) =
                               Word!Counted(w) +
                                   (IF file # <<>> /\ file[Len(file)] \in Letter /\ a_word = w
                                       THEN 1 ELSE 0)
  BY SameCardinality DEF Word!CountsWords
<1>1. WordTypes /\ Cut /\ file \in Word!Text /\ Copied /\ index = Len(content)
  BY DEF Separated, Cut
<1>2. PICK pos : Whole(pos)
  BY <1>1 DEF Copied, Whole
<1>3. Word!Counted(w) = Cardinality(Occurrences(words, w))
  BY CountIs
<1>4. Cardinality(Word!Clear(w)) <= Word!Counted(w)
  BY <1>1, <1>2, <1>3, AtLeastClear
<1>5. ASSUME ~Word!Joined
      PROVE  Cardinality(Word!Places(w, file)) =
                 Word!Counted(w) +
                     (IF file # <<>> /\ file[Len(file)] \in Letter /\ a_word = w
                         THEN 1 ELSE 0)
  <2>1. Cardinality(Word!Places(w, file)) = Cardinality(Word!Places(w, content))
    BY <1>1, <1>2, <1>5, AsManyPlaces
  <2>2. Cardinality(Word!Places(w, content)) =
            Cardinality(Occurrences(words, w)) + (IF a_word = w THEN 1 ELSE 0)
    BY <1>1, PlacesAtEnd
  <2>3. a_word = w => file # <<>> /\ file[Len(file)] \in Letter
    <3>1. EndsAt(a_word, content, Len(content))
      BY <1>1 DEF Cut
    <3> QED
      BY <1>1, <1>2, <1>5, <3>1, LastOfFile
  <2> QED
    BY <1>3, <2>1, <2>2, <2>3
<1> QED
  BY <1>4, <1>5

\* The types of WordSeparator's variables.
THEOREM WordTypeCorrect ==
    ASSUME Word!WordAssumption PROVE Word!Spec => []Word!TypeOK
<1> QED
  BY SeparatedAtFirst, SeparatedKeeps, SeparatedTypes, PTL DEF Word!Spec

\* However long the file and whichever its letters and separators, A1 counts
\* each word at least as often as it stands between separators of a line, and
\* exactly as often as it is there, the last one excepted if nothing follows it,
\* if no line ends in a letter.
THEOREM WordsAreCounted ==
    ASSUME Word!WordAssumption PROVE Word!Spec => []Word!CountsWords
<1> QED
  BY SeparatedAtFirst, SeparatedKeeps, SeparatedCounts, PTL DEF Word!Spec

(***************************************************************************)
(* The three in one.                                                       *)
(***************************************************************************)
LEMMA StepOfOne ==
    ASSUME [Step \/ Meddle]_allVars
    PROVE  /\ UNCHANGED program
           /\ [Next]_vars
           /\ [List!Next]_(List!vars)
           /\ [Word!main]_(Word!vars)
<1>1. /\ UNCHANGED listVars => UNCHANGED List!vars
      /\ UNCHANGED wordVars => UNCHANGED Word!vars
  BY DEF listVars, wordVars, List!vars, Word!vars
<1>2. CASE Step
  BY <1>1, <1>2 DEF Step, Next, List!Next
<1>3. CASE Meddle
  BY <1>1, <1>3 DEF Meddle, Next, List!Next
<1>4. CASE UNCHANGED allVars
  BY <1>1, <1>4 DEF allVars
<1> QED
  BY <1>2, <1>3, <1>4

\* A program's own invariant.
Sound == /\ program = "ls_l" => Lines
         /\ program = "parse" => Separated

LEMMA SoundAtFirst == ASSUME Start PROVE Sound
<1>1. program = "ls_l" => List!Init
  BY DEF Start
<1>2. program = "parse" => Word!Init
  BY DEF Start
<1> QED
  BY <1>1, <1>2, ExerciseAssumption, ListingStart, SeparatedAtFirst
     DEF Sound, ExerciseAssumption

LEMMA SoundKeeps == ASSUME Sound, [Step \/ Meddle]_allVars PROVE Sound'
<1>1. /\ UNCHANGED program
      /\ [List!Next]_(List!vars)
      /\ [Word!main]_(Word!vars)
  BY StepOfOne
<1>2. program = "ls_l" => Lines'
  BY <1>1, ExerciseAssumption, ListingStep DEF Sound, ExerciseAssumption
<1>3. program = "parse" => Separated'
  BY <1>1, ExerciseAssumption, SeparatedKeeps DEF Sound, ExerciseAssumption
<1> QED
  BY <1>1, <1>2, <1>3 DEF Sound

\* Whichever program runs, on whatever files: each file has its line in ls_l's
\* listing, with the type and the columns it does not mix up, the words between
\* separators are counted, and the variables have their types.
THEOREM ReportsCorrect == Exercises => []ReportsAreRight
<1>1. Sound => ReportsAreRight
  BY ExerciseAssumption, LinesAreRight, SeparatedTypes, SeparatedCounts
     DEF Sound, Lines, ReportsAreRight, ExerciseAssumption
<1> QED
  BY <1>1, SoundAtFirst, SoundKeeps, PTL DEF Exercises

\* Whichever program runs, the tree and what ls_tree does with it are as LsTree
\* says.
THEOREM ExercisesKeepTrees == Exercises => Spec
<1>1. Start => Init
  BY DEF Start, TreeOff
<1>2. [Step \/ Meddle]_allVars => [Next]_vars
  BY StepOfOne
<1> QED
  BY <1>1, <1>2, PTL DEF Exercises, Spec
=============================================================================
