-------------------------------- MODULE Yaml --------------------------------
(***************************************************************************)
(* utils/yamlutil.cc: configuration files read line by line into a tree,   *)
(* nested by indentation.                                                  *)
(*                                                                         *)
(* A line is what is left of it after delafter(line, '#'), by what split   *)
(* at ':' makes of it: "leaf" has two pieces (`key: value`), "node" one    *)
(* (`key:`), "dash" none and is a '-', "blank" is empty, and "other" is    *)
(* any other line, one of spaces included.  (A line without ':' has no     *)
(* pieces, so the branch for an array of plain values is never taken.)     *)
(* The text of a value stands beside the number strtol makes of it.        *)
(*                                                                         *)
(* The tree is a sequence of nodes.  A node knows its parent (up) and, in  *)
(* an array, the object it belongs to (elem); an array counts its objects  *)
(* (size) and the fields of the last one (curr).                           *)
(***************************************************************************)
EXTENDS Integers, Sequences, SequencesExt, FiniteSetsExt

Text(t) == [text |-> t, num |-> 0]
Number(n) == [text |-> "number", num |-> n]

Node(key, kind, data) ==
    [key |-> key, kind |-> kind, data |-> data,
     up |-> 0, elem |-> 0, size |-> 0, curr |-> -1, len |-> -1]

\* The YamlDescriptor, and the state of ParseYaml at its first line.
Start == [ok |-> TRUE, parent |-> 1, stack |-> <<>>, last |-> 0,
          nodes |-> <<Node("path", "object", Text(""))>>]

\* An assertion fails or a null pointer is used.
Abort(st) == [st EXCEPT !.ok = FALSE]

-----------------------------------------------------------------------------
\* Insert of ValueObj and ValueArray.  A node without a value has no Insert.
Insert(st, node) ==
    LET p     == st.nodes[st.parent]
        inArr == p.kind = "array"
        size  == IF inArr /\ p.curr = 0 THEN p.size + 1 ELSE p.size
        upper == [p EXCEPT !.size = size, !.curr = IF inArr THEN @ + 1 ELSE @]
        lower == [node EXCEPT !.up = st.parent, !.elem = size]
    IN  IF p.kind = "none" THEN Abort(st)
        ELSE [st EXCEPT !.nodes = Append([@ EXCEPT ![st.parent] = upper], lower)]

\* Objects in an array must be of the same length: the first that ends sets it.
MarkArrStart(st) ==
    LET a == st.nodes[st.parent]
    IN  IF a.len = -1 /\ a.curr > 0
        THEN [st EXCEPT !.nodes[st.parent].len = a.curr, !.nodes[st.parent].curr = 0]
        ELSE IF a.len # a.curr THEN Abort(st)
        ELSE [st EXCEPT !.nodes[st.parent].curr = 0]

\* One parent is popped for every two spaces to the left.
GetParentNodeByIndentDiff_Once(st, diff) ==
    IF st.stack = <<>> THEN Abort(st)
    ELSE [st EXCEPT !.parent = Last(st.stack), !.stack = Front(st.stack)]
GetParentNodeByIndentDiff(st, diff) ==
    LET left == Len(st.stack) - ((-diff) \div 2)
    IN  IF diff % 2 # 0 \/ left < 0 THEN Abort(st)
        ELSE [st EXCEPT !.parent = st.stack[left + 1], !.stack = SubSeq(st.stack, 1, left)]

\* The parent of the next leaf or node.
Dedent(st, diff) == IF diff < 0 THEN GetParentNodeByIndentDiff(st, diff) ELSE st

\* A value created for a node that has none yet.
WithValue(st, kind) ==
    IF st.nodes[st.parent].kind = "none" THEN [st EXCEPT !.nodes[st.parent].kind = kind]
    ELSE st

ParseLeaf(st, line) ==
    LET up == Dedent(st, line.indent - st.last)
    IN  IF ~up.ok THEN up
        ELSE Insert(WithValue(up, "object"), Node(line.key, "leaf", line.value))

\* The new node becomes the parent.  Only here is a step to the right checked.
ParseNode(st, line) ==
    LET diff == line.indent - st.last
        up   == Dedent(st, diff)
        in   == Insert(up, Node(line.key, "none", Text("")))
    IN  IF ~up.ok \/ ~in.ok \/ (diff > 0 /\ diff # 2) THEN Abort(st)
        ELSE [in EXCEPT !.stack = Append(@, in.parent), !.parent = Len(in.nodes)]

ParseDash(st) ==
    LET arr == WithValue(st, "array")
    IN  IF arr.nodes[arr.parent].kind # "array" THEN Abort(st) ELSE MarkArrStart(arr)

\* One turn of the loop of ParseYaml.
ParseLine(st, line) ==
    IF ~st.ok \/ line.kind = "blank" THEN st
    ELSE LET next == CASE line.kind = "leaf" -> ParseLeaf(st, line)
                       [] line.kind = "node" -> ParseNode(st, line)
                       [] line.kind = "dash" -> ParseDash(st)
                       [] OTHER -> Abort(st)
         IN  [next EXCEPT !.last = line.indent]

ParseYaml(doc) == FoldLeft(ParseLine, Start, doc)

-----------------------------------------------------------------------------
\* __Get: the first node with the key in object elem of node up; 0 stands for
\* the NoSuchFieldException.
__Get(st, up, elem, key) ==
    LET hits == {i \in DOMAIN st.nodes :
                   st.nodes[i].up = up /\ st.nodes[i].elem = elem /\ st.nodes[i].key = key}
    IN  IF hits = {} THEN 0 ELSE Min(hits)

\* What GetLeaf, GetYmlObj and GetArray come to: the value has the kind asked
\* for, or they throw; a node without a value is a null pointer.
Lookup(st, up, elem, key, kind) ==
    LET i == __Get(st, up, elem, key)
    IN  [at  |-> i,
         out |-> IF i = 0 THEN "throws"
                 ELSE IF st.nodes[i].kind = kind THEN "found"
                 ELSE IF st.nodes[i].kind = "none" THEN "null" ELSE "throws"]

\* ValueLeaf::To.  An int read into a size_t that was 0 fills its lower half.
CONSTANT IntSpan        \* 2^32
ToInt(value) == value.num
ToSize(value) == value.num % IntSpan
ToUint16(value) == value.num % 65536
ToBool(value) == value.text = "true"
=============================================================================
