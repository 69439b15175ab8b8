-------------------------------- MODULE Mermaid --------------------------------
(***************************************************************************)
(* WorkflowGraph.to_mermaid (inspection/graph.py): the exported graph as    *)
(* text, a line for each node and each edge.                               *)
(*                                                                         *)
(* A name or a route key is spelled with characters, a line is a sequence  *)
(* of characters and of the pieces that stand for themselves: ids, arrows, *)
(* brackets.  Which line comes first does not matter to the chart: it is a *)
(* set of lines.  Inspection exports the graph that is shown.              *)
(***************************************************************************)
EXTENDS Inspection, SequencesExt

CONSTANT Spelling  \* the characters of every name and route key

Characters == {"backslash", "quote", "newline", "bar", "n", "x"}

ASSUME MermaidAssumption ==
  /\ Spelling \in [Strings -> Seq(Characters)]
  /\ \A s, t \in Strings : Spelling[s] = Spelling[t] => s = t

VARIABLE chart  \* the lines, or None

-------------------------------------------------------------------------------

\* str.replace of one character.
Replace(text, character, with) ==
  FlattenSeq([i \in DOMAIN text |-> IF text[i] = character THEN with ELSE <<text[i]>>])

\* (a mutant) The backslashes are escaped last.
EscapeBackslashesLast(text) ==
  Replace(Replace(Replace(text, "quote", <<"backslash", "quote">>),
                  "newline", <<"backslash", "n">>),
          "backslash", <<"backslash", "backslash">>)

\* (a mutant) A newline is not escaped.
EscapeQuotes(text) ==
  Replace(Replace(text, "backslash", <<"backslash", "backslash">>),
          "quote", <<"backslash", "quote">>)

EscapeMermaidText(text) ==
  Replace(Replace(Replace(text, "backslash", <<"backslash", "backslash">>),
                  "quote", <<"backslash", "quote">>),
          "newline", <<"backslash", "n">>)

\* (a mutant) A bar in a route key is taken for text.
EscapeAsLabel(text) == EscapeMermaidText(text)

EscapeMermaidEdgeLabel(text) ==
  Replace(EscapeMermaidText(text), "bar", <<"backslash", "bar">>)

\* A gated step shows that below its name.
Label(step) ==
  Spelling[step.name] \o (IF step.requiresApproval THEN <<"newline", "approval">> ELSE <<>>)

Id(node) == IF node = END THEN "end_0" ELSE "step_" \o ToString(node - 1)

\* An id is no character of a text.
ASSUME IdAssumption ==
  \A w \in Workflows : \A node \in (DOMAIN w.steps) \cup {END} : Id(node) \notin Characters

NodeLine(node) ==
  IF node = END
  THEN <<Id(node), "((", "END", "))">>
  ELSE <<Id(node), "[", "quote">> \o EscapeMermaidText(Label(wf.steps[node])) \o <<"quote", "]">>

EdgeLine(edge) ==
  IF edge.key = None
  THEN <<Id(edge.source), "-->", Id(edge.target)>>
  ELSE <<Id(edge.source), "-->", "bar">> \o EscapeMermaidEdgeLabel(Spelling[edge.key])
         \o <<"bar", Id(edge.target)>>

ToMermaid ==
  /\ Exported
  /\ chart = None
  /\ chart' = {NodeLine(node) : node \in graph.nodes} \cup {EdgeLine(e) : e \in graph.edges}
  /\ UNCHANGED vars

ChartInit == Init /\ chart = None

ChartNext ==
  \/ Export /\ UNCHANGED chart
  \/ ToMermaid
  \/ Done /\ UNCHANGED chart

ChartSpec == ChartInit /\ [][ChartNext]_<<vars, chart>>

-------------------------------------------------------------------------------
(* Reading a chart.                                                         *)

\* Whether the i-th piece of a text is escaped: a backslash before it is not.
IsEscaped(text, i) ==
  LET Escaped[k \in 1..i] == k > 1 /\ text[k - 1] = "backslash" /\ ~Escaped[k - 1]
  IN  Escaped[i]

Unescape(text) ==
  FlattenSeq([i \in DOMAIN text |->
                IF IsEscaped(text, i) THEN <<IF text[i] = "n" THEN "newline" ELSE text[i]>>
                ELSE IF text[i] = "backslash" THEN <<>> ELSE <<text[i]>>])

\* The places where a reader sees the delimiter d.
Delimiters(line, d) == {i \in DOMAIN line : line[i] = d /\ ~IsEscaped(line, i)}

Labelled == {line \in chart : line[2] = "["}
Keyed == {line \in chart : line[2] = "-->" /\ line[3] = "bar"}

\* Every node and every edge is one line, whatever its name holds. (the third
\* replacement of _escape_mermaid_text)
LinesStayWhole ==
  chart # None => \A line \in chart : \A i \in DOMAIN line : line[i] # "newline"

\* A label ends at its quote and a route key at its bar, not inside of itself.
\* (_escape_mermaid_text, _escape_mermaid_edge_label)
LabelsStayInside ==
  chart # None =>
    /\ \A line \in Labelled : Delimiters(line, "quote") = {3, Len(line) - 1}
    /\ \A line \in Keyed : Delimiters(line, "bar") = {3, Len(line) - 1}

\* The chart says what the graph says: what is read between the delimiters is the name
\* of the step, with its approval, or the route key, character by character, so that
\* no two nodes or edges of different texts look the same. (the order of the three
\* replacements: what one puts in, the next must not take for text)
ChartReadsBack ==
  chart # None =>
    LET Read(line) == Unescape(SubSeq(line, 4, Len(line) - 2)) IN
    /\ {<<line[1], Read(line)>> : line \in Labelled} =
         {<<Id(node), Label(wf.steps[node])>> : node \in graph.nodes \ {END}}
    /\ {<<line[1], Read(line), Last(line)>> : line \in Keyed} =
         {<<Id(e.source), Spelling[e.key], Id(e.target)>> : e \in {x \in graph.edges : x.key # None}}
    /\ {<<line[1], line[3]>> : line \in {x \in chart : x[2] = "-->"} \ Keyed} =
         {<<Id(e.source), Id(e.target)>> : e \in {x \in graph.edges : x.key = None}}
===============================================================================
