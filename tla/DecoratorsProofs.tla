--------------------------- MODULE DecoratorsProofs ---------------------------
(***************************************************************************)
(* What authors get from the decorators, for all classes and functions and *)
(* for every order of binding and decorating them.                         *)
(***************************************************************************)
EXTENDS Decorators, DefinitionProofs, SequenceTheorems

\* What @step left on a function.
Marked(f) ==
  metadata[f] # None =>
    /\ IsStepDefinition(metadata[f])
    /\ DOMAIN metadata[f] = StepFields
    /\ metadata[f].methodName = FunctionName[f]

\* A namespace holds a name once.
IsDict(dict, N, V) ==
  /\ dict \in Seq([name : N, value : V])
  /\ \A j, k \in DOMAIN dict : dict[j].name = dict[k].name => j = k

Dict(c) == IsDict(namespace[c], Attributes[c] \cup {"run"}, Callables \cup {InjectedRun})

\* Where the steps of a definition came from. Steps of one function were made from one
\* piece of metadata, whatever was done to the function since.
Gathered(c) ==
  definition[c] # None =>
    /\ IsWorkflowDefinition(definition[c])
    /\ DOMAIN definition[c].steps = DOMAIN collected[c]
    /\ \A k \in DOMAIN collected[c] :
         /\ definition[c].steps[k].methodName = FunctionName[collected[c][k].value]
         /\ definition[c].steps[k].order = k - 1
    /\ \A j, k \in DOMAIN collected[c] :
         collected[c][j].value = collected[c][k].value =>
           definition[c].steps[j].name = definition[c].steps[k].name

\* The names of the entries are names of the dict, and follow each other there.
Placed(entries, dict) ==
  /\ \A k \in DOMAIN entries : \E n \in DOMAIN dict : dict[n].name = entries[k].name
  /\ \A j, k \in DOMAIN entries :
       j < k => \E m, n \in DOMAIN dict :
                  m < n /\ dict[m].name = entries[j].name /\ dict[n].name = entries[k].name

DInv ==
  /\ DOMAIN metadata = Callables
  /\ DOMAIN namespace = Classes
  /\ DOMAIN definition = Classes
  /\ DOMAIN collected = Classes
  /\ \A f \in Callables : Marked(f)
  /\ \A c \in Classes :
       /\ Dict(c) /\ collected[c] \in Seq(Entries(c)) /\ Gathered(c)
       /\ Placed(collected[c], namespace[c])

-------------------------------------------------------------------------------
(* Collecting.                                                              *)

\* S are the values that are kept; g gives what is kept of the first n entries.
Keeps(g, seq, n, S) ==
  \A i \in 0..n :
    g[i] = IF i = 0 THEN <<>>
           ELSE IF seq[i].value \in S THEN Append(g[i-1], seq[i])
           ELSE g[i-1]

\* The entries are among the first n of seq, in the same order.
Picked(entries, seq, n) ==
  /\ \A k \in DOMAIN entries : \E i \in 1..n : seq[i] = entries[k]
  /\ \A j, k \in DOMAIN entries :
       j < k => \E h, i \in 1..n : h < i /\ seq[h] = entries[j] /\ seq[i] = entries[k]

\* A function that does so exists,
LEMMA KeptExists ==
  ASSUME NEW T, NEW seq \in Seq(T), NEW S
  PROVE  \E g \in [0..Len(seq) -> Seq(T)] : Keeps(g, seq, Len(seq), S)
<1> DEFINE Bad == {n \in 0..Len(seq) : ~ \E g \in [0..n -> Seq(T)] : Keeps(g, seq, n, S)}
<1>1. Len(seq) \in Nat /\ Bad \in SUBSET Nat
  OBVIOUS
<1>2. ASSUME Bad # {} PROVE FALSE
  <2>1. PICK n \in Bad : \A m \in Bad : n <= m
    <3> HIDE DEF Bad
    <3> QED
      BY <1>1, <1>2, LeastMember
  <2>2. CASE n = 0
    <3> DEFINE g == [i \in 0..0 |-> <<>>]
    <3>1. g \in [0..0 -> Seq(T)] /\ Keeps(g, seq, 0, S)
      BY DEF Keeps
    <3> QED
      BY <2>1, <2>2, <3>1
  <2>3. CASE n # 0
    <3>1. n \in Nat /\ n - 1 \in 0..Len(seq) /\ ~(n <= n - 1)
      BY <1>1, <2>1, <2>3
    <3>2. n - 1 \notin Bad
      BY <2>1, <3>1
    <3>3. PICK g \in [0..n - 1 -> Seq(T)] : Keeps(g, seq, n - 1, S)
      BY <3>1, <3>2
    <3>4. seq[n] \in T
      BY <1>1, <2>1, <2>3
    <3> DEFINE next == IF seq[n].value \in S THEN Append(g[n-1], seq[n]) ELSE g[n-1]
               h == [i \in 0..n |-> IF i = n THEN next ELSE g[i]]
    <3>5. g[n-1] \in Seq(T)
      BY <3>1
    <3>6. next \in Seq(T)
      BY <3>4, <3>5
    <3>7. h \in [0..n -> Seq(T)]
      <4>1. \A i \in 0..n : i # n => i \in 0..n - 1
        BY <3>1
      <4> HIDE DEF next
      <4> QED
        BY <3>6, <4>1
    <3>8. ASSUME NEW i \in 0..n
          PROVE  h[i] = IF i = 0 THEN <<>>
                        ELSE IF seq[i].value \in S THEN Append(h[i-1], seq[i])
                        ELSE h[i-1]
      <4>1. CASE i = n
        <5>1. i # 0 /\ h[i] = next /\ h[i-1] = g[n-1]
          BY <2>3, <3>1, <4>1
        <5> QED
          BY <4>1, <5>1
      <4>2. CASE i # n
        <5>1. i \in 0..n - 1 /\ h[i] = g[i] /\ (i # 0 => h[i-1] = g[i-1])
          BY <3>1, <4>2
        <5> HIDE DEF h
        <5> QED
          BY <3>3, <5>1 DEF Keeps
      <4> QED
        BY <4>1, <4>2
    <3>9. Keeps(h, seq, n, S)
      BY <3>8 DEF Keeps
    <3> QED
      BY <2>1, <3>7, <3>9
  <2> QED
    BY <2>2, <2>3
<1>3. Len(seq) \notin Bad /\ Len(seq) \in 0..Len(seq)
  BY <1>1, <1>2
<1> QED
  BY <1>3

\* and collects entries that are kept, in their order.
LEMMA KeptTyped ==
  ASSUME NEW T, NEW seq \in Seq(T), NEW S, NEW g, Keeps(g, seq, Len(seq), S)
  PROVE  /\ g[Len(seq)] \in Seq({e \in T : e.value \in S})
         /\ Picked(g[Len(seq)], seq, Len(seq))
<1> DEFINE U == {e \in T : e.value \in S}
           Good(n) == g[n] \in Seq(U) /\ Picked(g[n], seq, n)
           Bad == {n \in 0..Len(seq) : ~Good(n)}
<1>1. Len(seq) \in Nat /\ Bad \in SUBSET Nat
  OBVIOUS
<1>2. ASSUME Bad # {} PROVE FALSE
  <2>1. PICK n \in Bad : \A m \in Bad : n <= m
    <3> HIDE DEF Bad
    <3> QED
      BY <1>1, <1>2, LeastMember
  <2>2. n # 0 /\ n \in 0..Len(seq)
    <3>1. <<>> \in Seq(U) /\ Picked(<<>>, seq, 0)
      BY DEF Picked
    <3>2. g[0] = <<>>
      BY <1>1 DEF Keeps
    <3> QED
      BY <1>1, <2>1, <3>1, <3>2
  <2>3. n \in Nat /\ n - 1 \in 0..Len(seq) /\ ~(n <= n - 1) /\ seq[n] \in T
    BY <1>1, <2>2
  <2>4. PICK before, after : before = g[n-1] /\ after = g[n]
    OBVIOUS
  <2>5. before \in Seq(U) /\ Picked(before, seq, n - 1)
    BY <2>1, <2>3, <2>4
  <2>6. after = IF seq[n].value \in S THEN Append(before, seq[n]) ELSE before
    BY <2>2, <2>4 DEF Keeps
  <2>7. CASE seq[n].value \in S
    <3> DEFINE l == Len(before)
    <3>1. seq[n] \in U
      BY <2>3, <2>7
    <3>2. /\ after \in Seq(U) /\ DOMAIN after = 1..l + 1 /\ l \in Nat /\ DOMAIN before = 1..l
          /\ after[l + 1] = seq[n] /\ \A k \in 1..l : after[k] = before[k]
      <4> HIDE DEF U
      <4> QED
        BY <2>5, <2>6, <2>7, <3>1
    <3>3. ASSUME NEW k \in 1..l + 1 PROVE \E i \in 1..n : seq[i] = after[k]
      <4>1. CASE k = l + 1
        BY <2>2, <2>3, <3>2, <4>1
      <4>2. CASE k # l + 1
        <5>1. k \in 1..l
          BY <3>2, <4>2
        <5>2. PICK i \in 1..n - 1 : seq[i] = before[k]
          BY <2>5, <3>2, <5>1 DEF Picked
        <5> QED
          BY <2>3, <3>2, <5>1, <5>2
      <4> QED
        BY <4>1, <4>2
    <3>4. ASSUME NEW j \in 1..l + 1, NEW k \in 1..l + 1, j < k
          PROVE  \E h, i \in 1..n : h < i /\ seq[h] = after[j] /\ seq[i] = after[k]
      <4>1. j \in 1..l
        BY <3>2, <3>4
      <4>2. CASE k = l + 1
        <5>1. PICK h \in 1..n - 1 : seq[h] = before[j]
          BY <2>5, <3>2, <4>1 DEF Picked
        <5>2. h \in 1..n /\ n \in 1..n /\ h < n
          BY <2>2, <2>3, <5>1
        <5> QED
          BY <3>2, <4>1, <4>2, <5>1, <5>2
      <4>3. CASE k # l + 1
        <5>1. k \in 1..l
          BY <3>2, <4>3
        <5>2. Picked(before, seq, n - 1) /\ DOMAIN before = 1..l
          BY <2>5, <3>2
        <5> HIDE DEF l
        <5>3. \E h, i \in 1..n - 1 : h < i /\ seq[h] = before[j] /\ seq[i] = before[k]
          BY <3>4, <4>1, <5>1, <5>2 DEF Picked
        <5>4. PICK h \in 1..n - 1, i \in 1..n - 1 :
                h < i /\ seq[h] = before[j] /\ seq[i] = before[k]
          BY <5>3
        <5>5. h \in 1..n /\ i \in 1..n
          BY <2>3
        <5>6. after[j] = before[j] /\ after[k] = before[k]
          BY <3>2, <4>1, <5>1
        <5> QED
          BY <5>4, <5>5, <5>6
      <4> QED
        BY <4>2, <4>3
    <3>5. Picked(after, seq, n)
      <4>1. DOMAIN after = 1..l + 1
        BY <3>2
      <4> HIDE DEF l
      <4> QED
        BY <3>3, <3>4, <4>1 DEF Picked
    <3> QED
      BY <2>1, <2>4, <3>2, <3>5
  <2>8. CASE seq[n].value \notin S
    <3>1. after = before /\ \A i \in 1..n - 1 : i \in 1..n
      BY <2>3, <2>6, <2>8
    <3>2. Picked(after, seq, n)
      BY <2>5, <3>1 DEF Picked
    <3> QED
      BY <2>1, <2>4, <2>5, <3>1, <3>2
  <2> QED
    BY <2>7, <2>8
<1>3. Len(seq) \notin Bad /\ Len(seq) \in 0..Len(seq)
  BY <1>1, <1>2
<1> QED
  BY <1>3

\* @workflow finds entries of its class that hold steps, in the order of their names.
LEMMA StepEntriesTyped ==
  ASSUME NEW c \in Classes, namespace[c] \in Seq(Entries(c))
  PROVE  /\ StepEntries(c) \in Seq({e \in Entries(c) : IsStep(e.value)})
         /\ Placed(StepEntries(c), namespace[c])
<1> DEFINE S == {v \in Callables : IsStep(v)}
           Found == CHOOSE f : f = [n \in 0..Len(namespace[c]) |->
                                      IF n = 0 THEN <<>>
                                      ELSE IF IsStep(namespace[c][n].value)
                                      THEN Append(f[n-1], namespace[c][n])
                                      ELSE f[n-1]]
<1>1. \A v : v \in S <=> IsStep(v)
  BY DEF IsStep
<1>2. PICK g \in [0..Len(namespace[c]) -> Seq(Entries(c))] :
        Keeps(g, namespace[c], Len(namespace[c]), S)
  BY KeptExists
<1>3. g = [n \in 0..Len(namespace[c]) |->
             IF n = 0 THEN <<>>
             ELSE IF IsStep(namespace[c][n].value) THEN Append(g[n-1], namespace[c][n])
             ELSE g[n-1]]
  <2> HIDE DEF S
  <2>1. \A n \in 0..Len(namespace[c]) :
          g[n] = IF n = 0 THEN <<>>
                 ELSE IF IsStep(namespace[c][n].value) THEN Append(g[n-1], namespace[c][n])
                 ELSE g[n-1]
    BY <1>1, <1>2 DEF Keeps
  <2> QED
    BY <2>1, Zenon
<1>4. Found = [n \in 0..Len(namespace[c]) |->
                 IF n = 0 THEN <<>>
                 ELSE IF IsStep(namespace[c][n].value) THEN Append(Found[n-1], namespace[c][n])
                 ELSE Found[n-1]]
  BY <1>3, Zenon
<1>5. StepEntries(c) = Found[Len(namespace[c])]
  BY Zenon DEF StepEntries
<1> HIDE DEF Found
<1>6. Keeps(Found, namespace[c], Len(namespace[c]), S)
  <2>1. \A n \in 0..Len(namespace[c]) :
          Found[n] = IF n = 0 THEN <<>>
                     ELSE IF IsStep(namespace[c][n].value) THEN Append(Found[n-1], namespace[c][n])
                     ELSE Found[n-1]
    BY <1>4, Zenon
  <2> HIDE DEF S
  <2> QED
    BY <1>1, <2>1 DEF Keeps
<1>7. /\ Found[Len(namespace[c])] \in Seq({e \in Entries(c) : e.value \in S})
      /\ Picked(Found[Len(namespace[c])], namespace[c], Len(namespace[c]))
  BY <1>6, KeptTyped
<1>8. {e \in Entries(c) : e.value \in S} = {e \in Entries(c) : IsStep(e.value)}
  <2> HIDE DEF S
  <2> QED
    BY <1>1
<1>9. Placed(StepEntries(c), namespace[c])
  <2>1. DOMAIN namespace[c] = 1..Len(namespace[c])
    OBVIOUS
  <2>2. PICK es, ns, n : es = StepEntries(c) /\ ns = namespace[c] /\ n = Len(namespace[c])
    OBVIOUS
  <2>3. Picked(es, ns, n) /\ DOMAIN ns = 1..n
    BY <1>5, <1>7, <2>1, <2>2
  <2>4. Placed(es, ns)
    BY ONLY <2>3 DEF Placed, Picked
  <2> QED
    BY <2>2, <2>4
<1> QED
  BY <1>5, <1>7, <1>8, <1>9

-------------------------------------------------------------------------------
(* The steps.                                                               *)

LEMMA BuiltTyped ==
  ASSUME NEW f \in Callables, NEW options \in StepOptions[f]
  PROVE  /\ IsStepDefinition(BuildStepDefinition(f, options))
         /\ DOMAIN BuildStepDefinition(f, options) = StepFields
         /\ BuildStepDefinition(f, options).methodName = FunctionName[f]
<1> DEFINE o == [options EXCEPT !.name = "", !.methodName = ""]
           d == BuildStepDefinition(f, options)
<1>1. DOMAIN options = StepFields /\ options.name \in Strings \cup {"", None} /\ IsStepDefinition(o)
  BY DecoratorsAssumption
<1>2. FunctionName[f] \in Strings
  BY DecoratorsAssumption
<1>3. /\ o.method = options.method /\ o.retries = options.retries
      /\ o.retryOn = options.retryOn /\ o.retryDelay = options.retryDelay
      /\ o.routes = options.routes /\ o.requiresApproval = options.requiresApproval
      /\ o.approvalMessage = options.approvalMessage
      /\ o.approvalMetadata = options.approvalMetadata
  BY <1>1 DEF StepFields
<1>4. /\ d.method = options.method /\ d.retries = options.retries
      /\ d.retryOn = options.retryOn /\ d.retryDelay = options.retryDelay
      /\ d.routes = options.routes /\ d.requiresApproval = options.requiresApproval
      /\ d.approvalMessage = options.approvalMessage
      /\ d.approvalMetadata = options.approvalMetadata
  BY <1>1 DEF StepFields, BuildStepDefinition
<1>5. /\ d.name = IF options.name \in {None, ""} THEN FunctionName[f] ELSE options.name
      /\ d.methodName = FunctionName[f] /\ d.order = -1
  BY <1>1 DEF StepFields, BuildStepDefinition
<1>6. DOMAIN d = StepFields
  BY <1>1 DEF BuildStepDefinition
<1>7. {d.name, d.methodName} \subseteq Strings \cup {""}
  BY <1>1, <1>2, <1>5
<1> HIDE DEF o, d
<1>8. IsStepDefinition(d)
  <2>1. d.order = -1
    BY <1>5
  <2>2. d.order \in Int
    BY <2>1
  <2> QED
    BY <1>1, <1>3, <1>4, <1>7, <2>2 DEF IsStepDefinition
<1> QED
  BY <1>5, <1>6, <1>8 DEF d

\* replace(step_definition, order=...) changes the order only.
LEMMA ReorderedTyped ==
  ASSUME NEW s, NEW i \in Int, IsStepDefinition(s), DOMAIN s = StepFields
  PROVE  /\ IsStepDefinition([s EXCEPT !.order = i])
         /\ [s EXCEPT !.order = i].name = s.name
         /\ [s EXCEPT !.order = i].methodName = s.methodName
         /\ [s EXCEPT !.order = i].order = i
<1> DEFINE d == [s EXCEPT !.order = i]
<1>1. /\ d.method = s.method /\ d.retries = s.retries
      /\ d.retryOn = s.retryOn /\ d.retryDelay = s.retryDelay
      /\ d.routes = s.routes /\ d.requiresApproval = s.requiresApproval
      /\ d.approvalMessage = s.approvalMessage
      /\ d.approvalMetadata = s.approvalMetadata
      /\ d.name = s.name /\ d.methodName = s.methodName /\ d.order = i
  BY DEF StepFields
<1> HIDE DEF d
<1>2. IsStepDefinition(d)
  BY <1>1 DEF IsStepDefinition
<1> QED
  BY <1>1, <1>2 DEF d

\* The steps collected from entries of the class.
LEMMA CollectTyped ==
  ASSUME DInv, NEW E, NEW entries \in Seq({e \in E : IsStep(e.value)})
  PROVE  /\ Collect(entries) \in Seq(Range(Collect(entries)))
         /\ DOMAIN Collect(entries) = DOMAIN entries
         /\ \A k \in DOMAIN entries :
              /\ IsStepDefinition(Collect(entries)[k])
              /\ Collect(entries)[k].name = metadata[entries[k].value].name
              /\ Collect(entries)[k].methodName = FunctionName[entries[k].value]
              /\ Collect(entries)[k].order = k - 1
<1> DEFINE steps == Collect(entries)
<1>1. /\ Len(entries) \in Nat /\ DOMAIN entries = 1..Len(entries)
      /\ \A k \in DOMAIN entries : IsStep(entries[k].value)
  OBVIOUS
<1>2. DOMAIN steps = DOMAIN entries
  BY DEF Collect
<1>3. steps \in Seq(Range(steps))
  <2>1. \A k \in 1..Len(entries) : steps[k] \in Range(steps)
    BY <1>1, <1>2 DEF Range
  <2>2. steps = [k \in 1..Len(entries) |-> steps[k]]
    BY <1>1 DEF Collect
  <2> HIDE DEF steps
  <2> QED
    BY <1>1, <2>1, <2>2
<1>4. ASSUME NEW k \in DOMAIN entries
      PROVE  /\ IsStepDefinition(steps[k])
             /\ steps[k].name = metadata[entries[k].value].name
             /\ steps[k].methodName = FunctionName[entries[k].value]
             /\ steps[k].order = k - 1
  <2>1. PICK f, s : f = entries[k].value /\ s = metadata[f]
    OBVIOUS
  <2>2. IsStepDefinition(s) /\ DOMAIN s = StepFields /\ s.methodName = FunctionName[f]
    BY <1>1, <2>1 DEF IsStep, DInv, Marked
  <2>3. steps[k] = [s EXCEPT !.order = k - 1] /\ k - 1 \in Int
    BY <1>1, <2>1 DEF Collect
  <2> QED
    BY <2>1, <2>2, <2>3, ReorderedTyped
<1> QED
  BY <1>2, <1>3, <1>4

-------------------------------------------------------------------------------
(* Namespaces.                                                              *)

\* dict[name] = value keeps the names distinct.
LEMMA SetItemTyped ==
  ASSUME NEW N, NEW V, NEW dict, IsDict(dict, N, V), NEW name \in N, NEW value \in V
  PROVE  IsDict(SetItem(dict, name, value), N, V)
<1> DEFINE n == Len(dict)
           E == [name : N, value : V]
<1>1. n \in Nat /\ DOMAIN dict = 1..n /\ \A k \in 1..n : dict[k] \in E
  <2>1. dict \in Seq(E)
    BY DEF IsDict
  <2> HIDE DEF E
  <2> QED
    BY <2>1
<1>2. CASE \E k \in DOMAIN dict : dict[k].name = name
  <2> DEFINE d == [k \in DOMAIN dict |->
                     IF dict[k].name = name THEN [dict[k] EXCEPT !.value = value] ELSE dict[k]]
  <2>1. SetItem(dict, name, value) = d
    BY <1>2 DEF SetItem
  <2>2. ASSUME NEW k \in 1..n PROVE d[k] \in E /\ d[k].name = dict[k].name
    <3>1. CASE dict[k].name = name
      <4>1. [dict[k] EXCEPT !.value = value] \in E
        BY <1>1
      <4>2. [dict[k] EXCEPT !.value = value].name = dict[k].name
        BY <1>1
      <4> QED
        BY <1>1, <3>1, <4>1, <4>2
    <3>2. CASE dict[k].name # name
      BY <1>1, <3>2
    <3> QED
      BY <3>1, <3>2
  <2>3. DOMAIN d = 1..n /\ d \in Seq(E)
    <3>1. d \in [1..n -> E]
      <4>1. d = [k \in 1..n |-> d[k]]
        BY <1>1
      <4> HIDE DEF d, E
      <4> QED
        BY <2>2, <4>1
    <3> HIDE DEF d, E
    <3> QED
      BY <1>1, <3>1
  <2> HIDE DEF d, E
  <2> QED
    BY <1>1, <2>1, <2>2, <2>3 DEF E, IsDict
<1>3. CASE ~ \E k \in DOMAIN dict : dict[k].name = name
  <2> DEFINE e == [name |-> name, value |-> value]
             d == Append(dict, e)
  <2>1. SetItem(dict, name, value) = d /\ e \in E /\ e.name = name
    BY <1>3 DEF SetItem
  <2>2. d \in Seq(E) /\ DOMAIN d = 1..n + 1 /\ d[n + 1] = e /\ \A k \in 1..n : d[k] = dict[k]
    <3>1. dict \in Seq(E)
      BY DEF IsDict
    <3> HIDE DEF E, e
    <3> QED
      BY <1>1, <2>1, <3>1
  <2>3. ASSUME NEW j \in 1..n + 1, NEW k \in 1..n + 1, d[j].name = d[k].name
        PROVE  j = k
    <3>1. CASE j \in 1..n /\ k \in 1..n
      BY <1>1, <2>2, <2>3, <3>1 DEF IsDict
    <3>2. CASE j = n + 1 /\ k = n + 1
      BY <3>2
    <3>3. CASE j \in 1..n /\ k = n + 1
      BY <1>1, <1>3, <2>1, <2>2, <2>3, <3>3
    <3>4. CASE j = n + 1 /\ k \in 1..n
      BY <1>1, <1>3, <2>1, <2>2, <2>3, <3>4
    <3> QED
      BY <1>1, <3>1, <3>2, <3>3, <3>4
  <2> HIDE DEF d
  <2> QED
    BY <2>1, <2>2, <2>3 DEF IsDict
<1> QED
  BY <1>2, <1>3

\* and in their places.
LEMMA SetItemPlaced ==
  ASSUME NEW N, NEW V, NEW dict, IsDict(dict, N, V), NEW name \in N, NEW value \in V,
         NEW entries, Placed(entries, dict)
  PROVE  Placed(entries, SetItem(dict, name, value))
<1> DEFINE E == [name : N, value : V]
<1>1. PICK d : d = SetItem(dict, name, value)
  OBVIOUS
<1>2. Len(dict) \in Nat /\ DOMAIN dict = 1..Len(dict) /\ dict \in Seq(E)
  BY DEF IsDict
<1>3. ASSUME NEW k \in DOMAIN dict PROVE k \in DOMAIN d /\ d[k].name = dict[k].name
  <2>1. dict[k] \in E
    <3> HIDE DEF E
    <3> QED
      BY <1>2
  <2>2. CASE \E i \in DOMAIN dict : dict[i].name = name
    <3>1. d = [i \in DOMAIN dict |->
                 IF dict[i].name = name THEN [dict[i] EXCEPT !.value = value] ELSE dict[i]]
      BY <1>1, <2>2 DEF SetItem
    <3>2. [dict[k] EXCEPT !.value = value].name = dict[k].name
      BY <2>1
    <3> QED
      BY <3>1, <3>2
  <2>3. CASE ~ \E i \in DOMAIN dict : dict[i].name = name
    <3>1. PICK e : d = Append(dict, e)
      BY <1>1, <2>3 DEF SetItem
    <3>2. k \in DOMAIN d /\ d[k] = dict[k]
      <4> HIDE DEF E
      <4> QED
        BY <1>2, <3>1
    <3> QED
      BY <3>2
  <2> QED
    BY <2>2, <2>3
<1>4. ASSUME NEW k \in DOMAIN entries
      PROVE  \E n \in DOMAIN d : d[n].name = entries[k].name
  BY <1>3 DEF Placed
<1>5. ASSUME NEW j \in DOMAIN entries, NEW k \in DOMAIN entries, j < k
      PROVE  \E m, n \in DOMAIN d :
               m < n /\ d[m].name = entries[j].name /\ d[n].name = entries[k].name
  <2>1. PICK m \in DOMAIN dict, n \in DOMAIN dict :
          m < n /\ dict[m].name = entries[j].name /\ dict[n].name = entries[k].name
    BY <1>5 DEF Placed
  <2> QED
    BY <1>3, <2>1
<1> QED
  BY <1>1, <1>4, <1>5 DEF Placed

\* A name that a dict holds once gives its value.
LEMMA ValueFound ==
  ASSUME NEW c \in Classes, Dict(c), NEW j \in DOMAIN namespace[c]
  PROVE  Value(c, namespace[c][j].name) = namespace[c][j].value
<1> DEFINE name == namespace[c][j].name
           i == CHOOSE k \in DOMAIN namespace[c] : namespace[c][k].name = name
<1>1. i \in DOMAIN namespace[c] /\ namespace[c][i].name = name
  OBVIOUS
<1>2. i = j
  BY <1>1 DEF Dict, IsDict
<1>3. Value(c, name) = namespace[c][i].value
  BY DEF Value
<1> QED
  BY <1>2, <1>3

\* The first class that binds a name gives it.
LEMMA LookUpFound ==
  ASSUME NEW d \in Classes, NEW name, NEW c, Takes(d, name, c), Binds(c, name)
  PROVE  LookUp(d, name) = Value(c, name)
<1> DEFINE bound == {k \in DOMAIN Mro[d] : Binds(Mro[d][k], name)}
<1>1. Mro[d] \in Seq(Classes)
  BY DecoratorsAssumption
<1>2. bound \in SUBSET Nat
  BY <1>1
<1>3. PICK k \in DOMAIN Mro[d] : Mro[d][k] = c /\ \A j \in 1..k - 1 : ~Binds(Mro[d][j], name)
  BY DEF Takes
<1>4. k \in bound /\ k \in Nat
  BY <1>1, <1>3
<1>5. \A j \in bound : k <= j
  <2> SUFFICES ASSUME NEW j \in bound, j < k PROVE FALSE
    BY <1>2, <1>4
  <2>1. j \in 1..k - 1
    BY <1>1, <1>3
  <2> QED
    BY <1>3, <2>1
<1> HIDE DEF bound
<1>6. Min(bound) = k
  <2>1. Min(bound) \in bound /\ \A j \in bound : Min(bound) <= j
    BY <1>4, <1>5, Zenon DEF Min
  <2>2. PICK m : m = Min(bound)
    OBVIOUS
  <2>3. m \in Nat /\ m <= k /\ k <= m
    BY <1>2, <1>4, <1>5, <2>1, <2>2
  <2> QED
    BY <1>4, <2>2, <2>3
<1>7. LookUp(d, name) = IF bound = {} THEN None ELSE Value(Mro[d][Min(bound)], name)
  BY Zenon DEF LookUp, bound
<1> QED
  BY <1>3, <1>4, <1>6, <1>7

-------------------------------------------------------------------------------
(* The invariant.                                                           *)

LEMMA InitDInv == Init => DInv
BY DEF Init, DInv, Marked, Dict, IsDict, Gathered, Placed

LEMMA DecorateStepKeeps ==
  ASSUME DInv, NEW f \in Callables, NEW options \in StepOptions[f], DecorateStep(f, options)
  PROVE  DInv'
<1>1. /\ metadata' = [metadata EXCEPT ![f] = BuildStepDefinition(f, options)]
      /\ UNCHANGED <<namespace, definition, collected>>
  BY DEF DecorateStep
<1>2. ASSUME NEW g \in Callables PROVE Marked(g)'
  <2>1. CASE g = f
    <3>1. metadata'[g] = BuildStepDefinition(f, options)
      BY <1>1, <2>1 DEF DInv
    <3> QED
      BY <2>1, <3>1, BuiltTyped DEF Marked
  <2>2. CASE g # f
    <3>1. metadata'[g] = metadata[g]
      BY <1>1, <2>2 DEF DInv
    <3> QED
      BY <3>1 DEF DInv, Marked
  <2> QED
    BY <2>1, <2>2
<1>3. ASSUME NEW c \in Classes
      PROVE  /\ Dict(c)' /\ (collected[c] \in Seq(Entries(c)))' /\ Gathered(c)'
             /\ Placed(collected'[c], namespace'[c])
  <2>1. Placed(collected'[c], namespace'[c])
    BY <1>1 DEF DInv
  <2> QED
    BY <1>1, <2>1 DEF DInv, Dict, IsDict, Gathered, Entries
<1> QED
  BY <1>1, <1>2, <1>3 DEF DInv

LEMMA BindKeeps ==
  ASSUME DInv, NEW c \in Classes, NEW f \in Callables, NEW name \in Attributes[c], Bind(c, name, f)
  PROVE  DInv'
<1>1. /\ namespace' = [namespace EXCEPT ![c] = SetItem(namespace[c], name, f)]
      /\ UNCHANGED <<metadata, definition, collected>>
  BY DEF Bind
<1>2. ASSUME NEW d \in Classes PROVE Dict(d)' /\ Placed(collected'[d], namespace'[d])
  <2>1. CASE d = c
    <3>1. namespace'[d] = SetItem(namespace[c], name, f)
      BY <1>1, <2>1 DEF DInv
    <3>2. IsDict(namespace[c], Attributes[c] \cup {"run"}, Callables \cup {InjectedRun})
      BY DEF DInv, Dict
    <3>3. name \in Attributes[c] \cup {"run"} /\ f \in Callables \cup {InjectedRun}
      OBVIOUS
    <3>4. IsDict(SetItem(namespace[c], name, f),
                 Attributes[c] \cup {"run"}, Callables \cup {InjectedRun})
      BY <3>2, <3>3, SetItemTyped
    <3>5. Placed(collected[c], SetItem(namespace[c], name, f))
      BY <3>2, <3>3, SetItemPlaced DEF DInv
    <3> QED
      BY <1>1, <2>1, <3>1, <3>4, <3>5 DEF Dict
  <2>2. CASE d # c
    <3>1. namespace'[d] = namespace[d] /\ Dict(d) /\ Placed(collected[d], namespace[d])
      BY <1>1, <2>2 DEF DInv
    <3> QED
      BY <1>1, <3>1 DEF Dict
  <2> QED
    BY <2>1, <2>2
<1>3. ASSUME NEW d \in Classes
      PROVE  (collected[d] \in Seq(Entries(d)))' /\ Gathered(d)'
  BY <1>1 DEF DInv, Gathered, Entries
<1> QED
  BY <1>1, <1>2, <1>3 DEF DInv, Marked

LEMMA DecorateWorkflowKeeps ==
  ASSUME DInv, NEW c \in Classes, NEW options \in WorkflowOptions, DecorateWorkflow(c, options)
  PROVE  DInv'
<1>1. PICK entries, wf : /\ entries = StepEntries(c)
                         /\ wf = [options EXCEPT !.steps = Collect(entries)]
  OBVIOUS
<1>2. /\ collected' = [collected EXCEPT ![c] = entries]
      /\ definition' = [definition EXCEPT ![c] = wf]
      /\ metadata' = metadata
  <2>1. collected' = [collected EXCEPT ![c] = entries]
    BY <1>1 DEF DecorateWorkflow
  <2>2. collected'[c] = entries
    BY <2>1 DEF DInv
  <2> QED
    BY <1>1, <2>1, <2>2 DEF DecorateWorkflow
<1>3. ASSUME NEW d \in Classes PROVE Dict(d)'
  <2>1. Dict(d)
    BY DEF DInv
  <2>2. CASE namespace'[d] = namespace[d]
    BY <2>1, <2>2 DEF Dict
  <2>3. CASE namespace'[d] # namespace[d]
    <3>1. d = c /\ namespace'[d] = SetItem(namespace[c], "run", InjectedRun)
      BY <2>3 DEF DecorateWorkflow, DInv
    <3>2. IsDict(SetItem(namespace[c], "run", InjectedRun),
                 Attributes[c] \cup {"run"}, Callables \cup {InjectedRun})
      BY <2>1, <3>1, SetItemTyped DEF Dict
    <3> QED
      BY <3>1, <3>2 DEF Dict
  <2> QED
    BY <2>2, <2>3
<1>4. /\ entries \in Seq({e \in Entries(c) : IsStep(e.value)})
      /\ Placed(entries, namespace[c])
  BY <1>1, StepEntriesTyped DEF DInv, Dict, IsDict, Entries
<1>5. entries \in Seq(Entries(c))
  BY <1>4
<1>6. /\ Collect(entries) \in Seq(Range(Collect(entries)))
      /\ DOMAIN Collect(entries) = DOMAIN entries
      /\ \A k \in DOMAIN entries :
           /\ IsStepDefinition(Collect(entries)[k])
           /\ Collect(entries)[k].name = metadata[entries[k].value].name
           /\ Collect(entries)[k].methodName = FunctionName[entries[k].value]
           /\ Collect(entries)[k].order = k - 1
  BY <1>4, CollectTyped
<1>7. /\ wf.steps = Collect(entries)
      /\ IsWorkflowDefinition(wf)
  <2>1. DOMAIN options = WorkflowFields /\ IsWorkflowDefinition(options)
    BY DecoratorsAssumption
  <2>2. /\ wf.steps = Collect(entries) /\ wf.retries = options.retries
        /\ wf.retryOn = options.retryOn /\ wf.retryDelay = options.retryDelay
    BY <1>1, <2>1 DEF WorkflowFields
  <2> QED
    BY <1>6, <2>1, <2>2 DEF IsWorkflowDefinition
<1>8. ASSUME NEW d \in Classes
      PROVE  (collected[d] \in Seq(Entries(d)))' /\ Gathered(d)'
  <2>1. CASE d = c
    <3>1. collected'[d] = entries /\ definition'[d] = wf
      BY <1>2, <2>1 DEF DInv
    <3> QED
      BY <2>1, <3>1, <1>5, <1>6, <1>7 DEF Gathered, Entries
  <2>2. CASE d # c
    <3>1. collected'[d] = collected[d] /\ definition'[d] = definition[d]
      BY <1>2, <2>2 DEF DInv
    <3> QED
      BY <3>1 DEF DInv, Gathered, Entries
  <2> QED
    BY <2>1, <2>2
<1>9. ASSUME NEW d \in Classes PROVE Placed(collected'[d], namespace'[d])
  <2>1. Placed(collected'[d], namespace[d])
    BY <1>2, <1>4 DEF DInv
  <2>2. CASE namespace'[d] = namespace[d]
    BY <2>1, <2>2
  <2>3. CASE namespace'[d] # namespace[d]
    <3>1. d = c /\ namespace'[d] = SetItem(namespace[c], "run", InjectedRun)
      BY <2>3 DEF DecorateWorkflow, DInv
    <3>2. IsDict(namespace[c], Attributes[c] \cup {"run"}, Callables \cup {InjectedRun})
      BY DEF DInv, Dict
    <3> QED
      BY <2>1, <3>1, <3>2, SetItemPlaced
  <2> QED
    BY <2>2, <2>3
<1>10. DOMAIN namespace' = Classes
  BY DEF DecorateWorkflow, DInv
<1> QED
  BY <1>2, <1>3, <1>8, <1>9, <1>10 DEF DInv, Marked

LEMMA NextDInv == DInv /\ [Next]_vars => DInv'
<1>1. ASSUME DInv, UNCHANGED vars PROVE DInv'
  <2>1. ASSUME NEW c \in Classes PROVE Placed(collected'[c], namespace'[c])
    BY <1>1 DEF vars, DInv
  <2> QED
    BY <1>1, <2>1 DEF vars, DInv, Marked, Dict, Gathered, Entries
<1> QED
  BY <1>1, DecorateStepKeeps, BindKeeps, DecorateWorkflowKeeps DEF Next

-------------------------------------------------------------------------------
(* Theorems.                                                                *)

\* DInv holds throughout.
THEOREM AuthoringInvariance == Spec => []DInv
BY InitDInv, NextDInv, PTL DEF Spec

\* What the decorators leave is typed, whatever was omitted. (TypeOK)
THEOREM AuthoringTyped == Spec => []TypeOK
<1>1. DInv => TypeOK
  BY DEF DInv, Marked, Dict, IsDict, Entries, Gathered, TypeOK
<1> QED
  BY <1>1, AuthoringInvariance, PTL

\* No function is two steps of a definition that is accepted. (EachFunctionIsOneStep)
THEOREM FunctionsAreOneStep == Spec => []EachFunctionIsOneStep
<1>1. DInv => EachFunctionIsOneStep
  <2> SUFFICES ASSUME DInv, NEW c \in Classes, Accepted(c),
                      NEW j \in DOMAIN collected[c], NEW k \in DOMAIN collected[c],
                      collected[c][j].value = collected[c][k].value
               PROVE  j = k
    BY DEF EachFunctionIsOneStep
  <2>1. /\ definition[c].steps[j].name = definition[c].steps[k].name
        /\ DOMAIN definition[c].steps = DOMAIN collected[c]
    BY DEF DInv, Gathered, Accepted
  <2> QED
    BY <2>1 DEF Accepted, ValidWorkflowDefinition, NamesDiffer
<1> QED
  BY <1>1, AuthoringInvariance, PTL

\* The steps of a class follow the names of its namespace, however often and whenever
\* they are bound again. (StepsKeepTheirPlaces)
THEOREM PlacesAreKept == Spec => []StepsKeepTheirPlaces
<1>1. DInv => StepsKeepTheirPlaces
  <2> SUFFICES ASSUME DInv, NEW c \in Classes, definition[c] # None,
                      NEW j \in DOMAIN collected[c], NEW k \in DOMAIN collected[c]
               PROVE  /\ definition[c].steps[k].order = k - 1
                      /\ Binds(c, collected[c][k].name)
                      /\ j < k =>
                           \E m, n \in DOMAIN namespace[c] :
                             /\ m < n
                             /\ namespace[c][m].name = collected[c][j].name
                             /\ namespace[c][n].name = collected[c][k].name
    BY DEF StepsKeepTheirPlaces
  <2>1. Gathered(c) /\ Placed(collected[c], namespace[c])
    BY DEF DInv
  <2> QED
    BY <2>1 DEF Gathered, Placed, Binds
<1> QED
  BY <1>1, AuthoringInvariance, PTL

\* A step runs the function it was made from, for every class hierarchy, as long as
\* nothing was bound over it and the instance, which is looked at first, has no
\* attribute of its own by that name. (StepsRunTheirFunctions)
THEOREM StepsFindTheirFunctions == Spec => []StepsRunTheirFunctions
<1>1. DInv => StepsRunTheirFunctions
  <2> SUFFICES ASSUME DInv, NEW c \in Classes, definition[c] # None,
                      NEW k \in DOMAIN collected[c], NEW e, e = collected[c][k],
                      e.name = FunctionName[e.value], e \in Range(namespace[c]),
                      e.name \notin DOMAIN Instance,
                      NEW d \in Classes, DefinitionOf(d) = definition[c], Takes(d, e.name, c)
               PROVE  BoundMethod(d, definition[c].steps[k].methodName) = e.value
    BY DEF StepsRunTheirFunctions
  <2>1. definition[c].steps[k].methodName = e.name
    BY DEF DInv, Gathered
  <2>2. PICK j \in DOMAIN namespace[c] : namespace[c][j] = e
    BY DEF Range
  <2>3. Binds(c, e.name) /\ Value(c, e.name) = e.value
    BY <2>2, ValueFound DEF Binds, DInv
  <2>4. LookUp(d, e.name) = e.value
    BY <2>3, LookUpFound
  <2> QED
    BY <2>1, <2>4 DEF BoundMethod
<1> QED
  BY <1>1, AuthoringInvariance, PTL
===============================================================================
