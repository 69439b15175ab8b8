------------------------------ MODULE MCInspection ------------------------------
(* Definitions of up to three steps, valid and not: every routing among them; and   *)
(* texts of up to three of the characters that matter to a chart.                    *)
EXTENDS Mermaid

\* The texts in order of length.
Alphabet == <<"backslash", "quote", "newline", "bar", "n">>

Text[i \in 0..155] ==
  IF i = 0 THEN <<>> ELSE Append(Text[(i - 1) \div 5], Alphabet[((i - 1) % 5) + 1])

\* All up to two characters; of three characters, what follows a backslash.
Texts == {ToString(i) : i \in {j \in 1..155 : j <= 30 \/ Text[j][1] = "backslash"}}
Words == <<"a", "b", "c", "yes", "no", "huh", "run">>

MCStrings == Range(Words) \cup Texts

MCSpelling ==
  [s \in Texts |-> Text[CHOOSE i \in 1..155 : ToString(i) = s]]
  @@ [w \in Range(Words) |-> [k \in 1..(CHOOSE i \in DOMAIN Words : Words[i] = w) |-> "x"]]

MCErrorClasses == FrameworkErrors

MCBases == [c \in MCErrorClasses |-> {c, "Exception", "BaseException"}]

Basic(name) ==
  [name |-> name, methodName |-> name, order |-> 0,
   method |-> [async |-> FALSE, kinds |-> <<"positional">>, binds |-> TRUE],
   retries |-> None, retryOn |-> None, retryDelay |-> None, routes |-> None,
   requiresApproval |-> FALSE, approvalMessage |-> None, approvalMetadata |-> None]

Targets == {"a", "b", "c", "huh", END}

RouteChoices ==
  {None} \cup [{"yes"} -> Targets] \cup [{"yes", "no"} -> {"b", "c", END}]

Declared(names, routes) ==
  [steps |-> [i \in DOMAIN names |-> [Basic(names[i]) EXCEPT !.routes = routes[i]]],
   retries |-> 0, retryOn |-> {}, retryDelay |-> 0]

RoutedWorkflows ==
  {Declared(names, routes) :
     names  \in {<<"a", "b", "c">>, <<"a", "b", "a">>},
     routes \in [1..3 -> RouteChoices]}

Defective(s) ==
  {[s EXCEPT !.name = ""], [s EXCEPT !.name = "run"], [s EXCEPT !.methodName = ""],
   [s EXCEPT !.methodName = "run"], [s EXCEPT !.order = -1], [s EXCEPT !.retries = -1],
   [s EXCEPT !.retryOn = Malformed], [s EXCEPT !.retryDelay = -1],
   [s EXCEPT !.requiresApproval = Malformed], [s EXCEPT !.approvalMessage = ""],
   [s EXCEPT !.approvalMetadata = Malformed], [s EXCEPT !.routes = <<>>],
   [s EXCEPT !.routes = [k \in {""} |-> END]], [s EXCEPT !.routes = [k \in {"yes"} |-> None]]}

DefectiveWorkflows ==
  {[steps |-> <<s>>, retries |-> 0, retryOn |-> {}, retryDelay |-> 0] : s \in Defective(Basic("a"))}
  \cup {[Declared(<<"a">>, <<None>>) EXCEPT !.retries = -1],
        [Declared(<<"a">>, <<None>>) EXCEPT !.retryOn = None],
        [Declared(<<"a">>, <<None>>) EXCEPT !.retryDelay = -1],
        Declared(<<>>, <<>>)}

\* One text as a name and as a route key, and next to another.
TextWorkflows ==
  {[steps |-> <<[Basic(s) EXCEPT !.requiresApproval = b, !.routes = (s :> END @@ "1" :> t)],
                Basic(t)>>,
    retries |-> 0, retryOn |-> {}, retryDelay |-> 0] : s \in Texts, t \in {"1", "2"}, b \in BOOLEAN}

MCWorkflows == RoutedWorkflows \cup DefectiveWorkflows \cup TextWorkflows
===============================================================================
