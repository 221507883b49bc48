---------------------------- MODULE AgentOptions ----------------------------
(***************************************************************************)
(* The options of the agent: the language of agent/conf/src/               *)
(* PjAgentConfLang.pest, and how agent/conf/src/lib.rs applies a list of   *)
(* options to the configuration, one after the other.                      *)
(*                                                                         *)
(* A text is a sequence of words, spaces, and the characters "," "=" and   *)
(* the quote.  What is between two of these is one word.                   *)
(***************************************************************************)
EXTENDS Integers, Sequences

CONSTANTS
    Texts,       \* texts that are given to the agent
    Lists,       \* lists of settings, each meant by some texts
    Words,       \* the words in these texts
    Names,       \* the words in lower case, which may name options
    NoValue,     \* no value was given, or a text has no intended meaning
    Panic        \* the outcome of an option that is not valid

Space  == " "
Comma  == ","
Equals == "="
Quote  == "\""
EOI    == "end of input"

Flags   == {"verbose", "debug_dump_classes_before_instr", "debug_dump_classes_after_instr"}
Options == Flags \union {"phasicj_exec"}

\* What an argument may be: words and spaces.
Args == Seq(Words \union {Space})

ASSUME OptionsAssumption ==
    /\ Names \subseteq Words /\ Options \union {"true", "false"} \subseteq Names
    /\ Words \intersect {Space, Quote, EOI, Comma, Equals} = {}
    /\ Texts \subseteq Seq(Words \union {Space, Quote, Comma, Equals})
    /\ NoValue \notin Args \union Texts \union Lists
    /\ Panic \notin Args \union BOOLEAN \union {NoValue}

\* A setting has a value that does not begin with a space, or none.
ASSUME ListsAssumption ==
    \A list \in Lists :
        /\ list \in Seq({list[i] : i \in DOMAIN list})
        /\ \A i \in 1..Len(list) :
              /\ list[i].name \in Names
              /\ \/ list[i].value = NoValue
                 \/ /\ list[i].value \in Args
                    /\ list[i].value # <<>> => list[i].value[1] # Space

VARIABLES
    text,        \* given to Agent_OnLoad
    meant,       \* the settings that it was written for, if any
    todo,        \* options that have been parsed and not yet applied
    conf,        \* the configuration
    status       \* of new_from_agent_options_list_str()

vars == <<text, meant, todo, conf, status>>

-----------------------------------------------------------------------------
(* The grammar.  Spaces are skipped between the parts of a rule, but not   *)
(* in conf_option_arg, which is atomic and has spaces of its own.          *)

\* The first place in s, from i on, that is none of the given tokens.
Past(s, i, tokens) == CHOOSE j \in i..Len(s) :
    s[j] \notin tokens /\ \A k \in i..j - 1 : s[k] \in tokens

Skip(s, i) == Past(s, i, {Space})

\* conf_option_arg: words and spaces.
ArgEnd(s, i) == Past(s, i, Words \union {Space})

Parsed(name, value, next) == [name |-> name, value |-> value, next |-> next]

\* agent_option, whose name is at i.  The quoted form is tried first.
OptionAt(s, i) ==
    LET eq    == Skip(s, i + 1)
        arg   == Skip(s, eq + 1)
        end   == ArgEnd(s, arg)
        qarg  == Skip(s, arg + 1)
        qend  == ArgEnd(s, qarg)
    IN  IF s[eq] # Equals THEN Parsed(s[i], NoValue, eq)
        ELSE IF s[arg] = Quote /\ s[qend] = Quote
        THEN Parsed(s[i], SubSeq(s, qarg, qend - 1), Skip(s, qend + 1))
        ELSE Parsed(s[i], SubSeq(s, arg, end - 1), end)

Failure == <<Parsed("failure", NoValue, 0)>>

\* An option and what follows it.
Followed(o, rest) == IF rest = Failure THEN Failure ELSE <<o>> \o rest

\* agent_options_list: the options from each place on, if there is one.
List(s) ==
    LET list[i \in 1..Len(s)] ==
            IF s[i] \in Names /\ s[OptionAt(s, i).next] = EOI THEN <<OptionAt(s, i)>>
            ELSE IF s[i] \in Names /\ s[OptionAt(s, i).next] = Comma
            THEN Followed(OptionAt(s, i), list[Skip(s, OptionAt(s, i).next + 1)])
            ELSE Failure
    IN  list

Parse(given) ==
    LET s     == Append(given, EOI)
        start == Skip(s, 1)
    IN  IF s[start] = EOI THEN <<>> ELSE List(s)[start]

-----------------------------------------------------------------------------
(* Applying options.                                                       *)

Defaults == [o \in Options |-> IF o \in Flags THEN FALSE ELSE NoValue]

\* Variant: everything but "false" is true.
EvalNotFalse(value) == value # <<"false">>

\* eval_bool_option_value().
Eval(value) ==
    CASE value \in {NoValue, <<"true">>} -> TRUE
      [] value = <<"false">> -> FALSE
      [] OTHER -> Panic

\* Variant: an empty value is taken.
PathIfGiven(value) == IF value = NoValue THEN Panic ELSE value

Path(value) == IF value \in {NoValue, <<>>} THEN Panic ELSE value

\* apply_agent_option().
Value(o) ==
    CASE o.name \in Flags -> Eval(o.value)
      [] o.name = "phasicj_exec" -> Path(o.value)
      [] OTHER -> Panic

-----------------------------------------------------------------------------

\* The configuration that a list of options asks for: of those of one name the
\* last one holds.
Effect(list) ==
    [name \in Options |->
        LET set == {i \in 1..Len(list) : list[i].name = name} IN
        IF set = {} THEN Defaults[name]
        ELSE Value(list[CHOOSE i \in set : \A j \in set : j <= i])]

\* One way to write settings down; values are quoted.
Setting(o) ==
    <<o.name>> \o
        (IF o.value = NoValue THEN <<>> ELSE <<Equals, Quote>> \o o.value \o <<Quote>>)

\* The text of the settings from each place on.
Written(list) ==
    LET from[i \in 1..Len(list)] ==
            Setting(list[i]) \o
                (IF i = Len(list) THEN <<>> ELSE <<Comma, Space>> \o from[i + 1])
    IN  from

Render(list) == IF list = <<>> THEN <<>> ELSE Written(list)[1]

Init ==
    /\ \/ text \in Texts /\ meant = NoValue
       \/ meant \in Lists /\ text = Render(meant)
    /\ todo = <<>> /\ conf = Defaults /\ status = "parsing"

\* The whole text is parsed before the first option is applied.
ParseText ==
    /\ status = "parsing"
    /\ IF Parse(text) = Failure
       THEN status' = "panicked" /\ UNCHANGED todo
       ELSE status' = "applying" /\ todo' = Parse(text)
    /\ UNCHANGED <<text, meant, conf>>

\* Variant: an option that is set is not set again.
ApplyFirst ==
    /\ status = "applying" /\ todo # <<>>
    /\ todo' = Tail(todo)
    /\ LET o == Head(todo) IN
       IF Value(o) = Panic THEN status' = "panicked" /\ UNCHANGED conf
       ELSE /\ conf' = IF conf[o.name] = Defaults[o.name]
                       THEN [conf EXCEPT ![o.name] = Value(o)] ELSE conf
            /\ UNCHANGED status
    /\ UNCHANGED <<text, meant>>

\* apply_agent_option_pair(); a panic ends the JVM before the agent is set up.
Apply ==
    /\ status = "applying" /\ todo # <<>>
    /\ todo' = Tail(todo)
    /\ LET o == Head(todo) IN
       IF Value(o) = Panic THEN status' = "panicked" /\ UNCHANGED conf
       ELSE conf' = [conf EXCEPT ![o.name] = Value(o)] /\ UNCHANGED status
    /\ UNCHANGED <<text, meant>>

Done ==
    /\ status = "applying" /\ todo = <<>>
    /\ status' = "done"
    /\ UNCHANGED <<text, meant, todo, conf>>

Next == ParseText \/ Apply \/ Done

Spec == Init /\ [][Next]_vars

-----------------------------------------------------------------------------
(* Properties.                                                             *)

\* The program to run has a name, which does not begin with a space, however
\* the option was written.
ExecIsNamed ==
    conf["phasicj_exec"] = NoValue \/ Head(conf["phasicj_exec"] \o <<Space>>) \in Words

\* A written list of settings has its effect: of the settings of one option the
\* last one holds, an option that is not set has its default; and a list keeps
\* the JVM from starting only if one of its settings is not valid.
WrittenSettingsHold ==
    meant # NoValue =>
        /\ status = "done" => conf = Effect(meant)
        /\ status = "panicked" => \E i \in 1..Len(meant) : Value(meant[i]) = Panic

\* The text up to each place, without its spaces.
Squeezed(s) ==
    LET upto[i \in 0..Len(s)] ==
            IF i = 0 THEN <<>>
            ELSE IF s[i] = Space THEN upto[i - 1] ELSE Append(upto[i - 1], s[i])
    IN  upto

Squeeze(s) == Squeezed(s)[Len(s)]

\* Spaces never give a text another meaning, but for those in the name of the
\* program: what is understood at all is understood as without spaces.
SpacesHaveNoMeaning ==
    status = "done" =>
        LET squeezed == Effect(Parse(Squeeze(text)))
            exec     == conf["phasicj_exec"]
        IN  /\ \A f \in Flags : conf[f] = squeezed[f]
            /\ squeezed["phasicj_exec"] = IF exec = NoValue THEN NoValue ELSE Squeeze(exec)
=============================================================================
