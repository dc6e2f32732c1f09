------------------------------ MODULE Iptables ------------------------------
(***************************************************************************)
(* The amesh-iptables command: the rules it generates from its flags, the  *)
(* commands that install them one by one in the network namespace of a pod *)
(* where connections are being made, and what becomes of a connection      *)
(* (the evaluation of chains is external, iptables).                       *)
(*                                                                         *)
(* The command runs in an init container, which is restarted when it has   *)
(* failed; what it had installed stays.                                    *)
(***************************************************************************)
EXTENDS Naturals, Sequences, SequencesExt, FiniteSets, FiniteSetsExt

CONSTANTS
  Flags,     \* values of --inbound-ports and so on: lists of ports, or <<"*">>
  Ports      \* the ports of connections

\* The items of a list are ports, or empty: "80,,8080".
ASSUME FlagsAssumption ==
  \A c \in Flags :
    /\ \A list \in {c.inbound, c.outbound} \ {<<"*">>} : Range(list) \subseteq Ports \cup {""}
    /\ Range(c.inboundExclude) \cup Range(c.outboundExclude) \subseteq Ports \cup {""}
ASSUME PortsAssumption == "22" \in Ports /\ {"", "*"} \cap Ports = {}

VARIABLES
  cfg,         \* the flags
  installed,   \* the commands that have had an effect
  next,        \* the index of the command to run next
  state        \* running, finished or failed

vars == <<cfg, installed, next, state>>

-----------------------------------------------------------------------------
(***************************************************************************)
(* The rules.  A rule has a chain, a condition and a target, which is a    *)
(* chain, "RETURN" or the name of the port it redirects to.  All but the   *)
(* rules to skip are for TCP only, as is everything here.                  *)
(***************************************************************************)

Rule(chain, cond, target) == [chain |-> chain, cond |-> cond, target |-> target]

Always == [kind |-> "always"]
Dport(port) == [kind |-> "dport", port |-> port]

\* Mutant: empty items of the list are kept.
SplitUnfiltered(list) == list

\* split and filterEmpty.
Split(list) == SelectSeq(list, LAMBDA s : s # "")

RedirectRules ==
  <<Rule("REDIRECT", Always, "ProxyPort"),
    Rule("INBOUND_REDIRECT", Always, "InboundCapturePort")>>

\* insertSkipRules: the proxy by its user on the loopback interface, all that
\* goes to 127.0.0.1, and the proxy by its group.
SkipRules ==
  <<Rule("OUTPUT", [kind |-> "loUser"], "RETURN"),
    Rule("OUTPUT", [kind |-> "local"], "RETURN"),
    Rule("OUTPUT", [kind |-> "group"], "RETURN")>>

PortRules(chain, list, target) ==
  LET ports == Split(list) IN [i \in DOMAIN ports |-> Rule(chain, Dport(ports[i]), target)]

\* insertInboundRules.
InboundRules(c) ==
  IF c.inbound = << >> THEN << >>
  ELSE <<Rule("PREROUTING", Always, "INBOUND")>> \o
       IF c.inbound = <<"*">>
       THEN <<Rule("INBOUND", Dport("22"), "RETURN")>>
              \o PortRules("INBOUND", c.inboundExclude, "RETURN")
              \o <<Rule("INBOUND", Always, "INBOUND_REDIRECT")>>
       ELSE PortRules("INBOUND", c.inbound, "INBOUND_REDIRECT")

\* Mutant: a list is taken to be of one port.
OutboundRulesFirst(c) ==
  IF c.outbound = << >> THEN << >>
  ELSE IF c.outbound = <<"*">>
  THEN PortRules("OUTPUT", c.outboundExclude, "RETURN")
         \o <<Rule("OUTPUT", Always, "REDIRECT")>>
  ELSE PortRules("OUTPUT", <<Head(c.outbound)>>, "REDIRECT")

\* insertOutboundRules.
OutboundRules(c) ==
  IF c.outbound = << >> THEN << >>
  ELSE IF c.outbound = <<"*">>
  THEN PortRules("OUTPUT", c.outboundExclude, "RETURN")
         \o <<Rule("OUTPUT", Always, "REDIRECT")>>
  ELSE PortRules("OUTPUT", c.outbound, "REDIRECT")

\* Mutant: the rules to skip come last.
RulesSkipLast(c) == RedirectRules \o InboundRules(c) \o OutboundRules(c) \o SkipRules

\* run.
Rules(c) == RedirectRules \o SkipRules \o InboundRules(c) \o OutboundRules(c)

-----------------------------------------------------------------------------
(***************************************************************************)
(* The commands: istio's builder (external) creates all chains that have   *)
(* rules, but for the built-in ones, and then appends the rules.           *)
(***************************************************************************)

BuiltIn == {"OUTPUT", "PREROUTING"}
Chains == BuiltIn \cup {"INBOUND", "REDIRECT", "INBOUND_REDIRECT"}

BuildV4(c) ==
  LET rules  == Rules(c)
      isNew(i) == /\ rules[i].chain \notin BuiltIn
                  /\ \A j \in 1..(i - 1) : rules[j].chain # rules[i].chain
      chains == SetToSortSeq({i \in DOMAIN rules : isNew(i)}, <)
  IN  [i \in DOMAIN chains |-> [op |-> "new", chain |-> rules[chains[i]].chain]]
        \o [i \in DOMAIN rules |-> [op |-> "append", rule |-> rules[i]]]

Created(chain) == \E i \in DOMAIN installed :
                    installed[i].op = "new" /\ installed[i].chain = chain

\* Mutant: creating a chain that there is already succeeds.
PossibleAgain(cmd) ==
  cmd.op = "append" /\ cmd.rule.target \in Chains => Created(cmd.rule.target)

\* A chain can be created once; a rule can only jump to a chain there is.
Possible(cmd) ==
  IF cmd.op = "new" THEN ~Created(cmd.chain)
  ELSE cmd.rule.target \in Chains => Created(cmd.rule.target)

\* executeCommand, one command that succeeds.
RunCommand ==
  /\ state = "running" /\ next <= Len(BuildV4(cfg))
  /\ Possible(BuildV4(cfg)[next])
  /\ installed' = Append(installed, BuildV4(cfg)[next])
  /\ next' = next + 1
  /\ UNCHANGED <<cfg, state>>

\* RunOrFail ends the process when a command fails, for whatever reason.
FailCommand ==
  /\ state = "running" /\ next <= Len(BuildV4(cfg))
  /\ state' = "failed"
  /\ UNCHANGED <<cfg, installed, next>>

Finish ==
  /\ state = "running" /\ next > Len(BuildV4(cfg))
  /\ state' = "finished"
  /\ UNCHANGED <<cfg, installed, next>>

\* The container is started again.
Rerun ==
  /\ state = "failed"
  /\ state' = "running" /\ next' = 1
  /\ UNCHANGED <<cfg, installed>>

Init ==
  /\ cfg \in Flags
  /\ installed = << >>
  /\ next = 1
  /\ state = "running"

Next == RunCommand \/ FailCommand \/ Finish \/ Rerun

Spec == Init /\ [][Next]_vars

-----------------------------------------------------------------------------
(***************************************************************************)
(* Connections, and what iptables (external) does with one                 *)
(***************************************************************************)

\* Incoming ones to a port, and outgoing ones of the proxy's or another user
\* and group, over the loopback interface or not, to 127.0.0.1 or elsewhere.
Connections ==
  [inbound : BOOLEAN, port : Ports, proxyUser : BOOLEAN, proxyGroup : BOOLEAN,
   lo : BOOLEAN, local : BOOLEAN]

Matches(cond, x) ==
  CASE cond.kind = "always" -> TRUE
    [] cond.kind = "dport"  -> x.port = cond.port
    [] cond.kind = "loUser" -> x.lo /\ ~x.local /\ x.proxyUser
    [] cond.kind = "local"  -> x.local
    [] OTHER                -> x.proxyGroup

InstalledRules ==
  LET cmds == SelectSeq(installed, LAMBDA c : c.op = "append")
  IN  [i \in DOMAIN cmds |-> cmds[i].rule]

\* What a connection meets in a chain that leads to at most n others: a port,
\* "RETURN", or "none" at the end of the chain.
Walk(rules, x) ==
  LET outcome[n \in 0..3] ==
        [c \in Chains |->
           LET met(i) == IF rules[i].target \in Chains
                         THEN IF n = 0 THEN "none" ELSE outcome[n - 1][rules[i].target]
                         ELSE rules[i].target
               final == {i \in DOMAIN rules :
                           /\ rules[i].chain = c /\ Matches(rules[i].cond, x)
                           /\ rules[i].target \in Chains => met(i) \notin {"none", "RETURN"}}
           IN  IF final = {} THEN "none" ELSE met(Min(final))]
      start == IF x.inbound THEN "PREROUTING" ELSE "OUTPUT"
  IN  outcome[3][start]

\* The port a connection is redirected to, if it is.
Redirected(x) ==
  LET w == Walk(InstalledRules, x) IN IF w = "RETURN" THEN "none" ELSE w

-----------------------------------------------------------------------------
(***************************************************************************)
(* Properties                                                              *)
(***************************************************************************)

Wanted(list, excluded, port) ==
  IF list = <<"*">> THEN port \notin excluded ELSE port \in Range(list)

\* What the descriptions of the flags promise for a connection.
Promised(x) ==
  IF x.inbound
  THEN IF Wanted(cfg.inbound, Range(cfg.inboundExclude) \cup {"22"}, x.port)
       THEN "InboundCapturePort" ELSE "none"
  ELSE IF /\ ~x.local /\ ~x.proxyGroup /\ ~(x.lo /\ x.proxyUser)
          /\ Wanted(cfg.outbound, Range(cfg.outboundExclude), x.port)
       THEN "ProxyPort" ELSE "none"

Conditions ==
  [kind : {"always", "loUser", "local", "group"}] \cup [kind : {"dport"}, port : Ports]

Commands ==
  [op : {"new"}, chain : Chains \ BuiltIn] \cup
  [op : {"append"},
   rule : [chain : Chains, cond : Conditions,
           target : Chains \cup {"RETURN", "ProxyPort", "InboundCapturePort"}]]

\* Types: in particular every rule with --dport that is installed names a port,
\* whatever the lists of the flags look like.
TypeOK ==
  /\ cfg \in Flags
  /\ installed \in Seq(Commands)
  /\ next \in 1..(Len(BuildV4(cfg)) + 1)
  /\ state \in {"running", "finished", "failed"}

\* At no time while the rules are being installed, nor when that has failed
\* half way, is a connection redirected that should not be: in particular none
\* of the proxy's own, which would come back to it for ever.
NothingElseRedirected == \A x \in Connections : Redirected(x) \in {"none", Promised(x)}

\* When the command has finished, just the connections that the flags are
\* about are redirected, each to the port for its direction.
AllRedirected == state = "finished" => \A x \in Connections : Redirected(x) = Promised(x)

\* However often it fails and is run again, no command takes effect twice, and
\* those that have are the first ones of the list: a second run does not get
\* past the first chain, which is there already.
InstalledInOrder == IsPrefix(installed, BuildV4(cfg))

=============================================================================
