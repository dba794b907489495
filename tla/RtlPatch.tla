------------------------------ MODULE RtlPatch ------------------------------
(***************************************************************************)
(* What the Verilator runner does to the RTL it copied                     *)
(* (frt-cosim/src/runner/verilator.rs): a simulation model for each vendor *)
(* IP that has none, and blocking assignments in combinational blocks.     *)
(*                                                                         *)
(* An RTL directory is a function from file names <<module, extension>> to *)
(* file bodies.  A Tcl body is [core, config], config a function from the  *)
(* CONFIG keys it sets to values (numbers, -1 when they do not parse).     *)
(***************************************************************************)
EXTENDS CosimPackage

\* The value of a CONFIG key, if it is set.
Key(config, k) == IF k \in DOMAIN config THEN <<config[k]>> ELSE <<>>
Numeric(value) == value # <<>> /\ value # <<Bad>>

\* parse_xilinx_fp_ip_tcl_text: the operation, its width and its latency.
FpOperation(config) ==
  LET double == Key(config, "a_precision_type") = <<"double">>
      type == Key(config, "operation_type")
      sub == Key(config, "add_sub_value") \in {<<"subtract">>, <<"sub">>}
      op == CASE type = <<"unfused_multiply_add">> -> <<"madd", 3>>
              [] type = <<"multiply">> -> <<"mul", 2>>
              [] type \in {<<"add_subtract">>, <<"add">>, <<"subtract">>} ->
                   <<IF sub THEN "sub" ELSE "add", 2>>
              [] OTHER -> <<>>
  IN IF op = <<>> \/ (double /\ op[1] = "madd") THEN <<>>
     ELSE <<[op |-> op[1], operands |-> op[2], bits |-> IF double THEN 64 ELSE 32]>>

ParseFpIp(tcl) ==
  LET op == FpOperation(tcl.config) latency == Key(tcl.config, "c_latency")
  IN IF tcl.core # "floating_point" \/ op = <<>> THEN [ok |-> TRUE, model |-> <<>>]
     ELSE IF ~Numeric(latency) THEN [ok |-> FALSE, model |-> <<>>]
     ELSE [ok |-> TRUE, model |-> <<[kind |-> "fp", what |-> op[1], latency |-> latency[1]]>>]

\* parse_xilinx_divider_ip_tcl_text: unsigned dividers, nothing zero.
ParseDividerIp(tcl) ==
  LET value(k) == Key(tcl.config, k)
      sizes == {value("dividend_and_quotient_width"), value("divisor_width"), value("latency")}
  IN IF tcl.core # "div_gen" \/ value("operand_sign") # <<"unsigned">>
     THEN [ok |-> TRUE, model |-> <<>>]
     ELSE IF \E v \in sizes : ~Numeric(v) \/ v = <<0>> THEN [ok |-> FALSE, model |-> <<>>]
     ELSE [ok |-> TRUE,
           model |-> <<[kind |-> "div",
                        what |-> [quotient |-> value("dividend_and_quotient_width")[1],
                                  divisor |-> value("divisor_width")[1]],
                        latency |-> value("latency")[1]]>>]

\* parse_xilinx_ip_model: without its Tcl an IP stays without a model.
ParseIpModel(rtl, ip) ==
  IF <<ip, "tcl">> \notin DOMAIN rtl THEN [ok |-> TRUE, model |-> <<>>]
  ELSE LET fp == ParseFpIp(rtl[<<ip, "tcl">>])
       IN IF ~fp.ok \/ fp.model # <<>> THEN fp ELSE ParseDividerIp(rtl[<<ip, "tcl">>])

\* The IP modules that the sources instantiate.
Ips(rtl) == UNION {Range(rtl[f].ips) : f \in {g \in DOMAIN rtl : g[2] # "tcl"}}

\* A file that is not encrypted is taken for an implementation.
HasPlainTextModule(rtl, ip) ==
  \E ext \in {"v", "sv"} : <<ip, ext>> \in DOMAIN rtl /\ rtl[<<ip, ext>>].plain

\* Mutant: an encrypted file is taken for an implementation as well.
ModelledMutant(rtl) ==
  {ip \in Ips(rtl) : /\ \A ext \in {"v", "sv"} : <<ip, ext>> \notin DOMAIN rtl
                     /\ ParseIpModel(rtl, ip).model # <<>>}

\* The IPs that get a generated model.
Modelled(rtl) ==
  {ip \in Ips(rtl) : ~HasPlainTextModule(rtl, ip) /\ ParseIpModel(rtl, ip).model # <<>>}

ModelsFail(rtl) ==
  \E ip \in Ips(rtl) : ~HasPlainTextModule(rtl, ip) /\ ~ParseIpModel(rtl, ip).ok

\* The generated module: plain text, of the latency and operation it models.
GeneratedModel(ip, model) == [module |-> ip, ips |-> <<>>, plain |-> TRUE, model |-> model]

\* generate_xilinx_ip_models: each model is a plain <ip>.sv.
WithModels(rtl) ==
  [f \in DOMAIN rtl \cup {<<ip, "sv">> : ip \in Modelled(rtl)} |->
     IF f[2] = "sv" /\ f[1] \in Modelled(rtl)
     THEN GeneratedModel(f[1], ParseIpModel(rtl, f[1]).model)
     ELSE rtl[f]]
-----------------------------------------------------------------------------
(* rewrite_combinational_nba: one pass over the lines of a file.  A line   *)
(* is [form, begins, ends, semi, nba]: what it starts with, its whole-word *)
(* begins and ends (those inside a longer word do not match), whether it   *)
(* has a semicolon and is a non-blocking assignment to a plain identifier. *)
(* A line may also hold one of the words where it is no keyword.           *)

VARIABLES
  comb,      \* the rewriter's state: <<"outside">>, <<"block", depth>>, <<"statement">>
  block,     \* where the next line is: [kind (outside, comb or seq), depth, empty]
  spelt,     \* a combinational block the rewriter promises to rewrite in full
  line,      \* the last line: its place, is it an assignment to rewrite, was it rewritten
  quoted     \* has there been a begin or end in a string or a block comment
scanVars == <<comb, block, spelt, line, quoted>>

Line(form, begins, ends, semi, nba) ==
  [form |-> form, begins |-> begins, ends |-> ends, semi |-> semi, nba |-> nba]

\* The lines that may come next in well-formed RTL, given where we are.  A
\* statement of its own on the line after its always is at depth 0, and no
\* block ends without a statement in it.
Lines(where) ==
  LET assign == Line("other", 0, 0, TRUE, TRUE)
      plain == {Line("other", 0, 0, TRUE, FALSE), Line("other", 0, 0, FALSE, FALSE)}
      opens == Line("other", 1, 0, FALSE, FALSE)
      ends == {Line("other", 0, 1, FALSE, FALSE), Line("other", 1, 1, FALSE, FALSE)}
  IN CASE where.kind = "outside" ->
            plain \cup UNION {{Line(a, 1, 0, FALSE, FALSE), Line(a, 0, 0, TRUE, TRUE),
                               Line(a, 0, 0, FALSE, FALSE), Line(a, 1, 1, TRUE, TRUE)} :
                                a \in {"comb", "seq"}}
       [] where.kind # "outside" /\ where.depth = 0 -> {assign, opens}
       [] where.kind # "outside" /\ where.depth # 0 -> plain \cup {assign, opens} \cup (IF where.empty THEN {} ELSE ends)

\* A stray word: none, behind // or in a string or block comment; its begins and
\* ends.  One string or block comment is enough to mislead the rewriter.
Strays ==
  {<<"none", 0, 0>>, <<"comment", 1, 0>>, <<"comment", 0, 1>>}
    \cup (IF quoted THEN {} ELSE {<<"quoted", 1, 0>>, <<"quoted", 0, 1>>})

\* The line as the rewriter counts it: what is behind // is cut off, and strings
\* and block comments are not told from code.
Code(l, stray) ==
  IF stray[1] = "quoted" THEN [l EXCEPT !.begins = @ + stray[2], !.ends = @ + stray[3]] ELSE l

\* Where the next line is.
Enter(where, l) ==
  LET depth == where.depth + l.begins - l.ends
      outside == [kind |-> "outside", depth |-> 0, empty |-> TRUE]
  IN CASE where.kind = "outside" ->
            IF l.form = "other" \/ l.semi THEN where
            ELSE [kind |-> l.form, depth |-> depth, empty |-> TRUE]
       [] where.kind # "outside" /\ depth = 0 -> outside
       [] where.kind # "outside" /\ depth # 0 -> [where EXCEPT !.depth = depth, !.empty = where.empty /\ ~l.semi]

NetBegins(l) == l.begins - l.ends

\* The rewriter's next state.
NextComb(l) ==
  CASE comb[1] = "block" ->
         IF comb[2] + NetBegins(l) <= 0 THEN <<"outside">> ELSE <<"block", comb[2] + NetBegins(l)>>
    [] comb[1] = "statement" -> IF l.semi THEN <<"outside">> ELSE comb
    [] comb[1] = "outside" ->
         IF l.form # "comb" THEN comb
         ELSE IF NetBegins(l) > 0 THEN <<"block", NetBegins(l)>>
         ELSE IF l.semi THEN comb ELSE <<"statement">>

\* Is an assignment on this line rewritten?  One behind an always only when it
\* follows the @(*) itself, any other only when nothing follows its semicolon.
Rewrites(l, commented) ==
  /\ l.nba
  /\ IF l.form = "other" THEN comb[1] # "outside" /\ ~commented
     ELSE /\ l.form = "comb" /\ l.begins = 0
          /\ comb[1] # "outside" \/ (NetBegins(l) <= 0 /\ l.semi)

ScanInit ==
  /\ comb = <<"outside">> /\ spelt = FALSE
  /\ block = [kind |-> "outside", depth |-> 0, empty |-> TRUE]
  /\ line = [place |-> "outside", nba |-> FALSE, rewritten |-> FALSE, spelt |-> FALSE]
  /\ quoted = FALSE

CONSTANT MaxDepth   \* the deepest nesting of blocks considered

RewriteLine ==
  \E l \in Lines(block), stray \in Strays :
    /\ block.depth + l.begins - l.ends <= MaxDepth
    /\ comb' = NextComb(Code(l, stray))
    /\ block' = Enter(block, l)
    /\ spelt' = IF block.kind = "outside" THEN l.form = "comb" /\ l.begins > l.ends ELSE spelt
    /\ line' = [place |-> IF block.kind = "outside" THEN l.form ELSE block.kind,
                nba |-> l.nba /\ stray[1] # "comment",
                rewritten |-> Rewrites(Code(l, stray), stray[1] = "comment"),
                spelt |-> block.kind = "comb" /\ spelt]
    /\ quoted' = (quoted \/ stray[1] = "quoted")

ScanSpec == ScanInit /\ [][RewriteLine]_scanVars
-----------------------------------------------------------------------------
(* Properties *)

\* rewrite_combinational_nba never touches a non-blocking assignment outside a
\* combinational block, and within an always @(*) begin ... end block it leaves
\* none behind that ends its line, however blocks nest and whatever is said
\* behind //.  (Not so once a begin or an end stands in a string or a block
\* comment, which it counts as well.)
RewriteStaysInCombBlocks ==
  \/ quoted
  \/ /\ line.rewritten => line.place = "comb"
     /\ line.spelt /\ line.nba => line.rewritten
=============================================================================
