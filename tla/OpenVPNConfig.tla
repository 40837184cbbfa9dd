---------------------------- MODULE OpenVPNConfig ----------------------------
(***************************************************************************)
(* What happens to the text of an OpenVPN profile: overrideOpenVPNRemote       *)
(* (main.go) puts the profile's gateway in, openvpnconfig.Sanitize takes out   *)
(* what the helper decides itself.  Sanitize runs three times on the way: in   *)
(* the controller, in Validate on both sides, and before the engine starts.    *)
(*                                                                         *)
(* A line is a comment, the begin or end of an inline block, or a directive,   *)
(* of which only the classes that Sanitize tells apart are named.             *)
(***************************************************************************)
EXTENDS Naturals, Sequences, SequencesExt

CONSTANTS MaxLines,  \* the limit on the size (1 MiB in the code), in lines
          Words      \* the tags, directives and gateways of the texts

ASSUME MaxLinesAssumption == MaxLines \in Nat

Comment == [kind |-> "comment"]
Begin(tag) == [kind |-> "begin", tag |-> tag]
End(tag) == [kind |-> "end", tag |-> tag]
Directive(name) == [kind |-> "directive", name |-> name]
Remote(gateway) == [kind |-> "directive", name |-> "remote", gateway |-> gateway]
\* OpenVPN takes a directive with leading dashes too.
DashedRemote(gateway) ==
  [kind |-> "directive", name |-> "--remote", gateway |-> gateway]

Line ==
  {Comment} \cup {Begin(tag) : tag \in Words} \cup {End(tag) : tag \in Words}
    \cup {Directive(name) : name \in Words \ {"remote", "--remote"}}
    \cup {Remote(gateway) : gateway \in Words}
    \cup {DashedRemote(gateway) : gateway \in Words}

\* Directives that make the profile unusable, and those that are dropped; a
\* tap device is of the first sort.
Rejected == {"up", "dev tap"}
Removed == {"route", "route-nopull", "script-security"}
Supported == {"ca"}

\* What Sanitize appends.
Settings == <<Directive("route-nopull"), Directive("script-security"),
              Directive("auth-nocache")>>

ASSUME WordsAssumption ==
  Rejected \cup Removed \cup Supported \cup {"remote", "--remote", "auth-nocache"} \subseteq Words

IsDirective(line) == line.kind = "directive"
IsRemote(line) == IsDirective(line) /\ line.name = "remote"

-----------------------------------------------------------------------------
(* Sanitize *)

Keep(scan, line) == [scan EXCEPT !.result = Append(@, line)]
Fail(scan) == [scan EXCEPT !.ok = FALSE]

IsRemoved(line) == line.name \in Removed

\* A line outside the inline blocks.
Outside(scan, line) ==
  CASE line.kind = "comment" -> Keep(scan, line)
    [] line.kind = "begin" ->
         IF line.tag \in Supported THEN [Keep(scan, line) EXCEPT !.inline = line.tag]
         ELSE Fail(scan)
    [] line.kind = "end" -> Fail(scan)
    [] line.kind = "directive" ->
         IF line.name \in Rejected THEN Fail(scan)
         ELSE IF IsRemoved(line) THEN scan
         ELSE Keep(scan, line)

\* The lines of an inline block are kept as they are.
Inside(scan, line) ==
  IF line.kind = "end" /\ line.tag = scan.inline
  THEN [Keep(scan, line) EXCEPT !.inline = ""]
  ELSE Keep(scan, line)

Step(scan, line) ==
  IF ~scan.ok THEN scan
  ELSE IF scan.inline # "" THEN Inside(scan, line) ELSE Outside(scan, line)

Scanned(lines) == FoldLeft(Step, [ok |-> TRUE, inline |-> "", result |-> <<>>], lines)

\* Whether there is an error, and the text when there is none.
Sanitizes(lines) ==
  /\ Len(lines) \in 1..MaxLines
  /\ Scanned(lines).ok
  /\ Scanned(lines).inline = ""
Sanitize(lines) == Scanned(lines).result \o Settings

-----------------------------------------------------------------------------
(* overrideOpenVPNRemote *)

\* Mutant: every remote is given the gateway, none is dropped.
OverrideAll(gateway, lines) ==
  [i \in 1..Len(lines) |-> IF IsRemote(lines[i]) THEN Remote(gateway) ELSE lines[i]]

\* The first remote gets the gateway, the others go; without one it is put in
\* front.  Whether a line is in an inline block is not looked at.
OverrideRemote(gateway, lines) ==
  LET remotes == {i \in 1..Len(lines) : IsRemote(lines[i])}
      Place(result, i) ==
        IF i \notin remotes THEN Append(result, lines[i])
        ELSE IF \A j \in remotes : i <= j THEN Append(result, Remote(gateway))
        ELSE result
      kept == FoldLeft(Place, <<>>, [i \in 1..Len(lines) |-> i])
  IN  IF remotes = {} THEN <<Remote(gateway)>> \o kept ELSE kept

-----------------------------------------------------------------------------
(* How OpenVPN reads a text *)

\* The tag of the inline block it is in after a line, "" outside: a block ends
\* with the closing tag of its own name.
Reads(tag, line) ==
  IF tag = "" THEN IF line.kind = "begin" THEN line.tag ELSE ""
  ELSE IF line = End(tag) THEN "" ELSE tag
Read(lines) == FoldLeft(Reads, "", lines)

\* The lines that are directives to it, and the gateways it is told.
InBlock(lines, i) == Read(SubSeq(lines, 1, i - 1)) # ""
Directives(lines) == {i \in 1..Len(lines) : ~InBlock(lines, i) /\ IsDirective(lines[i])}
Gateways(lines) == {i \in Directives(lines) : lines[i].name \in {"remote", "--remote"}}
=============================================================================
