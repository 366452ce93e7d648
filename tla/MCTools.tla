-------------------------------- MODULE MCTools --------------------------------
(* The tools and libraries written in C, one of which runs at a time: program *)
(* says which, and the others rest in a first state.                          *)
EXTENDS Squeeze, SqueezeFiles, FsWalk, Stdio, Grep, Sort, Sketch

VARIABLE program

(* Squeeze: all short files of three byte values, one of them DLE, and some   *)
(* with runs too long to count, frequencies to scale and codes too long       *)
MCSqFiles ==
    UNION {[1..n -> {1, 2, 4}] : n \in 0..6} \cup
    {<<1, 1, 1, 1, 1>>, <<1, 1, 1, 1, 1, 1>>, <<1, 1, 1, 1, 1, 1, 1, 2>>, <<1, 1, 1, 1, 1, 1, 1, 1, 1, 1>>,
     <<1, 1, 1, 1, 2, 2, 2, 2, 2>>, <<4, 4, 4, 4, 4, 4, 4, 4, 4, 4, 4, 4, 4, 4, 4, 4, 4, 4>>,
     <<0, 1, 0, 1, 0, 1, 0, 1, 0, 2, 3, 2, 3, 2, 5>>, <<0, 1, 0, 1, 0, 1, 0, 2, 0, 2, 3>>,
     <<0, 1, 2, 3, 0, 1, 2, 3, 0, 1, 2, 3, 0, 1, 2, 3, 5>>,
     [i \in 1..39 |-> IF i = 39 THEN 2 ELSE (i + 1) % 2]}

(* SqueezeFiles: names that squeeze to one name, and one that squeezes to     *)
(* itself; five entries in the directory, of which some are free              *)
MCDirs == {<< <<"a", ".", "t", "x">>, <<"a", ".", "t">>, <<"b">> >>,
           << <<>>, <<"a", ".", "t", "x">>, <<"a", ".", "t", "Q">> >>}
MCNamePatterns == {<<"*", ".", "*">>, <<"*", ".", "?", "Q", "*">>, <<"a", ".", "t", "?">>, <<"b">>}

(* FsWalk: a root, two directories, an empty volume; names with a space, with *)
(* and without an extension; a good configuration and a broken one            *)
MCDisk == [ROOT |-> <<Entry("COMMANDS", TRUE), Entry("SUB", TRUE), Entry("PIC.BMP", FALSE), Entry("MY FILE", FALSE)>>,
           COMMANDS |-> <<Entry(".", TRUE), Entry("..", TRUE), Entry("FS.EXE", FALSE), Entry("FS.CFG", FALSE),
                          Entry("FSWALK.EXE", FALSE), Entry("X.TXT", FALSE)>>,
           SUB |-> <<Entry(".", TRUE), Entry("..", TRUE), Entry("README", FALSE), Entry("N.TXT", FALSE)>>,
           VOL1 |-> <<>>]
MCParent == [ROOT |-> "ROOT", COMMANDS |-> "ROOT", SUB |-> "ROOT", VOL1 |-> "VOL1"]
MCNameLen == [ROOT |-> 4, COMMANDS |-> 8, SUB |-> 3, VOL1 |-> 4]
MCExtension == ("PIC.BMP" :> "BMP") @@ [n \in {"N.TXT", "X.TXT"} |-> "TXT"] @@ ("FS.CFG" :> "CFG")
               @@ [n \in {"FS.EXE", "FSWALK.EXE"} |-> "EXE"]
MCCut == "MY FILE" :> "MY"
MCConfigs == {<< <<"[Ext]">>, <<"BMP", "SHOWBMP">>, <<"TXT", "EDIT">> >>,
              << <<"[Ext]">>, <<"BMP", "SHOW A", "B">>, <<"BMP", "">>, <<"TXT", "EDIT">>, <<"WAV", "PLAY">>, <<"X", "Y">> >>}
MCOld == [TXT |-> "TEXTEDIT", BMP |-> "SHOWBMP"]

(* Stdio: one file, one name that is free, the modes programs use and wrong ones *)
MCContents == [a |-> <<1, 2>>, b |-> Absent]
MCModes == {<<"r", "b">>, <<"w", "b">>, <<"r">>, <<"a", "b">>, <<"r", "b", "+">>, <<"x">>, <<"r", "b", "t">>,
            <<"r", "b", "c", "S", "!">>}
MCChunks == {<<7>>}
MCOffsets == -1..1

(* Grep: each kind of pattern and each error in one, in letters a, b and A    *)
Lo == 97
Lb == 98
Hi == 65
MCGrepPatterns ==
    {<<Lo, Star, Lo, Lb>>, <<Lb, Dot, Star, Lo>>, <<OpenBracket, Lo, Minus, Lb, CloseBracket, Plus, NL>>,
     <<Caret, Lo>>, <<Caret, Star, Lo>>, <<Lo, Star, Star>>, <<Lo, Plus, Lb>>,
     <<OpenBracket, Lo, Lb, CloseBracket, Star, Lb, Lo>>, <<OpenBracket, Caret, Lo, CloseBracket, Lb>>,
     <<Lb, Dollar>>, <<Lo, Minus, Lb>>, <<Colon, 100>>, <<Colon, Hi, Lo>>, <<Colon, 110, Plus>>, <<Colon, 32>>,
     <<Colon>>, <<Colon, 120>>, <<Star>>, <<OpenBracket, Lo>>, <<OpenBracket, Quote>>,
     <<OpenBracket, Quote, Lb, CloseBracket>>, <<Quote, Dot>>, <<OpenBracket, Caret, CloseBracket>>,
     <<OpenBracket, CloseBracket, Lo>>, <<Lo, Lo, Lo, Lo, Lo, Lo, Lo, Lo, Lo>>, <<Hi, Star, Lb>>,
     <<OpenBracket, Lo, Minus, Lb, CloseBracket, Lb, Star, NL>>}
MCFlags == {{}, {"v"}, {"c"}, {"n"}, {"n", "f"}, {"v", "c"}, {"c", "f"}}
MCTexts == {Missing, << <<Lo, Lo, Lb, NL>>, <<NL>>, <<Lb, Hi, Lo, NL>> >>,
            << <<Lb, Lb, Lo, Lo, Lb, Lo, NL>>, <<49, 32, Lb>> >>, << <<Lb, Lo, NL>> >>, << <<NL>>, <<Lo, Lb>> >>}

(* Sort: up to three lines of five, more than LINES, numbers whose difference *)
(* wraps, and a last line without its newline                                 *)
Line(s) == Append(s, Newline)
Large == Line(<<51, 48, 48, 48, 48>>)
Negative == Line(<<45, 57, 57, 57, 57>>)
SortLines == {Line(<<97>>), Line(<<65, 98>>), Line(<<66>>), Line(<<>>), Line(<<50>>)}
MCInputs ==
    UNION {[1..n -> SortLines] : n \in 0..3} \cup [1..4 -> {Line(<<66>>), Line(<<97>>)}] \cup
    {<<Large, Negative, Line(<<53>>), Line(<<55>>)>>, <<Large, Line(<<53>>), Large, Negative>>,
     <<Line(<<98>>), Line(<<97>>), <<97>> >>, [i \in 1..6 |-> Line(<<95 + i>>)],
     [i \in 1..7 |-> Line(<<103 - ((i * i) % 7)>>)], [i \in 1..5 |-> Line(<<103 - i>>)]}
MCOptions == {{}, {"U"}, {"F", "U"}, {"N"}, {"R"}, {"K"}, {"K", "U"}, {"N", "K"}, {"N", "R"}}
MCKeys == {<<>>, << <<1, 1>> >>, << <<2, 2>>, <<1, 1>> >>, << <<0, 1>> >>, << <<1, 1>>, <<1, 1>>, <<1, 1>> >>}

(* Sketch: a key with a prefix, the key that ends the program, and another *)
MCPadKeys == {[code |-> 1, ext |-> TRUE], [code |-> 2, ext |-> FALSE], [code |-> 3, ext |-> FALSE]}
MCInputMap == 1 :> "left" @@ 2 :> "esc"
MCPadPackets == {<<9, 1, 0>>, <<58, 255, 255>>}

-----------------------------------------------------------------------------
Programs == {"squeeze", "files", "fs", "stdio", "grep", "sort", "sketch"}

ToolsInit ==
    /\ program \in Programs
    /\ IF program = "squeeze" THEN SqInit ELSE sq = SqStart(<<>>)
    /\ IF program = "files" THEN SqzInit ELSE sqz = SqzStart(CHOOSE d \in MCDirs : TRUE)
    /\ IF program = "fs" THEN FsInit ELSE fw = FsStart("FS", "SUB", CHOOSE c \in MCConfigs : TRUE)
    /\ IoInit /\ GrepInit /\ SortInit
    /\ IF program = "sketch" THEN SketchInit
       ELSE /\ kb = KeyboardInit /\ ms = install_irq_handler(0, CHOOSE p \in MCPadPackets : TRUE)
            /\ pen = PenStart

ToolsNext ==
    \/ program = "squeeze" /\ SqNext /\ UNCHANGED <<program, sqz, fw, io, g, sort, SketchVars>>
    \/ program = "files" /\ SqzNext /\ UNCHANGED <<program, sq, fw, io, g, sort, SketchVars>>
    \/ program = "fs" /\ FsNext /\ UNCHANGED <<program, sq, sqz, io, g, sort, SketchVars>>
    \/ program = "stdio" /\ IoNext /\ UNCHANGED <<program, sq, sqz, fw, g, sort, SketchVars>>
    \/ program = "grep" /\ GrepNext /\ UNCHANGED <<program, sq, sqz, fw, io, sort, SketchVars>>
    \/ program = "sort" /\ SortNext /\ UNCHANGED <<program, sq, sqz, fw, io, g, SketchVars>>
    \/ program = "sketch" /\ SketchNext /\ UNCHANGED <<program, sq, sqz, fw, io, g, sort>>

ToolsVars == <<program, sq, sqz, fw, io, g, sort, SketchVars>>

(* the fairness of SqzSpec, SortSpec and SketchSpec *)
ToolsSpec ==
    /\ ToolsInit /\ [][ToolsNext]_ToolsVars
    /\ WF_sqz(program = "files" /\ \E full \in DiskFull : WalkOn(full))
    /\ WF_sort(program = "sort" /\ (FileIn \/ EndOfInput \/ Sift \/ Output))
    /\ WF_SketchVars(program = "sketch" /\ irq_handler)
    /\ WF_SketchVars(program = "sketch" /\ Program)

\* What has begun ends: a walk that makes files where it walks, a sort by a
\* comparison that is none, and a program whose user holds ESC.
ToolsEnd == WalkEnds /\ SortEnds /\ EscapeEnds
=============================================================================
