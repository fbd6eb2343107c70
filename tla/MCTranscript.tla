---------------------------- MODULE MCTranscript ----------------------------
EXTENDS Transcript

Prose(chars, images) == [code |-> None, chars |-> chars, images |-> images]
Source(code) == [code |-> code, chars |-> 2, images |-> << >>]
Text(segs) == [type |-> "text", segs |-> segs]
Use == [type |-> "use", id |-> "t", input |-> 9]
Result(chars, code) ==
    [type |-> "result", id |-> "t", chars |-> chars, images |-> <<"p">>, code |-> code]

Line(parts, usage) == [parts |-> parts, usage |-> usage, cut |-> "no"]
\* splitlines cuts these, so that nothing shows what they say.
Never(cut) == [parts |-> << >>, usage |-> FALSE, cut |-> cut]

MCLines == {
    Line(<<Text(<<Prose(9, << >>)>>)>>, TRUE),
    Line(<<Text(<<Prose(1, <<"p">>)>>)>>, FALSE),
    Line(<<Text(<<Prose(1, << >>), Source("m")>>)>>, FALSE),
    Line(<<[type |-> "image", path |-> "q"], Use>>, FALSE),
    Line(<<Result(9, "m")>>, FALSE),
    Never("malformed"), Never("tail") }
=============================================================================
