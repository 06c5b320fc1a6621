------------------------- MODULE MCChannelLifecycle -------------------------
EXTENDS ChannelLifecycle

CONSTANTS a, b, x, y

On(d)  == [def |-> d, enabled |-> TRUE]
Off(d) == [def |-> d, enabled |-> FALSE]

\* Shrink to the prefix and toggle a survivor, replace the head of an unchanged tail, fail half way
\* through an append, end in a channel that is not counted, outgrow the reserve.
MCFiles == {<<Off(a)>>, <<On(a), On(b)>>, <<On(a), On(x)>>, <<On(b), Off(b)>>,
            <<On(a), On(y)>>,
            <<On(a), On(b), On(b)>>}
MCStart == <<On(a), On(b)>>

\* A file whose first new channel parse_channel() returns false for.
MCLegacyFiles == {<<On(a), On(b)>>, <<On(y), On(b)>>}
=============================================================================
