----------------------------- MODULE MCFsccDma ------------------------------
EXTENDS FsccDma, TLC

\* One writer, FsccEvtIoWrite, or request_worker at the same time.
OneWriter  == "write" :> <<1, 1, 1>>
TwoWriters == "write" :> <<1, 1>> @@ "request" :> <<1>>
LongShort  == "write" :> <<2>> @@ "request" :> <<1>>
LongFrames == "write" :> <<1, 2>>
NoWriter   == [w \in {} |-> << >>]

ShortAndLong == <<2, 1, 2>>
Fill         == <<1, 1, 1>>
Nothing      == << >>
=============================================================================
