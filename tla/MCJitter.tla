------------------------------ MODULE MCJitter ------------------------------
(***************************************************************************)
(* Five frames, the streams they come in.                                   *)
(***************************************************************************)
EXTENDS JitterBuffer

MCSizes == <<3, 1, 2, 1, 1>>

\* a sender whose packets tell where frames start, without markers and with them
MCUnmarked == [seq : {10}, ts : {10}, markers : {FALSE}, starts : {{1, 4, 5, 7, 8}}]
MCMarked == [seq : {10}, ts : {10}, markers : {TRUE}, starts : {{1, 4, 5, 7, 8}}]

\* packet 6 looks like a start although it is the second of its frame; without markers all packets do
MCStreams ==
    [seq : {SeqMod - 3, 10}, ts : {10}, markers : {TRUE}, starts : {{1, 4, 5, 6, 7, 8}}]
        \cup [seq : {SeqMod - 3, 10}, ts : {10}, markers : {FALSE}, starts : {Packets}]
        \cup MCMarked
=============================================================================
