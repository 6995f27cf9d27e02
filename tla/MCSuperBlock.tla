---------------------------- MODULE MCSuperBlock -----------------------------
(* Model checking of SuperBlock and Layout. *)
EXTENDS SuperBlock

\* Devices of one to three channels with blocks of 1, 2 and 16 MB, with up to
\* 336 files, up to 16512 and more.  On the third the areas go round from the
\* last channel to the first, and it cannot be opened.
Device(chs, luns, planes, blocks, pages, bytes) ==
    [nchannels |-> chs, nluns |-> luns, nplanes |-> planes, nblocks |-> blocks,
     npages |-> pages, page_nbytes |-> bytes]

Devices == {
    Device(1, 4, 1, 255, 256, 4 * KB),
    Device(2, 2, 1, 64, 256, 4 * KB),
    Device(3, 2, 2, 100, 512, 4 * KB),
    Device(3, 8, 2, 1000, 512, 32 * KB) }

Small == { Device(2, 2, 1, 64, 256, 4 * KB) }
=============================================================================
