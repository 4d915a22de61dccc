------------------------------- MODULE Crypto -------------------------------
(***************************************************************************)
(* The encoding of stored files (crypto.c), byte by byte: an exclusive or  *)
(* with a key that repeats, and that starts anew with every buffer which   *)
(* the loops of fs_upload and fs_download hand over.  Both loops fill a    *)
(* buffer of 8192 bytes unless the file ends, so that a file is the same   *)
(* sequence of buffers to both.  That the key's length does not divide the *)
(* buffer's does no harm for this reason only.                             *)
(***************************************************************************)
EXTENDS Integers, Sequences

Byte == [0 .. 7 -> {0, 1}]   \* by their bits

(* Keys are C strings: strlen(key) is the length of the sequence. *)
Keys == Seq(Byte) \ {<< >>}
Buffers == Seq(Byte)

Xor(a, b) == [k \in 0 .. 7 |-> (a[k] + b[k]) % 2]

xor_cipher(input, key) ==
    [i \in 1 .. Len(input) |-> Xor(input[i], key[((i - 1) % Len(key)) + 1])]

encode_data(data, key) == xor_cipher(data, key)
decode_data(data, key) == encode_data(data, key)

(* What the copying loops make of a file, given as a sequence of buffers. *)
UploadLoop(file, key) == [n \in 1 .. Len(file) |-> encode_data(file[n], key)]
DownloadLoop(file, key) == [n \in 1 .. Len(file) |-> decode_data(file[n], key)]
=============================================================================
