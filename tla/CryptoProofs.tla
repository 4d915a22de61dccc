---------------------------- MODULE CryptoProofs ----------------------------
(* Decoding undoes encoding, for every key and every file. *)
EXTENDS Crypto, TLAPS

(* Exclusive or with a byte gives a byte, and twice the same changes nothing. *)
LEMMA XorTwice ==
  ASSUME NEW a \in Byte, NEW b \in Byte
  PROVE  Xor(a, b) \in Byte /\ Xor(Xor(a, b), b) = a
<1>1. \A x \in {0, 1}, y \in {0, 1} :
        (x + y) % 2 \in {0, 1} /\ (((x + y) % 2) + y) % 2 = x
  OBVIOUS
<1>2. \A k \in 0 .. 7 : a[k] \in {0, 1} /\ b[k] \in {0, 1}
  BY DEF Byte
<1>3. Xor(a, b) \in Byte
  BY <1>1, <1>2 DEF Xor, Byte
<1>4. \A k \in 0 .. 7 : Xor(Xor(a, b), b)[k] = a[k]
  BY <1>1, <1>2 DEF Xor
<1>5. Xor(Xor(a, b), b) = a
  BY <1>4 DEF Xor, Byte
<1> QED BY <1>3, <1>5

(* The index into the key is within the key, at every place of the data. *)
LEMMA KeyIndex ==
  ASSUME NEW key \in Keys, NEW i \in Nat \ {0}
  PROVE  key[((i - 1) % Len(key)) + 1] \in Byte
<1>1. key \in Seq(Byte) /\ Len(key) \in Nat \ {0}
  BY DEF Keys
<1>2. i - 1 \in Nat
  OBVIOUS
<1>3. \A n \in Nat, m \in Nat \ {0} : n % m \in 0 .. m - 1
  OBVIOUS
<1>4. ((i - 1) % Len(key)) + 1 \in 1 .. Len(key)
  BY <1>1, <1>2, <1>3
<1> QED BY <1>1, <1>4

(* xor_cipher keeps the length and gives bytes, and applied twice with one *)
(* key it gives back what it got.                                          *)
LEMMA CipherTwice ==
  ASSUME NEW s \in Buffers, NEW key \in Keys
  PROVE  /\ xor_cipher(s, key) \in Buffers
         /\ Len(xor_cipher(s, key)) = Len(s)
         /\ xor_cipher(xor_cipher(s, key), key) = s
<1> DEFINE K(i) == key[((i - 1) % Len(key)) + 1]
           e == xor_cipher(s, key)
<1>1. \A i \in 1 .. Len(s) : s[i] \in Byte /\ K(i) \in Byte
  BY KeyIndex DEF Buffers
<1>2. e = [i \in 1 .. Len(s) |-> Xor(s[i], K(i))]
  BY DEF xor_cipher
<1>3. e \in Buffers /\ Len(e) = Len(s)
  BY <1>1, <1>2, XorTwice DEF Buffers
<1>4. xor_cipher(e, key) = [i \in 1 .. Len(s) |-> Xor(e[i], K(i))]
  BY <1>3 DEF xor_cipher
<1>5. \A i \in 1 .. Len(s) : Xor(e[i], K(i)) = s[i]
  BY <1>1, <1>2, XorTwice
<1>6. xor_cipher(e, key) = s
  BY <1>4, <1>5 DEF Buffers
<1> QED BY <1>3, <1>6

(* A file that fs_upload stored is what fs_download writes to the          *)
(* temporary file, for every key, every number of buffers and every length *)
(* of each: crypto.c and the two loops of fs.c.                            *)
THEOREM RoundTrip ==
  ASSUME NEW file \in Seq(Buffers), NEW key \in Keys
  PROVE  /\ DownloadLoop(UploadLoop(file, key), key) = file
         /\ Len(UploadLoop(file, key)) = Len(file)
         /\ \A n \in 1 .. Len(file) : Len(UploadLoop(file, key)[n]) = Len(file[n])
<1> DEFINE u == UploadLoop(file, key)
<1>1. \A n \in 1 .. Len(file) : file[n] \in Buffers
  OBVIOUS
<1>2. /\ u = [n \in 1 .. Len(file) |-> xor_cipher(file[n], key)]
      /\ Len(u) = Len(file)
  BY DEF UploadLoop, encode_data
<1>3. DownloadLoop(u, key) = [n \in 1 .. Len(file) |-> xor_cipher(u[n], key)]
  BY <1>2 DEF DownloadLoop, decode_data, encode_data
<1>4. \A n \in 1 .. Len(file) : /\ xor_cipher(u[n], key) = file[n]
                                /\ Len(u[n]) = Len(file[n])
  BY <1>1, <1>2, CipherTwice
<1>5. DownloadLoop(u, key) = file
  BY <1>3, <1>4
<1> QED BY <1>2, <1>4, <1>5

(* Different files are stored differently: nothing of a file is lost by    *)
(* encoding it.                                                            *)
COROLLARY Injective ==
  ASSUME NEW f \in Seq(Buffers), NEW g \in Seq(Buffers), NEW key \in Keys,
         UploadLoop(f, key) = UploadLoop(g, key)
  PROVE  f = g
BY RoundTrip
=============================================================================
