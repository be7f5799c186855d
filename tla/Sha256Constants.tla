-------------------------- MODULE Sha256Constants ---------------------------
(***************************************************************************)
(* The numbers of SHA-256 as words: the table K, which sha256_ref.c,       *)
(* sha256_compress.c and sha256_compress_xtensa.S each hold a copy of, and *)
(* the initial state.  TLC's integers have 31 bits, so a word is written   *)
(* as its two halves.                                                      *)
(***************************************************************************)
EXTENDS Integers, Sequences

\* The bits of the 32-bit number with the upper half p[1] and the lower half p[2].
WordFrom(p) ==
    LET BitsOf(n) == {i \in 0..15 : (n \div 2^i) % 2 = 1} IN
    BitsOf(p[2]) \cup {i + 16 : i \in BitsOf(p[1])}

WordsFrom(ps) == [i \in DOMAIN ps |-> WordFrom(ps[i])]

KTable == WordsFrom(
    <<<<\h428a, \h2f98>>, <<\h7137, \h4491>>, <<\hb5c0, \hfbcf>>, <<\he9b5, \hdba5>>,
      <<\h3956, \hc25b>>, <<\h59f1, \h11f1>>, <<\h923f, \h82a4>>, <<\hab1c, \h5ed5>>,
      <<\hd807, \haa98>>, <<\h1283, \h5b01>>, <<\h2431, \h85be>>, <<\h550c, \h7dc3>>,
      <<\h72be, \h5d74>>, <<\h80de, \hb1fe>>, <<\h9bdc, \h06a7>>, <<\hc19b, \hf174>>,
      <<\he49b, \h69c1>>, <<\hefbe, \h4786>>, <<\h0fc1, \h9dc6>>, <<\h240c, \ha1cc>>,
      <<\h2de9, \h2c6f>>, <<\h4a74, \h84aa>>, <<\h5cb0, \ha9dc>>, <<\h76f9, \h88da>>,
      <<\h983e, \h5152>>, <<\ha831, \hc66d>>, <<\hb003, \h27c8>>, <<\hbf59, \h7fc7>>,
      <<\hc6e0, \h0bf3>>, <<\hd5a7, \h9147>>, <<\h06ca, \h6351>>, <<\h1429, \h2967>>,
      <<\h27b7, \h0a85>>, <<\h2e1b, \h2138>>, <<\h4d2c, \h6dfc>>, <<\h5338, \h0d13>>,
      <<\h650a, \h7354>>, <<\h766a, \h0abb>>, <<\h81c2, \hc92e>>, <<\h9272, \h2c85>>,
      <<\ha2bf, \he8a1>>, <<\ha81a, \h664b>>, <<\hc24b, \h8b70>>, <<\hc76c, \h51a3>>,
      <<\hd192, \he819>>, <<\hd699, \h0624>>, <<\hf40e, \h3585>>, <<\h106a, \ha070>>,
      <<\h19a4, \hc116>>, <<\h1e37, \h6c08>>, <<\h2748, \h774c>>, <<\h34b0, \hbcb5>>,
      <<\h391c, \h0cb3>>, <<\h4ed8, \haa4a>>, <<\h5b9c, \hca4f>>, <<\h682e, \h6ff3>>,
      <<\h748f, \h82ee>>, <<\h78a5, \h636f>>, <<\h84c8, \h7814>>, <<\h8cc7, \h0208>>,
      <<\h90be, \hfffa>>, <<\ha450, \h6ceb>>, <<\hbef9, \ha3f7>>, <<\hc671, \h78f2>>>>)

H0 == WordsFrom(
    <<<<\h6a09, \he667>>, <<\hbb67, \hae85>>, <<\h3c6e, \hf372>>, <<\ha54f, \hf53a>>,
      <<\h510e, \h527f>>, <<\h9b05, \h688c>>, <<\h1f83, \hd9ab>>, <<\h5be0, \hcd19>>>>)
=============================================================================
