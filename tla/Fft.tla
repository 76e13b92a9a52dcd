-------------------------------- MODULE Fft --------------------------------
(***************************************************************************)
(* fft.c: the radix-2 FFT of N complex values of 16 bits that halves the   *)
(* values at every stage.                                                  *)
(***************************************************************************)
EXTENDS CInt

CONSTANTS
    LogN,       \* stages of a whole FFT, 8 in the code
    twiddle     \* <<cos, sin>>(2 pi k / N) in Q15, uploaded by the ARM9

N == 2^LogN     \* FFT_N

Index == 0 .. N - 1

\* Mutant: the second half of the period keeps the sign of the first.
tw_sinUnsigned(m) == twiddle[m % (N \div 2)][2]

\* cos and sin of 2 pi m / N for any m, from the table of the first half.
tw_cos(m) == LET k == m % N
             IN  IF k < N \div 2 THEN twiddle[k][1] ELSE S(16, -twiddle[k - N \div 2][1])
tw_sin(m) == LET k == m % N
             IN  IF k < N \div 2 THEN twiddle[k][2] ELSE S(16, -twiddle[k - N \div 2][2])

\* fft_bitrev, and fft_in: two tones plus noise of rng().
fft_bitrev(i) == SumTo(LogN, LAMBDA b : Bit(i, b) * 2^(LogN - 1 - b))
fft_setup(noise) ==
    [n \in Index |->
        [re |-> S(16, Shr(tw_cos(5 * n), 2) + Shr(tw_sin(37 * n), 3) + noise[n]),
         im |-> S(16, Shr(tw_sin(9 * n), 2))]]

fft_bitrev_copy(in) ==
    [i \in Index |-> in[CHOOSE n \in Index : fft_bitrev(n) = i]]

\* One butterfly: the new values of its elements a and b.
fft_bfly(a, b, w) ==
    LET tr == Shr(b.re * w[1] + b.im * w[2], 15)
        ti == Shr(b.im * w[1] - b.re * w[2], 15)
        Half(x) == S(16, Shr(x, 1))
    IN  << [re |-> Half(a.re + tr), im |-> Half(a.im + ti)],
           [re |-> Half(a.re - tr), im |-> Half(a.im - ti)] >>

\* All butterflies of the stage whose elements are "half" apart.
Stage(x, half) ==
    [i \in Index |->
        LET j == i % half
            lower == (i \div half) % 2 = 0
            a == IF lower THEN i ELSE i - half
        IN  fft_bfly(x[a], x[a + half], twiddle[j * (N \div (2 * half))])
                [IF lower THEN 1 ELSE 2]]

k_fft_stages(in, stages) ==
    LET after[s \in 0 .. LogN] ==
            IF s = 0 THEN fft_bitrev_copy(in)
            ELSE IF s > stages THEN after[s - 1] ELSE Stage(after[s - 1], 2^(s - 1))
    IN  after[LogN]

k_fft(in) == k_fft_stages(in, 8)

-----------------------------------------------------------------------------
(* What the kernel promises. *)

\* The discrete Fourier transform of "in" at k, each product rounded down.
Dft(in, k) ==
    [re |-> SumTo(N, LAMBDA n : Shr(in[n].re * tw_cos(n * k), 15)
                                + Shr(in[n].im * tw_sin(n * k), 15)),
     im |-> SumTo(N, LAMBDA n : Shr(in[n].im * tw_cos(n * k), 15)
                                - Shr(in[n].re * tw_sin(n * k), 15))]

\* k_fft() is the DFT divided by N, up to the rounding of its stages and of
\* the definition above: no stage overflows its 16 bits.
FftIsDft(in) ==
    LET out == k_fft(in)
    IN  \A k \in Index : /\ Abs(N * out[k].re - Dft(in, k).re) <= 3 * N
                         /\ Abs(N * out[k].im - Dft(in, k).im) <= 3 * N
=============================================================================
