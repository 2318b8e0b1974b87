\* Two warpgroups: taking turns (hdim 128), with one stage (sparse block 256), and
\* without turns (hdim 192, 256).
CONSTANT NoBlock = NoBlock
SPECIFICATION KernelsSpec
INVARIANT KernelsSmemSafe
PROPERTY KernelsImplementCtaAttention
