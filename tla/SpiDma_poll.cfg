\* The display's SPI, which sends by DMA and polls to receive, with messages on both sides of the limit.
SPECIFICATION SpiSpec
CONSTANTS
    Lengths = {1, 4, 5}
    spi_dma_flag = {11}
INVARIANT OnlySmallPacketsPolled
